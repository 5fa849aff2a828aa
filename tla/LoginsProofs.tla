---------------------------- MODULE LoginsProofs ----------------------------
(* Proofs about Logins, for every set of workers and every limit of wrong  *)
(* tries.  The inductive invariant has a part for each row, each request   *)
(* and each session; a request that has read a row and was not overtaken   *)
(* knows what the row still says.                                          *)
(* After them, proofs about Schema, for every set of replicas and whatever *)
(* databases earlier releases left.                                        *)
EXTENDS Logins, Schema, SequenceTheorems, WellFoundedInduction, TLAPS

-----------------------------------------------------------------------------
RowInv(c) ==
  /\ code[c].sees < c
  /\ \A d \in Old(code[c].by, code[c].sees) : code[d].ended
  /\ code[c].uses > 0 => code[c].ended
  /\ ~code[c].met => /\ code[c].uses <= 1
                     /\ code[c].tries = code[c].missed
                     /\ code[c].tries >= MaxTries => code[c].ended
  /\ code[c].by = "request" => ~summit

\* A proof of a session: the password, or a code, never a reset token.
IsProof(p) == p = None \/ (p \in DOMAIN code /\ OneTime(p))

\* What an access token may rest on: such a proof, or a reset token that is over.
IsGrant(token) ==
  \/ IsProof(token.proof)
  \/ token.proof \in DOMAIN code /\ code[token.proof].ended /\ token.own = None

ReqInv(w) ==
  /\ At(w, "hit") => req[w].code \in DOMAIN code /\ OneTime(req[w].code)
  /\ At(w, "reset") => req[w].code \in DOMAIN code
  /\ At(w, "hit") \/ At(w, "reset") =>
       code[req[w].code].met \/ code[req[w].code].uses = 0
  /\ At(w, "miss") =>
       /\ req[w].code \in DOMAIN code
       /\ code[req[w].code].met \/ req[w].tries = code[req[w].code].tries
  /\ At(w, "end") => req[w].sees = 0
  /\ At(w, "insert") =>
       /\ req[w].sees <= Len(code)
       /\ req[w].by = "login" => \A d \in Old("login", req[w].sees) : code[d].ended
  /\ At(w, "end") \/ At(w, "insert") => (req[w].by = "request" => ~summit)
  /\ At(w, "session") => IsProof(req[w].proof)

IInv ==
  /\ TypeOK
  /\ \A c \in DOMAIN code : RowInv(c)
  /\ \A w \in Worker : ReqInv(w)
  /\ \A s \in DOMAIN session : IsProof(session[s].proof)
  /\ \A token \in access : IsGrant(token)

-----------------------------------------------------------------------------
\* What every step leaves of the rows: they stay, with the issue they are of,
\* and what is ended stays ended.
RowsKept ==
  /\ Len(code) <= Len(code')
  /\ \A c \in DOMAIN code : /\ code'[c].by = code[c].by
                            /\ code'[c].sees = code[c].sees
                            /\ code[c].ended => code'[c].ended

LEMMA RowType ==
  ASSUME TypeOK, NEW c \in DOMAIN code
  PROVE  /\ code[c] \in Code
         /\ code[c].by \in Issuer /\ code[c].tries \in Nat /\ code[c].sees \in Nat
         /\ code[c].missed \in Nat /\ code[c].uses \in Nat
         /\ code[c].ended \in BOOLEAN /\ code[c].met \in BOOLEAN
         /\ c \in 1 .. Len(code) /\ Len(code) \in Nat
<1>1. code \in Seq(Code)
  BY DEF TypeOK
<1>2. code[c] \in Code /\ c \in 1 .. Len(code) /\ Len(code) \in Nat
  BY <1>1
<1> QED BY <1>2 DEF Code

\* A row that is ended is as it was but for that.
LEMMA RowEnded ==
  ASSUME TypeOK, NEW c \in DOMAIN code, NEW row,
         row = code[c] \/ row = [code[c] EXCEPT !.ended = TRUE]
  PROVE  /\ row.by = code[c].by /\ row.sees = code[c].sees
         /\ row.tries = code[c].tries /\ row.missed = code[c].missed
         /\ row.uses = code[c].uses /\ row.met = code[c].met
         /\ code[c].ended => row.ended
         /\ row = [code[c] EXCEPT !.ended = TRUE] => row.ended
<1> code[c] \in Code
  BY RowType
<1> QED BY DEF Code

\* What a request holds, by where it is.
LEMMA RequestType ==
  ASSUME TypeOK, NEW w \in Worker
  PROVE  /\ req[w] \in Request
         /\ At(w, "end") \/ At(w, "insert") =>
              req[w] \in [pc : {"end", "insert"}, by : Issuer, sees : Nat]
         /\ At(w, "hit") \/ At(w, "reset") => req[w].code \in Nat
         /\ At(w, "miss") => req[w].code \in Nat /\ req[w].tries \in Nat
         /\ At(w, "session") => req[w].proof \in Nat
         /\ At(w, "logout") => req[w].own \in Nat /\ req[w].latest \in Nat
  BY DEF TypeOK, Request, Idle, At

\* Ending the old rows ends rows and does nothing else.
LEMMA EndedRows ==
  ASSUME TypeOK, NEW by \in Issuer, NEW sees \in Nat
  PROVE  /\ Ended(by, sees) \in Seq(Code)
         /\ Len(Ended(by, sees)) = Len(code)
         /\ DOMAIN Ended(by, sees) = 1 .. Len(code)
         /\ \A c \in DOMAIN code :
              /\ Ended(by, sees)[c] = IF c \in Old(by, sees)
                                      THEN [code[c] EXCEPT !.ended = TRUE] ELSE code[c]
              /\ Ended(by, sees)[c] \in Code
<1>1. code \in Seq(Code) /\ Len(code) \in Nat /\ DOMAIN code = 1 .. Len(code)
  BY DEF TypeOK
<1>2. \A c \in DOMAIN code : Ended(by, sees)[c] =
        IF c \in Old(by, sees) THEN [code[c] EXCEPT !.ended = TRUE] ELSE code[c]
  BY DEF Ended
<1>3. \A c \in DOMAIN code : Ended(by, sees)[c] \in Code
  <2> TAKE c \in DOMAIN code
  <2>1. code[c] \in Code
    BY <1>1
  <2>2. [code[c] EXCEPT !.ended = TRUE] \in Code
    BY <2>1 DEF Code
  <2> QED BY <1>2, <2>1, <2>2
<1>4. Ended(by, sees) \in [1 .. Len(code) -> Code]
  BY <1>1, <1>3 DEF Ended
<1> QED BY <1>1, <1>2, <1>3, <1>4

\* The rows before a new one: as they are, or with the old ones ended.
Before(w) == IF req[w].by = "login" THEN code ELSE Ended(req[w].by, req[w].sees)

LEMMA BeforeRows ==
  ASSUME TypeOK, NEW w \in Worker, At(w, "insert")
  PROVE  /\ Before(w) \in Seq(Code) /\ Len(Before(w)) = Len(code)
         /\ req[w].by \in Issuer /\ req[w].sees \in Nat
         /\ \A c \in DOMAIN code :
              /\ Before(w)[c] = code[c] \/ Before(w)[c] = [code[c] EXCEPT !.ended = TRUE]
              /\ req[w].by # "login" /\ c \in Old(req[w].by, req[w].sees) =>
                   Before(w)[c] = [code[c] EXCEPT !.ended = TRUE]
<1>1. req[w].by \in Issuer /\ req[w].sees \in Nat
  BY RequestType
<1>2. CASE req[w].by = "login"
  BY <1>1, <1>2 DEF Before, TypeOK
<1>3. CASE req[w].by # "login"
  BY <1>1, <1>3, EndedRows DEF Before
<1> QED BY <1>2, <1>3

LEMMA TypeKept ==
  ASSUME TypeOK, [Next]_vars,
         \A w \in Worker : At(w, "hit") \/ At(w, "miss") \/ At(w, "reset") =>
                           req[w].code \in DOMAIN code
  PROVE  TypeOK'
<1>1. CASE UNCHANGED vars
  BY <1>1 DEF TypeOK, vars
<1>2. ASSUME NEW w \in Worker, NEW r \in Request, Goto(w, r)
      PROVE  req' \in [Worker -> Request]
  BY <1>2 DEF TypeOK, Goto
<1>3. ASSUME NEW c \in DOMAIN code, NEW row \in Code
      PROVE  [code EXCEPT ![c] = row] \in Seq(Code)
  BY DEF TypeOK
<1>4. Idle \in Request /\ None \in Nat
  BY DEF Request, None
<1>5. ASSUME NEW c \in DOMAIN code, NEW n \in Nat, NEW m \in Nat,
             NEW ended \in BOOLEAN, NEW met \in BOOLEAN
      PROVE  /\ [code[c] EXCEPT !.ended = TRUE, !.uses = n, !.met = met] \in Code
             /\ [code[c] EXCEPT !.tries = n, !.ended = ended, !.missed = m,
                                !.met = met] \in Code
             /\ [code[c] EXCEPT !.expired = TRUE] \in Code
  <2> code[c] \in Code
    BY RowType
  <2> QED BY DEF Code
<1>6. ASSUME NEW w \in Worker, NEW by \in Issuer, Issue(w, by)
      PROVE  TypeOK'
  <2>1. [pc |-> "end", by |-> by, sees |-> 0] \in Request
    BY DEF Request
  <2> QED BY <1>2, <1>6, <2>1 DEF Issue, TypeOK
<1>7. ASSUME NEW w \in Worker, Login(w) \/ OtpRequest(w) \/ ForgotPassword(w)
      PROVE  TypeOK'
  <2>1. [pc |-> "session", proof |-> None] \in Request
    BY <1>4 DEF Request
  <2>2. CASE Login(w)
    <3>1. CASE Issue(w, "login")
      BY <1>6, <3>1 DEF Issuer
    <3>2. CASE Goto(w, [pc |-> "session", proof |-> None])
                 /\ UNCHANGED <<summit, twoSteps, code, session, access>>
      BY <1>2, <2>1, <3>2 DEF TypeOK
    <3> QED BY <2>2, <3>1, <3>2 DEF Login
  <2>3. CASE OtpRequest(w) \/ ForgotPassword(w)
    BY <1>6, <2>3 DEF OtpRequest, ForgotPassword, Issuer
  <2> QED BY <1>7, <2>2, <2>3
<1>8. ASSUME NEW w \in Worker, EndOld(w)
      PROVE  TypeOK'
  <2>1. req[w] \in [pc : {"end", "insert"}, by : Issuer, sees : Nat]
    BY <1>8, RequestType DEF EndOld
  <2>2. Len(code) \in Nat
    BY DEF TypeOK
  <2>3. [req[w] EXCEPT !.pc = "insert", !.sees = Len(code)] \in Request
    BY <2>1, <2>2 DEF Request
  <2>4. Ended("login", Len(code)) \in Seq(Code)
    BY <2>2, EndedRows DEF Issuer
  <2> QED BY <1>2, <1>8, <2>3, <2>4 DEF EndOld, TypeOK
<1>9. ASSUME NEW w \in Worker, EndOldFails(w)
      PROVE  TypeOK'
  <2>1. req[w] \in [pc : {"end", "insert"}, by : Issuer, sees : Nat]
    BY <1>9, RequestType DEF EndOldFails
  <2>2. [req[w] EXCEPT !.pc = "insert"] \in Request
    BY <2>1 DEF Request
  <2> QED BY <1>2, <1>9, <2>2 DEF EndOldFails, TypeOK
<1>10. ASSUME NEW w \in Worker, InsertCode(w)
       PROVE  TypeOK'
  <2>1. code' = Append(Before(w), NewCode(req[w].by, req[w].sees))
    BY <1>10 DEF InsertCode, Before
  <2>2. Before(w) \in Seq(Code) /\ req[w].by \in Issuer /\ req[w].sees \in Nat
    BY <1>10, BeforeRows DEF InsertCode
  <2>3. NewCode(req[w].by, req[w].sees) \in Code
    BY <2>2 DEF NewCode, Code
  <2>4. code' \in Seq(Code)
    BY <2>1, <2>2, <2>3
  <2> QED BY <1>2, <1>4, <1>10, <2>4 DEF InsertCode, TypeOK
<1>11. ASSUME NEW w \in Worker, LoginVerifyOtp(w) \/ OtpVerify(w)
       PROVE  TypeOK'
  <2>1. ASSUME NEW c \in DOMAIN code
        PROVE  /\ [pc |-> "hit", code |-> c] \in Request
               /\ [pc |-> "miss", code |-> c, tries |-> code[c].tries] \in Request
    BY RowType DEF Request
  <2>2. PICK r \in Request : Goto(w, r)
    BY <1>11, <2>1 DEF LoginVerifyOtp, OtpVerify, ReadCode, Open
  <2> QED BY <1>2, <1>11, <2>2 DEF LoginVerifyOtp, OtpVerify, TypeOK
<1>12. ASSUME NEW w \in Worker, Hit(w) \/ Miss(w) \/ SetPassword(w)
       PROVE  TypeOK'
  <2> DEFINE c == req[w].code
  <2>0. c \in DOMAIN code
    BY <1>12 DEF Hit, Miss, SetPassword
  <2>1. /\ code[c].uses \in Nat /\ code[c].missed \in Nat /\ code[c].tries \in Nat
        /\ code[c].ended \in BOOLEAN /\ code[c].met \in BOOLEAN /\ code[c] \in Code
    BY <2>0, RowType
  <2>2. Met(w, c) \in BOOLEAN /\ LocksOut(req[w].tries) \in BOOLEAN
    BY <2>1 DEF Met, LocksOut
  <2>3. code' \in Seq(Code)
    <3>1. CASE Hit(w) \/ SetPassword(w)
      <4>1. [code[c] EXCEPT !.ended = TRUE, !.uses = @ + 1, !.met = Met(w, c)] \in Code
        <5>1. code[c].uses + 1 \in Nat
          BY <2>1
        <5> QED BY <1>5, <2>0, <2>2, <5>1
      <4>2. code' = [code EXCEPT ![c] = [code[c] EXCEPT !.ended = TRUE, !.uses = @ + 1,
                                                        !.met = Met(w, c)]]
        BY <1>12, <2>0, <3>1, <2>1 DEF Hit, SetPassword, TypeOK, Code
      <4> QED BY <1>3, <2>0, <4>1, <4>2
    <3>2. CASE Miss(w)
      <4>1. req[w].tries \in Nat
        BY <3>2, RequestType DEF Miss
      <4>2. [code[c] EXCEPT !.tries = req[w].tries + 1,
                            !.ended = @ \/ LocksOut(req[w].tries),
                            !.missed = @ + 1, !.met = Met(w, c)] \in Code
        <5>1. req[w].tries + 1 \in Nat /\ code[c].missed + 1 \in Nat
          BY <2>1, <4>1
        <5>2. (code[c].ended \/ LocksOut(req[w].tries)) \in BOOLEAN
          BY <2>1, <2>2
        <5> QED BY <1>5, <2>0, <2>2, <5>1, <5>2
      <4>3. code' = [code EXCEPT ![c] = [code[c] EXCEPT !.tries = req[w].tries + 1,
                            !.ended = @ \/ LocksOut(req[w].tries),
                            !.missed = @ + 1, !.met = Met(w, c)]]
        BY <1>12, <2>0, <3>2, <2>1 DEF Miss, TypeOK, Code
      <4> QED BY <1>3, <2>0, <4>2, <4>3
    <3> QED BY <1>12, <2>0, <3>1, <3>2
  <2>4. [pc |-> "session", proof |-> c] \in Request /\ access' \subseteq Access
    BY <1>4, <1>12, <2>0 DEF Hit, Miss, SetPassword, SignIn, Request, Access, TypeOK
  <2> QED BY <1>2, <1>4, <1>12, <2>3, <2>4 DEF Hit, Miss, SetPassword, TypeOK
<1>13. ASSUME NEW w \in Worker, ResetPassword(w)
       PROVE  TypeOK'
  <2>1. ASSUME NEW c \in DOMAIN code
        PROVE  [pc |-> "reset", code |-> c] \in Request
    BY RowType DEF Request
  <2>2. PICK r \in Request : Goto(w, r)
    BY <1>13, <2>1 DEF ResetPassword
  <2> QED BY <1>2, <1>13, <2>2 DEF ResetPassword, TypeOK
<1>14. ASSUME NEW w \in Worker, CreateUserSession(w) \/ CreateUserSessionFails(w)
       PROVE  TypeOK'
  <2>1. req[w].proof \in Nat
    BY <1>14, RequestType DEF CreateUserSession, CreateUserSessionFails
  <2>2. [proof |-> req[w].proof, out |-> FALSE, endedBy |-> None] \in Session
    BY <1>4, <2>1 DEF Session
  <2>3. session' \in Seq(Session)
    BY <1>14, <2>2 DEF CreateUserSession, CreateUserSessionFails, TypeOK
  <2>4. access' \subseteq Access
    <3>1. Len(session) + 1 \in Nat
      BY DEF TypeOK
    <3> QED BY <1>4, <1>14, <2>1, <3>1
            DEF CreateUserSession, CreateUserSessionFails, SignIn, Access, TypeOK
  <2> QED BY <1>2, <1>4, <1>14, <2>3, <2>4 DEF CreateUserSession, CreateUserSessionFails, TypeOK
<1>15. ASSUME NEW w \in Worker, NEW token \in access, Logout(w, token)
       PROVE  TypeOK'
  <2>1. ASSUME NEW s \in DOMAIN session
        PROVE  [pc |-> "logout", own |-> token.own, latest |-> s] \in Request
    BY DEF Request, TypeOK, Access
  <2>2. PICK r \in Request : Goto(w, r)
    BY <1>15, <2>1 DEF Logout, Active
  <2> QED BY <1>2, <1>15, <2>2 DEF Logout, TypeOK
<1>16. ASSUME NEW w \in Worker, EndSession(w), NEW s, s = req[w].latest
       PROVE  TypeOK'
  <2>1. req[w].own \in Nat
    BY <1>16, RequestType DEF EndSession
  <2>2. session' \in Seq(Session)
    <3>1. CASE s \notin DOMAIN session
      <4>1. session' = session
        BY <1>16, <3>1 DEF EndSession, TypeOK
      <4> QED BY <4>1 DEF TypeOK
    <3>2. CASE s \in DOMAIN session
      <4>1. session[s] \in Session
        BY <3>2 DEF TypeOK
      <4>2. [session[s] EXCEPT !.out = TRUE, !.endedBy = req[w].own] \in Session
        BY <2>1, <4>1 DEF Session
      <4>3. session' = [session EXCEPT ![s] =
                          [session[s] EXCEPT !.out = TRUE, !.endedBy = req[w].own]]
        BY <1>16, <3>2, <4>1 DEF EndSession, TypeOK, Session
      <4> QED BY <3>2, <4>2, <4>3 DEF TypeOK
    <3> QED BY <3>1, <3>2
  <2> QED BY <1>2, <1>4, <1>16, <2>2 DEF EndSession, TypeOK
<1>17. ASSUME NEW c \in DOMAIN code, Expire(c)
       PROVE  TypeOK'
  <2>1. code[c] \in Code
    BY RowType
  <2>2. code' = [code EXCEPT ![c] = [code[c] EXCEPT !.expired = TRUE]]
    BY <1>17, <2>1 DEF Expire, TypeOK, Code
  <2>3. code' \in Seq(Code)
    BY <1>3, <1>5, <2>2
  <2> QED BY <1>17, <2>3 DEF Expire, TypeOK
<1>18. ASSUME NEW w \in Worker, Crash(w)
       PROVE  TypeOK'
  BY <1>2, <1>4, <1>18 DEF Crash, TypeOK
<1> QED
  BY <1>1, <1>7, <1>8, <1>9, <1>10, <1>11, <1>12, <1>13, <1>14, <1>15, <1>16, <1>17,
     <1>18 DEF Next

-----------------------------------------------------------------------------
(* What the parts of the invariant rest on *)

\* A row whose counters are left alone keeps its part of the invariant.
SameCounters(c) ==
  /\ code'[c].tries = code[c].tries /\ code'[c].missed = code[c].missed
  /\ code'[c].uses = code[c].uses /\ code'[c].met = code[c].met

LEMMA RowStays ==
  ASSUME IInv, RowsKept, summit' = summit, code' \in Seq(Code),
         NEW c \in DOMAIN code, SameCounters(c)
  PROVE  RowInv(c)'
<1>1. RowInv(c) /\ code[c].sees \in Nat /\ c \in 1 .. Len(code) /\ Len(code) \in Nat
  BY RowType DEF IInv
<1>2. code'[c].by = code[c].by /\ code'[c].sees = code[c].sees
      /\ (code[c].ended => code'[c].ended)
  BY DEF RowsKept
<1>3. \A d \in DOMAIN code : code'[d].by = code[d].by /\ (code[d].ended => code'[d].ended)
  BY DEF RowsKept
<1>4. ASSUME NEW d \in Old(code[c].by, code[c].sees)'
      PROVE  code'[d].ended
  <2>1. d \in 1 .. code[c].sees /\ d \in DOMAIN code
    BY <1>1, <1>2, <1>4 DEF Old, RowInv, IInv, TypeOK
  <2>2. d \in Old(code[c].by, code[c].sees)
    BY <1>1, <1>2, <1>3, <1>4, <2>1 DEF Old, IsToken
  <2> QED BY <1>1, <1>3, <2>1, <2>2 DEF RowInv
<1> QED BY <1>1, <1>2, <1>4 DEF RowInv, SameCounters

\* A request that did not move and was not overtaken keeps its part.
Unnoticed(w) ==
  \A c \in DOMAIN code :
    HasRead(w, c) => code'[c].met \/ SameCounters(c)

LEMMA RequestStays ==
  ASSUME IInv, RowsKept, summit' = summit, code' \in Seq(Code),
         NEW w \in Worker, req'[w] = req[w], Unnoticed(w)
  PROVE  ReqInv(w)'
<1>1. ReqInv(w) /\ Len(code) \in Nat /\ DOMAIN code = 1 .. Len(code)
      /\ Len(code') \in Nat /\ DOMAIN code' = 1 .. Len(code') /\ Len(code) <= Len(code')
  BY DEF IInv, TypeOK, RowsKept
<1>2. \A d \in DOMAIN code : d \in DOMAIN code' /\ code'[d].by = code[d].by
                                /\ (code[d].ended => code'[d].ended)
  BY <1>1 DEF RowsKept
<1>3. \A p : IsProof(p) => IsProof(p)'
  BY <1>1, <1>2 DEF IsProof, OneTime, IsToken
<1>4. CASE At(w, "hit") \/ At(w, "reset") \/ At(w, "miss")
  <2>1. req[w].code \in DOMAIN code
    BY <1>1, <1>4 DEF ReqInv
  <2>2. code'[req[w].code].met \/ SameCounters(req[w].code)
    BY <1>4, <2>1 DEF Unnoticed, HasRead, At
  <2> QED
    BY <1>1, <1>2, <1>4, <2>1, <2>2 DEF ReqInv, At, OneTime, IsToken, SameCounters
<1>5. CASE At(w, "insert")
  <2>1. req[w].sees \in Nat /\ req[w].sees <= Len(code)
    BY <1>1, <1>5, RequestType DEF ReqInv, IInv
  <2>2. Old("login", req[w].sees)' = Old("login", req[w].sees)
    BY <1>1, <1>2, <2>1 DEF Old, IsToken
  <2>3. \A d \in Old("login", req[w].sees) : d \in DOMAIN code
    BY <1>1, <2>1 DEF Old
  <2> QED
    BY <1>1, <1>2, <1>5, <2>1, <2>2, <2>3 DEF ReqInv, At
<1> QED
  BY <1>1, <1>3, <1>4, <1>5 DEF ReqInv, At

\* What sessions and access tokens rest on goes on to be there.
LEMMA ProofsStay ==
  ASSUME IInv, TypeOK', RowsKept
  PROVE  /\ \A p : IsProof(p) => IsProof(p)'
         /\ \A token : IsGrant(token) => IsGrant(token)'
<1>1. \A d \in DOMAIN code : d \in DOMAIN code' /\ code'[d].by = code[d].by
                                /\ (code[d].ended => code'[d].ended)
  BY DEF IInv, TypeOK, RowsKept
<1>2. \A p : IsProof(p) => IsProof(p)'
  BY <1>1 DEF IsProof, OneTime, IsToken
<1>3. \A token : IsGrant(token) => IsGrant(token)'
  BY <1>1, <1>2 DEF IsGrant
<1> QED BY <1>2, <1>3

\* A step that leaves the rows alone keeps all of the invariant if the request
\* that moved has its part.
LEMMA RowsUntouched ==
  ASSUME IInv, TypeOK', UNCHANGED <<summit, code>>, NEW w \in Worker, ReqInv(w)',
         \A v \in Worker : v # w => req'[v] = req[v],
         \A s \in DOMAIN session' : IsProof(session'[s].proof),
         \A token \in access' : IsGrant(token)
  PROVE  IInv'
<1>1. RowsKept /\ code' \in Seq(Code)
  BY DEF RowsKept, TypeOK
<1>2. \A c \in DOMAIN code : SameCounters(c)
  BY DEF SameCounters
<1>3. \A v \in Worker : ReqInv(v)'
  <2> TAKE v \in Worker
  <2>1. CASE v # w
    BY <1>1, <1>2, <2>1, RequestStays DEF Unnoticed
  <2> QED BY <2>1
<1>4. \A c \in DOMAIN code' : RowInv(c)'
  BY <1>1, <1>2, RowStays
<1>5. /\ (\A s \in DOMAIN session : IsProof(session[s].proof))'
      /\ (\A token \in access : IsGrant(token))'
  BY DEF IsProof, IsGrant, OneTime
<1> QED BY <1>3, <1>4, <1>5 DEF IInv

\* A step that changes one row of those a request has read: everybody else who
\* has read it is told by met.
LEMMA OneRowTouched ==
  ASSUME IInv, TypeOK', RowsKept, UNCHANGED <<summit, session>>,
         NEW w \in Worker, NEW c \in DOMAIN code, DOMAIN code' = DOMAIN code,
         \A d \in DOMAIN code : d # c => SameCounters(d),
         \A v \in Worker : v # w /\ HasRead(v, c) => code'[c].met,
         \A v \in Worker : v # w => req'[v] = req[v],
         RowInv(c)', ReqInv(w)',
         \A token \in access' : token \in access \/ IsGrant(token)'
  PROVE  IInv'
<1>1. code' \in Seq(Code)
  BY DEF TypeOK
<1>2. \A v \in Worker : ReqInv(v)'
  <2> TAKE v \in Worker
  <2>1. CASE v # w
    BY <1>1, <2>1, RequestStays DEF Unnoticed
  <2> QED BY <2>1
<1>3. \A d \in DOMAIN code' : RowInv(d)'
  <2> TAKE d \in DOMAIN code'
  <2>1. CASE d # c
    BY <1>1, <2>1, RowStays
  <2> QED BY <2>1
<1>4. /\ (\A s \in DOMAIN session : IsProof(session[s].proof))'
      /\ (\A token \in access : IsGrant(token))'
  <2>1. /\ \A p : IsProof(p) => IsProof(p)'
        /\ \A token : IsGrant(token) => IsGrant(token)'
    BY ProofsStay
  <2> QED BY <2>1 DEF IInv
<1> QED BY <1>2, <1>3, <1>4 DEF IInv

-----------------------------------------------------------------------------
(* The steps *)

Moved(w) == \A v \in Worker : v # w => req'[v] = req[v]

LEMMA GotoMoves ==
  ASSUME TypeOK, NEW w \in Worker, NEW r, Goto(w, r)
  PROVE  Moved(w) /\ req'[w] = r
  BY DEF TypeOK, Goto, Moved

\* Starting, giving up and trying: nothing but the request changes.
LEMMA RequestStep ==
  ASSUME IInv, TypeOK', NEW w \in Worker,
         \/ Login(w) \/ OtpRequest(w) \/ ForgotPassword(w) \/ EndOldFails(w)
         \/ LoginVerifyOtp(w) \/ OtpVerify(w) \/ ResetPassword(w) \/ Crash(w)
         \/ \E token \in access : Logout(w, token)
  PROVE  IInv'
<1>1. UNCHANGED <<summit, code, session, access>>
  BY DEF Login, OtpRequest, ForgotPassword, Issue, EndOldFails, LoginVerifyOtp,
         OtpVerify, ResetPassword, Crash, Logout
<1>2. ReqInv(w) /\ TypeOK /\ \A c \in DOMAIN code : RowInv(c)
  BY DEF IInv
<1>3. Moved(w) /\ ReqInv(w)'
  <2>1. ASSUME NEW by \in Issuer, Issue(w, by), by = "request" => ~summit
        PROVE  Moved(w) /\ ReqInv(w)'
    BY <1>1, <1>2, <2>1, GotoMoves DEF Issue, ReqInv, At
  <2>2. CASE Login(w)
    <3>1. CASE Issue(w, "login")
      BY <2>1, <3>1 DEF Issuer
    <3>2. CASE Goto(w, [pc |-> "session", proof |-> None])
      BY <1>2, <3>2, GotoMoves DEF ReqInv, At, IsProof
    <3> QED BY <2>2, <3>1, <3>2 DEF Login
  <2>3. CASE OtpRequest(w) \/ ForgotPassword(w)
    BY <2>1, <2>3 DEF OtpRequest, ForgotPassword, Issuer
  <2>4. CASE EndOldFails(w)
    <3>1. At(w, "end") /\ req[w] \in [pc : {"end", "insert"}, by : Issuer, sees : Nat]
      BY <1>2, <2>4, RequestType DEF EndOldFails
    <3>2. Moved(w) /\ req'[w] = [req[w] EXCEPT !.pc = "insert"]
      BY <1>2, <2>4, GotoMoves DEF EndOldFails
    <3>3. Len(code) \in Nat /\ req[w].sees = 0
      BY <1>2, <3>1 DEF TypeOK, ReqInv
    <3>4. Old("login", 0)' = {}
      BY DEF Old
    <3> QED BY <1>1, <1>2, <3>1, <3>2, <3>3, <3>4 DEF ReqInv, At
  <2>5. CASE LoginVerifyOtp(w) \/ OtpVerify(w)
    <3>1. PICK matches \in BOOLEAN : ReadCode(w, matches)
      BY <2>5 DEF LoginVerifyOtp, OtpVerify
    <3>2. CASE \E c \in DOMAIN code : OneTime(c) /\ Live(c)
                                      /\ Goto(w, [pc |-> "hit", code |-> c])
      <4>1. PICK c \in DOMAIN code : OneTime(c) /\ Live(c)
                                     /\ Goto(w, [pc |-> "hit", code |-> c])
        BY <3>2
      <4>2. code[c].met \/ code[c].uses = 0
        BY <1>2, <4>1, RowType DEF RowInv, Live
      <4>3. Moved(w) /\ req'[w] = [pc |-> "hit", code |-> c]
        BY <1>2, <4>1, GotoMoves
      <4> QED BY <1>1, <4>1, <4>2, <4>3 DEF ReqInv, At, OneTime
    <3>3. CASE \E c \in DOMAIN code :
                 Goto(w, [pc |-> "miss", code |-> c, tries |-> code[c].tries])
      BY <1>1, <1>2, <3>3, GotoMoves DEF ReqInv, At
    <3> QED BY <3>1, <3>2, <3>3 DEF ReadCode, Open
  <2>6. CASE ResetPassword(w)
    <3>1. PICK c \in DOMAIN code : Live(c) /\ Goto(w, [pc |-> "reset", code |-> c])
      BY <2>6 DEF ResetPassword
    <3>2. code[c].met \/ code[c].uses = 0
      BY <1>2, <3>1, RowType DEF RowInv, Live
    <3> QED BY <1>1, <1>2, <3>1, <3>2, GotoMoves DEF ReqInv, At
  <2>7. CASE Crash(w)
    BY <1>2, <2>7, GotoMoves DEF Crash, ReqInv, At, Idle
  <2>8. CASE \E token \in access : Logout(w, token)
    BY <1>2, <2>8, GotoMoves DEF Logout, ReqInv, At
  <2> QED BY <2>2, <2>3, <2>4, <2>5, <2>6, <2>7, <2>8
<1>4. /\ \A s \in DOMAIN session' : IsProof(session'[s].proof)
      /\ \A token \in access' : IsGrant(token)
  BY <1>1 DEF IInv
<1> QED BY <1>1, <1>3, <1>4, RowsUntouched DEF Moved

LEMMA SessionStep ==
  ASSUME IInv, TypeOK', NEW w \in Worker,
         CreateUserSession(w) \/ CreateUserSessionFails(w) \/ EndSession(w)
  PROVE  IInv'
<1>1. UNCHANGED <<summit, code>> /\ Moved(w) /\ req'[w] = Idle
  BY GotoMoves DEF CreateUserSession, CreateUserSessionFails, EndSession, IInv
<1>2. ReqInv(w)'
  BY <1>1 DEF ReqInv, At, Idle
<1>3. \A s \in DOMAIN session' : IsProof(session'[s].proof)
  <2>1. session \in Seq(Session) /\ \A s \in DOMAIN session : IsProof(session[s].proof)
    BY DEF IInv, TypeOK
  <2>2. CASE CreateUserSession(w)
    <3>1. IsProof(req[w].proof)
      BY <2>2 DEF CreateUserSession, IInv, ReqInv
    <3> QED BY <2>1, <2>2, <3>1 DEF CreateUserSession
  <2>3. CASE EndSession(w)
    <3>1. ASSUME NEW s \in DOMAIN session
          PROVE  session'[s].proof = session[s].proof
      BY <2>1, <2>3 DEF EndSession, Session
    <3>2. DOMAIN session' = DOMAIN session
      BY <2>1, <2>3 DEF EndSession
    <3> QED BY <2>1, <3>1, <3>2
  <2>4. CASE CreateUserSessionFails(w)
    BY <2>1, <2>4 DEF CreateUserSessionFails
  <2> QED BY <2>2, <2>3, <2>4
<1>4. \A token \in access' : IsGrant(token)
  <2>1. CASE CreateUserSession(w) \/ CreateUserSessionFails(w)
    <3>1. IsProof(req[w].proof)
      BY <2>1 DEF CreateUserSession, CreateUserSessionFails, IInv, ReqInv
    <3> QED BY <2>1, <3>1
            DEF CreateUserSession, CreateUserSessionFails, SignIn, IInv, IsGrant
  <2>2. CASE EndSession(w)
    BY <2>2 DEF EndSession, IInv
  <2> QED BY <2>1, <2>2
<1> QED BY <1>1, <1>2, <1>3, <1>4, RowsUntouched DEF Moved

\* Ending old rows: nothing a request has read is counted in ended.
LEMMA EndOldStep ==
  ASSUME IInv, TypeOK', NEW w \in Worker, EndOld(w)
  PROVE  IInv'
<1>1. UNCHANGED <<summit, session, access>> /\ TypeOK /\ Len(code) \in Nat /\ At(w, "end")
      /\ code \in Seq(Code) /\ code' \in Seq(Code)
  BY DEF EndOld, IInv, TypeOK
<1>2. req[w] \in [pc : {"end", "insert"}, by : Issuer, sees : Nat]
  BY <1>1, RequestType
<1>3. Moved(w) /\ req'[w] = [req[w] EXCEPT !.pc = "insert", !.sees = Len(code)]
  BY <1>1, GotoMoves DEF EndOld
<1>4. /\ DOMAIN code' = DOMAIN code /\ Len(code') = Len(code)
      /\ \A c \in DOMAIN code :
           /\ code'[c] = code[c] \/ code'[c] = [code[c] EXCEPT !.ended = TRUE]
           /\ req[w].by = "login" /\ c \in Old("login", Len(code)) => code'[c].ended
  <2>1. CASE req[w].by = "login"
    <3>1. code' = Ended("login", Len(code)) /\ "login" \in Issuer
      BY <2>1 DEF EndOld, Issuer
    <3>2. DOMAIN code' = DOMAIN code /\ Len(code') = Len(code)
      BY <1>1, <3>1, EndedRows
    <3>3. \A c \in DOMAIN code : code'[c] = IF c \in Old("login", Len(code))
                                 THEN [code[c] EXCEPT !.ended = TRUE] ELSE code[c]
      BY <1>1, <3>1, EndedRows
    <3> QED BY <1>1, <3>2, <3>3, RowEnded
  <2>2. CASE req[w].by # "login"
    BY <1>1, <2>2 DEF EndOld
  <2> QED BY <2>1, <2>2
<1>5. RowsKept /\ \A c \in DOMAIN code : SameCounters(c)
  BY <1>1, <1>4, RowEnded DEF RowsKept, SameCounters
<1>6. ReqInv(w)'
  <2>1. Old("login", Len(code))' = Old("login", Len(code))
    BY <1>1, <1>4, <1>5 DEF Old, RowsKept, IsToken
  <2>2. \A d \in Old("login", Len(code)) : d \in DOMAIN code
    BY <1>1 DEF Old
  <2>3. ReqInv(w)
    BY DEF IInv
  <2> QED BY <1>1, <1>2, <1>3, <1>4, <2>1, <2>2, <2>3 DEF ReqInv, At
<1>7. \A v \in Worker : ReqInv(v)'
  BY <1>1, <1>3, <1>5, <1>6, RequestStays DEF Unnoticed, Moved
<1>8. \A c \in DOMAIN code' : RowInv(c)'
  BY <1>1, <1>4, <1>5, RowStays
<1>9. /\ (\A s \in DOMAIN session : IsProof(session[s].proof))'
      /\ (\A token \in access : IsGrant(token))'
  BY <1>1, <1>5, ProofsStay DEF IInv
<1> QED BY <1>7, <1>8, <1>9 DEF IInv

\* A new row: those its issue saw have ended, in an earlier commit or in this.
LEMMA InsertCodeStep ==
  ASSUME IInv, TypeOK', NEW w \in Worker, InsertCode(w),
         NEW by, NEW sees, by = req[w].by, sees = req[w].sees
  PROVE  IInv'
<1>1. UNCHANGED <<summit, session, access>> /\ TypeOK /\ Len(code) \in Nat /\ At(w, "insert")
      /\ code \in Seq(Code) /\ code' \in Seq(Code)
  BY DEF InsertCode, IInv, TypeOK
<1>2. code' = Append(Before(w), NewCode(by, sees)) /\ Moved(w) /\ req'[w] = Idle
  BY <1>1, GotoMoves DEF InsertCode, Before
<1>3. /\ by \in Issuer /\ sees \in Nat /\ sees <= Len(code) /\ ReqInv(w)
      /\ Before(w) \in Seq(Code) /\ Len(Before(w)) = Len(code)
  BY <1>1, BeforeRows DEF IInv, ReqInv
<1>4. /\ Len(code') = Len(code) + 1 /\ DOMAIN code' = 1 .. Len(code) + 1
      /\ code'[Len(code) + 1] = NewCode(by, sees)
      /\ \A c \in DOMAIN code : code'[c] = Before(w)[c]
  BY <1>1, <1>2, <1>3
<1>5. \A c \in DOMAIN code :
        /\ code'[c] = code[c] \/ code'[c] = [code[c] EXCEPT !.ended = TRUE]
        /\ c \in Old(by, sees) => code'[c].ended
  <2> TAKE c \in DOMAIN code
  <2>1. code'[c] = Before(w)[c] /\ code[c] \in Code
    BY <1>1, <1>4, RowType
  <2>2. [code[c] EXCEPT !.ended = TRUE].ended
    BY <2>1 DEF Code
  <2>3. CASE by = "login"
    BY <1>1, <1>3, <2>1, <2>3 DEF Before, ReqInv
  <2>4. CASE by # "login"
    BY <1>1, <2>1, <2>2, <2>4, BeforeRows
  <2> QED BY <2>3, <2>4
<1>6. RowsKept /\ \A c \in DOMAIN code : SameCounters(c)
  <2>1. ASSUME NEW c \in DOMAIN code
        PROVE  /\ code'[c].by = code[c].by /\ code'[c].sees = code[c].sees
               /\ (code[c].ended => code'[c].ended) /\ SameCounters(c)
    BY <1>1, <1>5, RowEnded DEF SameCounters
  <2> QED BY <1>1, <1>4, <2>1 DEF RowsKept
<1>7. \A v \in Worker : ReqInv(v)'
  <2>1. ReqInv(w)'
    BY <1>2 DEF ReqInv, At, Idle
  <2> QED BY <1>1, <1>2, <1>6, <2>1, RequestStays DEF Unnoticed, Moved
<1>8. ASSUME NEW n, n = Len(code) + 1
      PROVE  RowInv(n)'
  <2>1. /\ code'[n].by = by /\ code'[n].sees = sees /\ code'[n].uses = 0
        /\ code'[n].tries = 0 /\ code'[n].missed = 0
    BY <1>4, <1>8 DEF NewCode
  <2>2. \A d \in Old(by, sees)' : d \in DOMAIN code /\ d \in Old(by, sees)
    <3>1. \A d \in 1 .. sees : d \in DOMAIN code /\ code'[d].by = code[d].by
      BY <1>1, <1>3, <1>6 DEF RowsKept
    <3> QED BY <1>1, <1>3, <3>1 DEF Old, IsToken
  <2>3. \A d \in Old(code[n].by, code[n].sees)' : code'[d].ended
    <3>1. Old(code[n].by, code[n].sees)' = Old(by, sees)'
      BY <2>1
    <3> QED BY <1>5, <2>2, <3>1
  <2>4. by = "request" => ~summit
    BY <1>1, <1>3 DEF ReqInv
  <2> QED BY <1>1, <1>3, <1>8, <2>1, <2>3, <2>4, MaxTriesIsPositive DEF RowInv
<1>9. \A c \in DOMAIN code' : RowInv(c)'
  <2> TAKE c \in DOMAIN code'
  <2>1. CASE c \in DOMAIN code
    BY <1>1, <1>6, <2>1, RowStays
  <2>2. CASE c = Len(code) + 1
    BY <1>8, <2>2
  <2> QED BY <1>1, <1>4, <2>1, <2>2
<1>10. /\ (\A s \in DOMAIN session : IsProof(session[s].proof))'
      /\ (\A token \in access : IsGrant(token))'
  BY <1>1, <1>6, ProofsStay DEF IInv
<1> QED BY <1>7, <1>9, <1>10 DEF IInv

\* A code or token that counts, or a wrong try: the row was there, and whoever
\* else has read it is noticed.
TouchedBy(w, c, row) ==
  /\ code' = [code EXCEPT ![c] = row]
  /\ row.by = code[c].by /\ row.sees = code[c].sees
  /\ code[c].ended => row.ended
  /\ row.met = Met(w, c)

LEMMA TouchStep ==
  ASSUME IInv, TypeOK', NEW w \in Worker, NEW c \in DOMAIN code, NEW row \in Code,
         TouchedBy(w, c, row), UNCHANGED <<summit, session>>, Moved(w),
         row.uses > 0 => row.ended,
         ~row.met => /\ row.uses <= 1
                     /\ row.tries = row.missed
                     /\ row.tries >= MaxTries => row.ended,
         \/ At(w, "session")' /\ OneTime(c) /\ req'[w].proof = c
         \/ At(w, "idle")',
         \A token \in access' : \/ token \in access
                                \/ token.proof = c /\ row.ended /\ token.own = None
  PROVE  IInv'
<1>1. TypeOK /\ code \in Seq(Code) /\ code' \in Seq(Code) /\ RowInv(c)
      /\ DOMAIN code' = DOMAIN code /\ Len(code') = Len(code) /\ Len(code) \in Nat
  BY DEF IInv, TypeOK, TouchedBy
<1>2. code'[c] = row /\ \A d \in DOMAIN code : d # c => code'[d] = code[d]
  BY <1>1 DEF TouchedBy
<1>3. RowsKept
  BY <1>1, <1>2 DEF RowsKept, TouchedBy
<1>4. \A d \in DOMAIN code : d # c => SameCounters(d)
  BY <1>2 DEF SameCounters
<1>5. \A v \in Worker : v # w /\ HasRead(v, c) => code'[c].met
  BY <1>2 DEF TouchedBy, Met
<1>6. RowInv(c)'
  <2>1. code[c].sees \in Nat /\ c \in 1 .. Len(code)
    BY <1>1, RowType
  <2>2. \A d \in 1 .. code[c].sees : d \in DOMAIN code /\ code'[d].by = code[d].by
                                     /\ (code[d].ended => code'[d].ended)
    BY <1>1, <1>3, <2>1 DEF RowInv, RowsKept
  <2>3. \A d \in Old(code[c].by, code[c].sees)' :
          d \in 1 .. code[c].sees /\ d \in Old(code[c].by, code[c].sees)
    BY <1>1, <1>2, <2>2 DEF Old, IsToken, TouchedBy
  <2> QED BY <1>1, <1>2, <2>2, <2>3 DEF RowInv, TouchedBy
<1>7. ReqInv(w)'
  <2>1. c \in DOMAIN code' /\ (OneTime(c) => OneTime(c)')
    BY <1>1, <1>2 DEF OneTime, IsToken, TouchedBy
  <2> QED BY <2>1 DEF ReqInv, At, IsProof
<1>8. \A token \in access' : token \in access \/ IsGrant(token)'
  BY <1>1, <1>2 DEF IsGrant
<1> QED BY <1>1, <1>2, <1>3, <1>4, <1>5, <1>6, <1>7, <1>8, OneRowTouched DEF Moved

LEMMA UseStep ==
  ASSUME IInv, TypeOK', NEW w \in Worker, Hit(w) \/ SetPassword(w)
  PROVE  IInv'
<1>1. TypeOK /\ ReqInv(w) /\ UNCHANGED <<summit, session>>
  BY DEF IInv, Hit, SetPassword
<1>2. PICK c \in DOMAIN code : c = req[w].code
  BY <1>1 DEF ReqInv, Hit, SetPassword
<1>3. /\ code[c] \in Code /\ code[c].uses \in Nat /\ code[c].tries \in Nat
      /\ code[c].met \in BOOLEAN /\ code \in Seq(Code) /\ RowInv(c)
  BY <1>1, RowType DEF TypeOK, IInv
<1>4. (code[c].met \/ code[c].uses = 0) /\ (Hit(w) => OneTime(c))
  BY <1>1, <1>2 DEF ReqInv, Hit, SetPassword
<1>5. PICK met \in BOOLEAN : met = Met(w, c) /\ (code[c].met => met)
  BY <1>3 DEF Met
<1>6. PICK n \in Nat : n = code[c].uses + 1
  BY <1>3
<1> DEFINE row == [code[c] EXCEPT !.ended = TRUE, !.uses = n, !.met = met]
<1>7. /\ row \in Code /\ row.by = code[c].by /\ row.sees = code[c].sees /\ row.ended
      /\ row.met = met /\ row.uses = n /\ row.tries = code[c].tries
      /\ row.missed = code[c].missed
  BY <1>3 DEF Code
<1>8. code' = [code EXCEPT ![c] = row]
  BY <1>2, <1>3, <1>5, <1>6 DEF Hit, SetPassword, Code
<1> HIDE DEF row
<1>9. TouchedBy(w, c, row)
  BY <1>5, <1>7, <1>8 DEF TouchedBy
<1>10. Moved(w)
  BY <1>1, GotoMoves DEF Hit, SetPassword
<1>11. \/ At(w, "session")' /\ OneTime(c) /\ req'[w].proof = c
      \/ At(w, "idle")'
  <2>1. CASE Hit(w)
    BY <1>1, <1>2, <1>4, <2>1, GotoMoves DEF Hit, At
  <2>2. CASE SetPassword(w)
    BY <1>1, <2>2, GotoMoves DEF SetPassword, At, Idle
  <2> QED BY <2>1, <2>2
<1>12. ~row.met => row.uses <= 1 /\ row.tries = row.missed
  BY <1>3, <1>4, <1>5, <1>6, <1>7 DEF RowInv
<1>13. \A token \in access' : \/ token \in access
                              \/ token.proof = c /\ row.ended /\ token.own = None
  BY <1>2, <1>7 DEF Hit, SetPassword, SignIn
<1> QED BY <1>1, <1>7, <1>9, <1>10, <1>11, <1>12, <1>13, TouchStep

LEMMA MissStep ==
  ASSUME IInv, TypeOK', NEW w \in Worker, Miss(w)
  PROVE  IInv'
<1>1. TypeOK /\ ReqInv(w) /\ UNCHANGED <<summit, session, access>> /\ req[w].tries \in Nat
  BY RequestType DEF IInv, Miss
<1>2. PICK c \in DOMAIN code : c = req[w].code
  BY <1>1 DEF ReqInv, Miss
<1>3. /\ code[c] \in Code /\ code[c].uses \in Nat /\ code[c].tries \in Nat
      /\ code[c].missed \in Nat /\ code[c].ended \in BOOLEAN
      /\ code[c].met \in BOOLEAN /\ code \in Seq(Code) /\ RowInv(c)
  BY <1>1, RowType DEF TypeOK, IInv
<1>4. code[c].met \/ req[w].tries = code[c].tries
  BY <1>1, <1>2 DEF ReqInv, Miss
<1>5. PICK met \in BOOLEAN : met = Met(w, c) /\ (code[c].met => met)
  BY <1>3 DEF Met
<1>6. PICK t \in Nat, m \in Nat : t = req[w].tries + 1 /\ m = code[c].missed + 1
  BY <1>1, <1>3
<1>7. PICK ended \in BOOLEAN : ended = (code[c].ended \/ LocksOut(req[w].tries))
  BY <1>3 DEF LocksOut
<1> DEFINE row == [code[c] EXCEPT !.tries = t, !.ended = ended, !.missed = m,
                                  !.met = met]
<1>8. /\ row \in Code /\ row.by = code[c].by /\ row.sees = code[c].sees
      /\ row.ended = ended /\ row.met = met /\ row.uses = code[c].uses
      /\ row.tries = t /\ row.missed = m
  BY <1>3 DEF Code
<1>9. code' = [code EXCEPT ![c] = row]
  BY <1>2, <1>3, <1>5, <1>6, <1>7 DEF Miss, Code
<1> HIDE DEF row
<1>10. TouchedBy(w, c, row)
  BY <1>5, <1>7, <1>8, <1>9 DEF TouchedBy
<1>11. Moved(w) /\ At(w, "idle")'
  BY <1>1, GotoMoves DEF Miss, At, Idle
<1>12. row.uses > 0 => row.ended
  BY <1>3, <1>7, <1>8 DEF RowInv
<1>13. ~row.met => /\ row.uses <= 1 /\ row.tries = row.missed
                   /\ row.tries >= MaxTries => row.ended
  BY <1>1, <1>3, <1>4, <1>5, <1>6, <1>7, <1>8 DEF RowInv, LocksOut
<1> QED BY <1>1, <1>8, <1>10, <1>11, <1>12, <1>13, TouchStep

LEMMA ExpireStep ==
  ASSUME IInv, TypeOK', NEW c \in DOMAIN code, Expire(c)
  PROVE  IInv'
<1>1. UNCHANGED <<summit, session, access, req>> /\ TypeOK /\ code \in Seq(Code)
      /\ code' \in Seq(Code) /\ code[c] \in Code
  BY RowType DEF Expire, IInv, TypeOK
<1>2. DOMAIN code' = DOMAIN code /\ Len(code') = Len(code) /\ Len(code) \in Nat
  BY <1>1 DEF Expire
<1>3. \A d \in DOMAIN code :
        /\ SameCounters(d) /\ code'[d].by = code[d].by
        /\ code'[d].sees = code[d].sees /\ code'[d].ended = code[d].ended
  BY <1>1 DEF Expire, SameCounters, Code
<1>4. RowsKept
  BY <1>2, <1>3 DEF RowsKept
<1>5. /\ (\A s \in DOMAIN session : IsProof(session[s].proof))'
      /\ (\A token \in access : IsGrant(token))'
  BY <1>1, <1>4, ProofsStay DEF IInv
<1> QED
  BY <1>1, <1>2, <1>3, <1>4, <1>5, RowStays, RequestStays DEF IInv, Unnoticed

-----------------------------------------------------------------------------
\* The inductive invariant, for every set of workers and every bound.
THEOREM LoginsCorrect == Spec => []IInv
<1>1. Init => IInv
  BY DEF Init, IInv, TypeOK, ReqInv, At, Idle, Request
<1>2. IInv /\ [Next]_vars => IInv'
  <2> SUFFICES ASSUME IInv, [Next]_vars PROVE IInv'
    OBVIOUS
  <2>1. TypeOK'
    BY TypeKept DEF IInv, ReqInv
  <2>2. CASE UNCHANGED vars
    <3>1. RowsKept /\ \A c \in DOMAIN code : SameCounters(c)
      BY <2>2 DEF RowsKept, SameCounters, vars, IInv, TypeOK
    <3>2. /\ (\A s \in DOMAIN session : IsProof(session[s].proof))'
          /\ (\A token \in access : IsGrant(token))'
      BY <2>2 DEF vars, IInv, IsProof, IsGrant, OneTime
    <3> QED
      BY <2>1, <2>2, <3>1, <3>2, RowStays, RequestStays
         DEF IInv, TypeOK, Unnoticed, vars
  <2>3. ASSUME NEW c \in DOMAIN code, Expire(c)
        PROVE  IInv'
    BY <2>1, <2>3, ExpireStep
  <2>4. ASSUME NEW w \in Worker, InsertCode(w)
        PROVE  IInv'
    BY <2>1, <2>4, InsertCodeStep
  <2>5. ASSUME NEW w \in Worker, EndOld(w)
        PROVE  IInv'
    BY <2>1, <2>5, EndOldStep
  <2>6. ASSUME NEW w \in Worker, Hit(w) \/ SetPassword(w) \/ Miss(w)
        PROVE  IInv'
    BY <2>1, <2>6, UseStep, MissStep
  <2>7. ASSUME NEW w \in Worker,
               CreateUserSession(w) \/ CreateUserSessionFails(w) \/ EndSession(w)
        PROVE  IInv'
    BY <2>1, <2>7, SessionStep
  <2>8. ASSUME NEW w \in Worker,
               \/ Login(w) \/ OtpRequest(w) \/ ForgotPassword(w) \/ EndOldFails(w)
               \/ LoginVerifyOtp(w) \/ OtpVerify(w) \/ ResetPassword(w) \/ Crash(w)
               \/ \E token \in access : Logout(w, token)
        PROVE  IInv'
    BY <2>1, <2>8, RequestStep
  <2> QED
    BY <2>2, <2>3, <2>4, <2>5, <2>6, <2>7, <2>8 DEF Next
<1> QED
  BY <1>1, <1>2, PTL DEF Spec

\* The codes and tokens an issue found are ended once its own is there
\* ("Invalidate old OTPs" of login and otp_request, forgot_password).
THEOREM OldOnesEndHolds == Spec => []OldOnesEnd
<1>1. IInv => OldOnesEnd
  BY DEF IInv, RowInv, OldOnesEnd
<1> QED BY <1>1, LoginsCorrect, PTL

\* A code or token counts once, unless two uses of it overlapped (otp_verify,
\* login_verify_otp, reset_password).
THEOREM UsedOnceHolds == Spec => []UsedOnce
<1>1. IInv => UsedOnce
  <2> SUFFICES ASSUME IInv, NEW c \in DOMAIN code, code[c].uses > 1
               PROVE  code[c].met
    BY DEF UsedOnce
  <2>1. RowInv(c) /\ code[c].uses \in Nat
    BY RowType DEF IInv
  <2> QED BY <2>1 DEF RowInv
<1> QED BY <1>1, LoginsCorrect, PTL

\* MaxTries wrong tries end a code, unless tries overlapped (otp_verify).
THEOREM LockoutHoldsAlways == Spec => []LockoutHolds
<1>1. IInv => LockoutHolds
  BY DEF IInv, RowInv, LockoutHolds
<1> QED BY <1>1, LoginsCorrect, PTL

\* Under Summit mode nobody is signed in on a code of otp_request: it takes the
\* password, a code sent after it, or a reset token, which that use has ended.
THEOREM SummitSignInsHold == Spec => []SummitSignIns
<1>1. IInv => SummitSignIns
  <2> SUFFICES ASSUME IInv, summit PROVE SummitSignIns
    BY DEF SummitSignIns
  <2>1. ASSUME NEW c \in DOMAIN code, OneTime(c)
        PROVE  code[c].by = "login"
    <3>1. RowInv(c) /\ code[c].by \in Issuer
      BY RowType DEF IInv
    <3> QED BY <2>1, <3>1 DEF RowInv, OneTime, IsToken, Issuer
  <2>2. \A s \in DOMAIN session :
          session[s].proof # None => code[session[s].proof].by = "login"
    BY <2>1 DEF IInv, IsProof
  <2>3. ASSUME NEW token \in access, token.proof # None
        PROVE  \/ code[token.proof].by = "login"
               \/ /\ IsToken(code[token.proof].by)
                  /\ code[token.proof].ended /\ token.own = None
    <3>1. token.proof \in DOMAIN code
          /\ (OneTime(token.proof) \/ (code[token.proof].ended /\ token.own = None))
      BY <2>3 DEF IInv, IsGrant, IsProof
    <3> QED BY <2>1, <3>1 DEF OneTime
  <2> QED BY <2>2, <2>3 DEF SummitSignIns
<1> QED BY <1>1, LoginsCorrect, PTL

-----------------------------------------------------------------------------
(* Schema: what a transaction of statements leaves.                         *)

\* Induction up to n, for a set.
LEMMA UpTo ==
  ASSUME NEW n \in Nat, NEW T, 0 \in T, \A k \in 0 .. n : k \in T /\ k < n => k + 1 \in T
  PROVE  0 .. n \subseteq T
<1> DEFINE U == (0 .. n) \ T
<1> SUFFICES ASSUME U # {} PROVE FALSE
  OBVIOUS
<1>1. U \in SUBSET Nat
  OBVIOUS
<1> HIDE DEF U
<1>2. PICK x \in U : \A y \in U : <<y, x>> \notin OpToRel(<, Nat)
  BY <1>1, NatLessThanWellFounded, WFMin
<1>3. x \in 0 .. n /\ x \notin T /\ x # 0
  BY DEF U
<1>4. x - 1 \in 0 .. n /\ x - 1 < n /\ x - 1 < x /\ (x - 1) + 1 = x
  BY <1>3
<1>5. x - 1 \notin U
  BY <1>1, <1>2, <1>4 DEF OpToRel
<1> QED BY <1>3, <1>4, <1>5 DEF U

\* The transaction after each of its statements.
Trace(db, stmts, schema) ==
  db = [i \in 0 .. Len(stmts) |->
          IF i = 0 THEN [tx |-> "open", has |-> schema] ELSE RunOne(stmts[i], db[i - 1])]

LEMMA RunHasTrace ==
  ASSUME NEW stmts, NEW schema, Len(stmts) \in Nat
  PROVE  \E db : Trace(db, stmts, schema) /\ RunAll(stmts, schema) = db[Len(stmts)]
<1> PICK n \in Nat : n = Len(stmts)
  OBVIOUS
<1> DEFINE First == [tx |-> "open", has |-> schema]
           Is(db, k) == db = [i \in 0 .. k |-> IF i = 0 THEN First ELSE RunOne(stmts[i], db[i - 1])]
           T == {k \in Nat : \E db : Is(db, k)}
<1>1. 0 \in T
  <2> DEFINE db == [i \in 0 .. 0 |-> First]
  <2>1. \A i \in 0 .. 0 : (IF i = 0 THEN First ELSE RunOne(stmts[i], db[i - 1])) = First
    OBVIOUS
  <2>2. Is(db, 0)
    <3> HIDE DEF First
    <3> QED BY <2>1
  <2> HIDE DEF Is, db
  <2> QED BY <2>2
<1>2. ASSUME NEW k \in 0 .. n, k \in T, k < n PROVE k + 1 \in T
  <2>1. PICK f : Is(f, k)
    BY <1>2
  <2> DEFINE db == [i \in 0 .. k + 1 |-> IF i = k + 1 THEN RunOne(stmts[k + 1], f[k]) ELSE f[i]]
  <2>2. ASSUME NEW i \in 0 .. k + 1
        PROVE  db[i] = IF i = 0 THEN First ELSE RunOne(stmts[i], db[i - 1])
    <3> HIDE DEF First
    <3>1. CASE i = k + 1
      <4>1. db[i] = RunOne(stmts[k + 1], f[k]) /\ i # 0 /\ i - 1 = k /\ k \in 0 .. k + 1 /\ k # k + 1
        BY <3>1
      <4>2. db[k] = f[k]
        BY <4>1
      <4> QED BY <3>1, <4>1, <4>2
    <3>2. CASE i # k + 1
      <4>1. i \in 0 .. k /\ db[i] = f[i]
        BY <3>2
      <4>2. f[i] = IF i = 0 THEN First ELSE RunOne(stmts[i], f[i - 1])
        BY <2>1, <4>1
      <4>3. i # 0 => i - 1 \in 0 .. k + 1 /\ i - 1 # k + 1 /\ db[i - 1] = f[i - 1]
        BY <4>1
      <4> QED BY <4>1, <4>2, <4>3
    <3> QED BY <3>1, <3>2
  <2>3. DOMAIN db = 0 .. k + 1 /\ db = [i \in 0 .. k + 1 |-> db[i]]
    OBVIOUS
  <2>4. Is(db, k + 1)
    <3> HIDE DEF db, First
    <3> QED BY <2>2, <2>3
  <2>5. k + 1 \in Nat
    OBVIOUS
  <2> HIDE DEF Is, db
  <2> QED BY <2>4, <2>5
<1>3. n \in T
  <2> HIDE DEF T
  <2>1. 0 .. n \subseteq T
    BY <1>1, <1>2, UpTo
  <2> QED BY <2>1
<1>4. \E db : Trace(db, stmts, schema)
  BY <1>3 DEF Trace
<1>5. RunAll(stmts, schema) = (CHOOSE db : Trace(db, stmts, schema))[Len(stmts)]
  BY DEF RunAll, Trace
<1> QED BY <1>4, <1>5

\* What the statements name.
Touched(stmts) == UNION {Columns(stmts[i].t, stmts[i].g) : i \in DOMAIN stmts}

\* A table is made, and then completed by a statement of its own.
Makes(stmts, t) ==
  \E i \in DOMAIN stmts : stmts[i].op = "create_if" /\ stmts[i].t = t /\ "base" \in stmts[i].g
Completes(stmts, t, g) ==
  \E i, j \in DOMAIN stmts :
    /\ i < j
    /\ stmts[i].op = "create_if" /\ stmts[i].t = t /\ "base" \in stmts[i].g
    /\ stmts[j].op = "add_if" /\ stmts[j].t = t /\ stmts[j].g = g

LEMMA RunIs ==
  ASSUME NEW stmts, NEW schema, Len(stmts) \in Nat, DOMAIN stmts = 1 .. Len(stmts)
  PROVE  LET run == RunAll(stmts, schema) IN
         /\ run.tx \in {"open", "aborted"}
         /\ schema \subseteq run.has /\ run.has \subseteq schema \cup Touched(stmts)
         /\ (\A i \in DOMAIN stmts : stmts[i].op \in {"create_if", "add_if"}) => run.tx = "open"
         /\ run.tx = "open" => /\ \A t : Makes(stmts, t) => Exists(t, run.has)
                      /\ \A t, g : Completes(stmts, t, g) => Columns(t, g) \subseteq run.has
<1> PICK n \in Nat : n = Len(stmts)
  OBVIOUS
<1>1. PICK db : Trace(db, stmts, schema) /\ RunAll(stmts, schema) = db[n]
  BY RunHasTrace
<1>2. db[0] = [tx |-> "open", has |-> schema]
  BY <1>1 DEF Trace
<1>3. \A i \in 0 .. n : i < n => db[i + 1] = RunOne(stmts[i + 1], db[i])
  <2> SUFFICES ASSUME NEW i \in 0 .. n, i < n PROVE db[i + 1] = RunOne(stmts[i + 1], db[i])
    OBVIOUS
  <2>1. i + 1 \in 0 .. n /\ i + 1 # 0 /\ (i + 1) - 1 = i
    OBVIOUS
  <2> QED BY <1>1, <2>1 DEF Trace
<1>t. \A i \in 0 .. n : db[i].tx \in {"open", "aborted"}
  <2> SUFFICES ASSUME NEW i \in 0 .. n PROVE db[i].tx \in {"open", "aborted"}
    OBVIOUS
  <2>1. CASE i = 0
    BY <1>2, <2>1
  <2>2. CASE i # 0
    <3>1. db[i] = RunOne(stmts[i], db[i - 1])
      BY <1>1, <2>2 DEF Trace
    <3> QED BY <3>1 DEF RunOne
  <2> QED BY <2>1, <2>2
\* One statement.
<1>4. ASSUME NEW i \in 0 .. n, i < n
      PROVE  /\ db[i].has \subseteq db[i + 1].has
             /\ db[i + 1].has \subseteq db[i].has \cup Columns(stmts[i + 1].t, stmts[i + 1].g)
             /\ db[i + 1].tx = "open" => db[i].tx = "open" /\ db[i + 1].has = Effect(stmts[i + 1], db[i].has)
             /\ db[i].tx = "open" /\ stmts[i + 1].op \in {"create_if", "add_if"} => db[i + 1].tx = "open"
             /\ db[i + 1].tx \in {"open", "aborted"}
  <2>1. db[i + 1] = RunOne(stmts[i + 1], db[i])
    BY <1>3, <1>4
  <2>2. /\ db[i].has \subseteq Effect(stmts[i + 1], db[i].has)
        /\ Effect(stmts[i + 1], db[i].has)
             \subseteq db[i].has \cup Columns(stmts[i + 1].t, stmts[i + 1].g)
    BY DEF Effect
  <2>3. stmts[i + 1].op \in {"create_if", "add_if"} => ~Refused(stmts[i + 1], db[i].has)
    BY DEF Refused
  <2>4. CASE db[i].tx = "aborted" \/ Refused(stmts[i + 1], db[i].has)
    <3>1. db[i + 1].tx = "aborted" /\ db[i + 1].has = db[i].has
      BY <2>1, <2>4 DEF RunOne
    <3> QED BY <2>3, <2>4, <3>1
  <2>5. CASE ~(db[i].tx = "aborted" \/ Refused(stmts[i + 1], db[i].has))
    <3>1. db[i + 1].tx = "open" /\ db[i + 1].has = Effect(stmts[i + 1], db[i].has)
      BY <2>1, <2>5 DEF RunOne
    <3>2. db[i].tx = "open"
      BY <1>t, <2>5
    <3> QED BY <2>2, <2>5, <3>1, <3>2
  <2> QED BY <2>4, <2>5
\* All of them, from the one after k on.
<1>5. ASSUME NEW k \in 0 .. n
      PROVE  /\ db[k].has \subseteq db[n].has
             /\ db[n].tx = "open" => db[k].tx = "open"
  <2> DEFINE T == {j \in 0 .. n :
                     k <= j => /\ db[k].has \subseteq db[j].has
                               /\ (db[j].tx = "open" => db[k].tx = "open")}
  <2>1. 0 \in T
    BY DEF T
  <2>2. ASSUME NEW j \in 0 .. n, j \in T, j < n PROVE j + 1 \in T
    <3>1. CASE j + 1 = k
      BY <3>1
    <3>2. CASE j + 1 < k
      BY <3>2
    <3>3. CASE k <= j
      <4>1. db[k].has \subseteq db[j].has /\ (db[j].tx = "open" => db[k].tx = "open")
        BY <2>2, <3>3
      <4>2. db[j].has \subseteq db[j + 1].has /\ (db[j + 1].tx = "open" => db[j].tx = "open")
        BY <1>4, <2>2
      <4>3. db[k].has \subseteq db[j + 1].has
        BY <4>1, <4>2
      <4>4. db[j + 1].tx = "open" => db[k].tx = "open"
        BY <4>1, <4>2
      <4>5. j + 1 \in 0 .. n
        BY <2>2
      <4> QED BY <4>3, <4>4, <4>5
    <3> QED BY <2>2, <3>1, <3>2, <3>3
  <2> HIDE DEF T
  <2>3. 0 .. n \subseteq T
    BY <2>1, <2>2, UpTo
  <2>4. n \in T /\ k <= n
    BY <2>3
  <2>5. k <= n => db[k].has \subseteq db[n].has /\ (db[n].tx = "open" => db[k].tx = "open")
    BY <2>4 DEF T
  <2> QED BY <2>4, <2>5
<1>6. /\ db[n].tx \in {"open", "aborted"}
      /\ db[n].has \subseteq schema \cup Touched(stmts)
      /\ (\A i \in DOMAIN stmts : stmts[i].op \in {"create_if", "add_if"}) => db[n].tx = "open"
  <2> DEFINE T == {j \in 0 .. n :
                     /\ db[j].tx \in {"open", "aborted"}
                     /\ db[j].has \subseteq schema \cup Touched(stmts)
                     /\ (\A i \in DOMAIN stmts : stmts[i].op \in {"create_if", "add_if"})
                          => db[j].tx = "open"}
  <2>1. 0 \in T
    <3>1. db[0].tx = "open" /\ db[0].has = schema
      BY <1>2
    <3> QED BY <3>1
  <2>2. ASSUME NEW j \in 0 .. n, j \in T, j < n PROVE j + 1 \in T
    <3>1. j + 1 \in DOMAIN stmts
      BY <2>2
    <3>2. Columns(stmts[j + 1].t, stmts[j + 1].g) \subseteq Touched(stmts)
      BY <3>1 DEF Touched
    <3> QED BY <1>4, <2>2, <3>1, <3>2
  <2> HIDE DEF T
  <2>3. 0 .. n \subseteq T
    BY <2>1, <2>2, UpTo
  <2>4. n \in T
    BY <2>3
  <2> QED BY <2>4 DEF T
<1>7. ASSUME db[n].tx = "open", NEW i \in DOMAIN stmts, stmts[i].op = "create_if", "base" \in stmts[i].g
      PROVE  Exists(stmts[i].t, db[i].has) /\ Exists(stmts[i].t, db[n].has)
  <2>1. i \in 0 .. n /\ i - 1 \in 0 .. n /\ i - 1 < n /\ (i - 1) + 1 = i
    OBVIOUS
  <2>2. db[i].has = Effect(stmts[i], db[i - 1].has)
    BY <1>4, <1>5, <1>7, <2>1
  <2>3. Exists(stmts[i].t, db[i].has)
    BY <1>7, <2>2 DEF Effect, Exists, Columns
  <2> QED BY <1>5, <2>1, <2>3 DEF Exists
<1>8. ASSUME db[n].tx = "open", NEW t, NEW g, Completes(stmts, t, g)
      PROVE  Columns(t, g) \subseteq db[n].has
  <2>1. PICK i \in DOMAIN stmts, j \in DOMAIN stmts :
          /\ i < j
          /\ stmts[i].op = "create_if" /\ stmts[i].t = t /\ "base" \in stmts[i].g
          /\ stmts[j].op = "add_if" /\ stmts[j].t = t /\ stmts[j].g = g
    BY <1>8 DEF Completes
  <2>2. i \in 0 .. n /\ j \in 0 .. n /\ j - 1 \in 0 .. n /\ j - 1 < n /\ (j - 1) + 1 = j /\ i <= j - 1
    BY <2>1
  <2>3. db[j].has = Effect(stmts[j], db[j - 1].has)
    BY <1>4, <1>5, <1>8, <2>2
  <2>4. db[i].has \subseteq db[j - 1].has
    <3> DEFINE T == {k \in 0 .. n : i <= k => db[i].has \subseteq db[k].has}
    <3>1. 0 \in T
      BY <2>1
    <3>2. ASSUME NEW k \in 0 .. n, k \in T, k < n PROVE k + 1 \in T
      <4>1. CASE k + 1 = i
        BY <4>1
      <4>2. CASE k + 1 < i
        BY <4>2
      <4>3. CASE i <= k
        BY <1>4, <3>2, <4>3
      <4> QED BY <2>2, <4>1, <4>2, <4>3
    <3> HIDE DEF T
    <3>3. 0 .. n \subseteq T
      BY <3>1, <3>2, UpTo
    <3>4. j - 1 \in T
      BY <2>2, <3>3
    <3> QED BY <2>2, <3>4 DEF T
  <2>5. Exists(t, db[j - 1].has)
    BY <1>7, <1>8, <2>1, <2>4 DEF Exists
  <2>6. Columns(t, g) \subseteq db[j].has
    BY <2>1, <2>3, <2>5 DEF Effect
  <2> QED BY <1>5, <2>2, <2>6
<1>9. schema \subseteq db[n].has
  BY <1>2, <1>5
<1> QED BY <1>1, <1>6, <1>7, <1>8, <1>9 DEF Makes

-----------------------------------------------------------------------------
(* The statements of the boots, the guard and the repairs.                  *)

IsList(s) == Len(s) \in Nat /\ DOMAIN s = 1 .. Len(s) /\ \E A : s \in Seq(A)

\* The table is there with every column models.py maps, once they have run.
Whole(s, t) ==
  Makes(s, t) /\ \A c \in Models[t] : c = "base" \/ \E g : Completes(s, t, g) /\ c \in g

\* So is every table they name.
WholeAll(s) == \A i \in DOMAIN s : s[i].t \in DOMAIN Models /\ Whole(s, s[i].t)

\* They leave alone what decides whether a new database serves.
Quiet(s) == \A i \in DOMAIN s : s[i].t # "trial_states" /\ "role_required" \notin s[i].g
Apart(s) == Quiet(s) /\ \A i \in DOMAIN s : s[i].t # "cost_events"

LEMMA ListJoined ==
  ASSUME NEW s, NEW t, IsList(s), IsList(t)
  PROVE  /\ IsList(s \o t)
         /\ \A i \in DOMAIN s : i \in DOMAIN (s \o t) /\ (s \o t)[i] = s[i]
         /\ \A i \in DOMAIN t : Len(s) + i \in DOMAIN (s \o t) /\ (s \o t)[Len(s) + i] = t[i]
         /\ \A n \in DOMAIN (s \o t) :
              n \in DOMAIN s \/ \E i \in DOMAIN t : n = Len(s) + i
<1>1. PICK A : s \in Seq(A)
  BY DEF IsList
<1>2. PICK B : t \in Seq(B)
  BY DEF IsList
<1>3. s \in Seq(A \cup B) /\ t \in Seq(A \cup B)
  <2>1. A \subseteq A \cup B /\ B \subseteq A \cup B
    OBVIOUS
  <2> QED BY <1>1, <1>2, <2>1, SeqMonotonic
<1> PICK r : r = s \o t
  OBVIOUS
<1>4. /\ Len(s) \in Nat /\ DOMAIN s = 1 .. Len(s) /\ Len(t) \in Nat /\ DOMAIN t = 1 .. Len(t)
      /\ r \in Seq(A \cup B) /\ Len(r) = Len(s) + Len(t) /\ DOMAIN r = 1 .. Len(s) + Len(t)
      /\ \A i \in 1 .. Len(s) + Len(t) : r[i] = IF i <= Len(s) THEN s[i] ELSE t[i - Len(s)]
  BY <1>3, ConcatProperties, LenProperties
<1>5. IsList(r)
  BY <1>4 DEF IsList
<1>6. \A i \in DOMAIN s : i \in DOMAIN r /\ r[i] = s[i]
  BY <1>4
<1>7. \A i \in DOMAIN t : Len(s) + i \in DOMAIN r /\ r[Len(s) + i] = t[i]
  <2> SUFFICES ASSUME NEW i \in DOMAIN t
               PROVE  Len(s) + i \in DOMAIN r /\ r[Len(s) + i] = t[i]
    OBVIOUS
  <2>1. Len(s) + i \in 1 .. Len(s) + Len(t) /\ ~(Len(s) + i <= Len(s)) /\ (Len(s) + i) - Len(s) = i
    BY <1>4
  <2> QED BY <1>4, <2>1
<1>8. \A n \in DOMAIN r : n \in DOMAIN s \/ \E i \in DOMAIN t : n = Len(s) + i
  <2> SUFFICES ASSUME NEW n \in DOMAIN r, n \notin DOMAIN s
               PROVE  \E i \in DOMAIN t : n = Len(s) + i
    OBVIOUS
  <2>1. n - Len(s) \in DOMAIN t /\ n = Len(s) + (n - Len(s))
    BY <1>4
  <2> QED BY <2>1
<1> QED BY <1>5, <1>6, <1>7, <1>8

LEMMA WholeJoined ==
  ASSUME NEW s, NEW t, IsList(s), IsList(t)
  PROVE  /\ IsList(s \o t)
         /\ \A x : Whole(s, x) \/ Whole(t, x) => Whole(s \o t, x)
         /\ WholeAll(s) /\ WholeAll(t) => WholeAll(s \o t)
         /\ Quiet(s) /\ Quiet(t) => Quiet(s \o t)
         /\ Apart(s) /\ Apart(t) => Apart(s \o t)
<1>0. PICK r : r = s \o t
  OBVIOUS
<1>1. /\ IsList(r)
      /\ \A i \in DOMAIN s : i \in DOMAIN r /\ r[i] = s[i]
      /\ \A i \in DOMAIN t : Len(s) + i \in DOMAIN r /\ r[Len(s) + i] = t[i]
      /\ \A n \in DOMAIN r : n \in DOMAIN s \/ \E i \in DOMAIN t : n = Len(s) + i
  <2>1. /\ IsList(s \o t)
        /\ \A i \in DOMAIN s : i \in DOMAIN (s \o t) /\ (s \o t)[i] = s[i]
        /\ \A i \in DOMAIN t : Len(s) + i \in DOMAIN (s \o t) /\ (s \o t)[Len(s) + i] = t[i]
        /\ \A n \in DOMAIN (s \o t) :
             n \in DOMAIN s \/ \E i \in DOMAIN t : n = Len(s) + i
    BY ListJoined
  <2> QED BY <1>0, <2>1
<1>2. ASSUME NEW x, Makes(s, x) \/ Makes(t, x) PROVE Makes(r, x)
  BY <1>1, <1>2 DEF Makes
<1>3. ASSUME NEW x, NEW g, Completes(s, x, g) PROVE Completes(r, x, g)
  BY <1>1, <1>3 DEF Completes
<1>4. ASSUME NEW x, NEW g, Completes(t, x, g) PROVE Completes(r, x, g)
  <2>1. PICK i \in DOMAIN t, j \in DOMAIN t :
          /\ i < j
          /\ t[i].op = "create_if" /\ t[i].t = x /\ "base" \in t[i].g
          /\ t[j].op = "add_if" /\ t[j].t = x /\ t[j].g = g
    BY <1>4 DEF Completes
  <2>2. Len(s) + i < Len(s) + j
    BY <2>1 DEF IsList
  <2> QED BY <1>1, <2>1, <2>2 DEF Completes
<1>5. ASSUME NEW x, Whole(s, x) \/ Whole(t, x) PROVE Whole(r, x)
  BY <1>2, <1>3, <1>4, <1>5 DEF Whole
<1>6. ASSUME WholeAll(s), WholeAll(t) PROVE WholeAll(r)
  BY <1>1, <1>5, <1>6 DEF WholeAll
<1>7. Quiet(s) /\ Quiet(t) => Quiet(r)
  BY <1>1 DEF Quiet
<1>8. Apart(s) /\ Apart(t) => Apart(r)
  BY <1>1, <1>7 DEF Apart
<1> QED BY <1>0, <1>1, <1>5, <1>6, <1>7, <1>8

LEMMA ModelsAre ==
  /\ DOMAIN Models = Plain \cup Grown
  /\ Models["users"] = UserGroups /\ Models["files"] = FileGroups
  /\ Models["messages"] = MessageGroups /\ Models["cost_events"] = CostGroups
  /\ Models["realtime_events"] = EventGroups /\ Models["file_chunks"] = {"base", "agent"}
  /\ Models["trial_states"] = {"base", "score"}
  /\ \A t \in Plain : Models[t] = {"base"}
<1>1. \A t \in Plain : t \notin Grown
  BY DEF Plain, Grown
<1>2. \A t \in Plain \cup Grown : Models[t] =
        CASE t = "users" -> UserGroups
          [] t = "files" -> FileGroups
          [] t = "messages" -> MessageGroups
          [] t = "cost_events" -> CostGroups
          [] t = "realtime_events" -> EventGroups
          [] t = "file_chunks" -> {"base", "agent"}
          [] t = "trial_states" -> {"base", "score"}
          [] OTHER -> {"base"}
  BY DEF Models
<1>3. \A t \in Plain : Models[t] = {"base"}
  BY <1>1, <1>2 DEF Grown
<1> QED BY <1>2, <1>3 DEF Models, Grown

\* A table is made, or made and completed, by the statements at i and j.
LEMMA MadeAt ==
  ASSUME NEW s, NEW i \in DOMAIN s, NEW t, NEW g, s[i] = CreateIf(t, g), "base" \in g,
         Models[t] = {"base"}
  PROVE  Whole(s, t)
<1>1. s[i].op = "create_if" /\ s[i].t = t /\ s[i].g = g
  BY DEF CreateIf
<1> QED BY <1>1 DEF Whole, Makes

LEMMA CompletedAt ==
  ASSUME NEW s, NEW i \in DOMAIN s, NEW j \in DOMAIN s, i < j, NEW t, NEW g, NEW h,
         s[i] = CreateIf(t, g), "base" \in g, s[j] = AddIf(t, h), Models[t] \subseteq h \cup {"base"}
  PROVE  Whole(s, t)
<1>1. s[i].op = "create_if" /\ s[i].t = t /\ s[i].g = g
  BY DEF CreateIf
<1>2. s[j].op = "add_if" /\ s[j].t = t /\ s[j].g = h
  BY DEF AddIf
<1>3. Makes(s, t)
  BY <1>1 DEF Makes
<1>4. Completes(s, t, h)
  BY <1>1, <1>2 DEF Completes
<1> QED BY <1>3, <1>4 DEF Whole

\* Tables that are made, and need no more.
MadeOnly(s) ==
  IsList(s) /\ \A i \in DOMAIN s : \E t \in Plain : s[i] = CreateIf(t, {"base"})

LEMMA MadeOnlyIs ==
  ASSUME NEW s, MadeOnly(s)
  PROVE  IsList(s) /\ WholeAll(s) /\ Apart(s)
<1>1. IsList(s)
  BY DEF MadeOnly
<1>2. ASSUME NEW i \in DOMAIN s
      PROVE  /\ s[i].t \in DOMAIN Models /\ Whole(s, s[i].t)
             /\ s[i].t \notin {"cost_events", "trial_states"} /\ "role_required" \notin s[i].g
  <2>1. PICK t \in Plain : s[i] = CreateIf(t, {"base"})
    BY DEF MadeOnly
  <2>2. s[i].t = t /\ s[i].g = {"base"}
    BY <2>1 DEF CreateIf
  <2>3. Whole(s, t)
    BY <2>1, MadeAt, ModelsAre
  <2>4. t \notin {"cost_events", "trial_states"}
    BY DEF Plain
  <2> QED BY <2>2, <2>3, <2>4, ModelsAre
<1> QED BY <1>1, <1>2 DEF WholeAll, Apart, Quiet

\* A table that is made and then gets the columns it lacks.
LEMMA PairIs ==
  ASSUME NEW s, NEW t, NEW g, s = <<CreateIf(t, g), AddIf(t, g)>>,
         t \in DOMAIN Models, "base" \in g, Models[t] \subseteq g
  PROVE  /\ IsList(s) /\ WholeAll(s) /\ Whole(s, t)
         /\ t \notin {"cost_events", "trial_states"} /\ "role_required" \notin g => Apart(s)
<1>1. s \in Seq({s[1], s[2]}) /\ Len(s) = 2 /\ DOMAIN s = 1 .. 2
  OBVIOUS
<1>2. s[1] = CreateIf(t, g) /\ s[2] = AddIf(t, g)
  OBVIOUS
<1>3. 1 \in DOMAIN s /\ 2 \in DOMAIN s /\ 1 < 2
  BY <1>1
<1>4. Whole(s, t)
  BY <1>2, <1>3, CompletedAt
<1>5. \A i \in DOMAIN s : s[i].t = t /\ s[i].g = g
  BY <1>1, <1>2 DEF CreateIf, AddIf
<1>6. IsList(s)
  BY <1>1 DEF IsList
<1> QED BY <1>4, <1>5, <1>6 DEF WholeAll, Apart, Quiet

LEMMA BootUsersIs ==
  /\ IsList(BootUsers) /\ WholeAll(BootUsers) /\ Apart(BootUsers)
  /\ Whole(BootUsers, "users")
<1> PICK g : g = UserGroups \cup {"legacy"}
  OBVIOUS
<1>1. "base" \in g /\ "role_required" \notin g /\ UserGroups \subseteq g
  BY DEF UserGroups
<1>2. BootUsers = <<CreateIf("users", g), AddIf("users", g)>>
  BY DEF BootUsers
<1>3. "users" \in DOMAIN Models /\ Models["users"] \subseteq g
  BY <1>1, ModelsAre DEF Grown
<1> QED BY <1>1, <1>2, <1>3, PairIs

LEMMA BootMessagesIs ==
  /\ IsList(BootMessages) /\ WholeAll(BootMessages) /\ Apart(BootMessages)
  /\ Whole(BootMessages, "messages")
<1>1. "base" \in MessageGroups /\ "role_required" \notin MessageGroups
  BY DEF MessageGroups
<1>2. BootMessages = <<CreateIf("messages", MessageGroups), AddIf("messages", MessageGroups)>>
  BY DEF BootMessages
<1>3. "messages" \in DOMAIN Models /\ Models["messages"] \subseteq MessageGroups
  BY ModelsAre DEF Grown
<1> QED BY <1>1, <1>2, <1>3, PairIs

LEMMA BootLoginsIs == MadeOnly(BootLogins) /\ MadeOnly(BootConsents)
<1> DEFINE s == BootLogins
           t == BootConsents
<1>1. /\ s \in Seq({s[1], s[2]}) /\ Len(s) = 2 /\ DOMAIN s = 1 .. 2
      /\ t \in Seq({t[1], t[2]}) /\ Len(t) = 2 /\ DOMAIN t = 1 .. 2
  BY DEF BootLogins, BootConsents
<1>2. /\ s[1] = CreateIf("otp_codes", {"base"}) /\ s[2] = CreateIf("user_sessions", {"base"})
      /\ t[1] = CreateIf("terms_acceptances", {"base"})
      /\ t[2] = CreateIf("marketing_consents", {"base"})
  BY DEF BootLogins, BootConsents
<1>3. {"otp_codes", "user_sessions", "terms_acceptances", "marketing_consents"} \subseteq Plain
  BY DEF Plain
<1> HIDE DEF s, t
<1>4. IsList(s) /\ IsList(t)
  BY <1>1 DEF IsList
<1>5. MadeOnly(s)
  BY <1>1, <1>2, <1>3, <1>4 DEF MadeOnly
<1>6. MadeOnly(t)
  BY <1>1, <1>2, <1>3, <1>4 DEF MadeOnly
<1> QED BY <1>5, <1>6 DEF s, t

LEMMA BootAgentsIs == MadeOnly(BootAgents) /\ MadeOnly(BootAudit)
<1> DEFINE s == BootAgents
           t == BootAudit
<1>1. /\ s \in Seq({s[1], s[2], s[3]}) /\ Len(s) = 3 /\ DOMAIN s = 1 .. 3
      /\ t \in Seq({t[1]}) /\ Len(t) = 1 /\ DOMAIN t = 1 .. 1
  BY DEF BootAgents, BootAudit
<1>2. /\ s[1] = CreateIf("agents", {"base"}) /\ s[2] = CreateIf("agent_knowledge", {"base"})
      /\ s[3] = CreateIf("agent_links", {"base"}) /\ t[1] = CreateIf("audit_logs", {"base"})
  BY DEF BootAgents, BootAudit
<1>3. {"agents", "agent_knowledge", "agent_links", "audit_logs"} \subseteq Plain
  BY DEF Plain
<1> HIDE DEF s, t
<1>4. IsList(s) /\ IsList(t)
  BY <1>1 DEF IsList
<1>5. MadeOnly(s)
  BY <1>1, <1>2, <1>3, <1>4 DEF MadeOnly
<1>6. MadeOnly(t)
  BY <1>1, <1>2, <1>3, <1>4 DEF MadeOnly
<1> QED BY <1>5, <1>6 DEF s, t

LEMMA BootThreadsIs == IsList(BootThreads) /\ WholeAll(BootThreads) /\ Apart(BootThreads)
<1> DEFINE s == BootThreads
<1>1. s \in Seq({s[1], s[2]}) /\ Len(s) = 2 /\ DOMAIN s = 1 .. 2
  BY DEF BootThreads
<1>2. s[1] = CreateIf("threads", {"base"}) /\ s[2] = AddIf("threads", {"created_by"})
  BY DEF BootThreads
<1>3. "threads" \in DOMAIN Models /\ Models["threads"] = {"base"}
  BY ModelsAre DEF Plain
<1> HIDE DEF s
<1>4. IsList(s)
  BY <1>1 DEF IsList
<1>5. 1 \in DOMAIN s
  BY <1>1
<1>6. Whole(s, "threads")
  BY <1>2, <1>3, <1>5, MadeAt
<1>7. \A i \in DOMAIN s : s[i].t = "threads" /\ s[i].g \in {{"base"}, {"created_by"}}
  BY <1>1, <1>2 DEF CreateIf, AddIf
<1>8. WholeAll(s)
  BY <1>3, <1>6, <1>7 DEF WholeAll
<1>9. Apart(s)
  BY <1>7 DEF Apart, Quiet
<1> QED BY <1>4, <1>8, <1>9 DEF s

LEMMA BootCollabIs ==
  /\ IsList(BootCollab) /\ WholeAll(BootCollab) /\ Apart(BootCollab)
  /\ Whole(BootCollab, "realtime_events")
<1> DEFINE s == BootCollab
<1>1. s \in Seq({s[1], s[2], s[3], s[4]}) /\ Len(s) = 4 /\ DOMAIN s = 1 .. 4
  BY DEF BootCollab
<1>2. /\ s[1] = CreateIf("thread_members", {"base"}) /\ s[2] = CreateIf("realtime_sessions", {"base"})
      /\ s[3] = CreateIf("realtime_events", EventGroups) /\ s[4] = AddIf("realtime_events", EventGroups)
  BY DEF BootCollab
<1>3. /\ {"thread_members", "realtime_sessions", "realtime_events"} \subseteq DOMAIN Models
      /\ Models["thread_members"] = {"base"} /\ Models["realtime_sessions"] = {"base"}
      /\ Models["realtime_events"] = EventGroups
  BY ModelsAre DEF Plain, Grown
<1>4. "base" \in EventGroups /\ "role_required" \notin EventGroups
  BY DEF EventGroups
<1> HIDE DEF s
<1>5. IsList(s)
  BY <1>1 DEF IsList
<1>6. 1 \in DOMAIN s /\ 2 \in DOMAIN s /\ 3 \in DOMAIN s /\ 4 \in DOMAIN s /\ 3 < 4
  BY <1>1
<1>7. Whole(s, "thread_members") /\ Whole(s, "realtime_sessions")
  BY <1>2, <1>3, <1>6, MadeAt
<1>8. Whole(s, "realtime_events")
  BY <1>2, <1>3, <1>4, <1>6, CompletedAt
<1>9. \A i \in DOMAIN s :
        /\ s[i].t \in {"thread_members", "realtime_sessions", "realtime_events"}
        /\ s[i].g \in {{"base"}, EventGroups}
  BY <1>1, <1>2 DEF CreateIf, AddIf
<1>10. WholeAll(s)
  BY <1>3, <1>7, <1>8, <1>9 DEF WholeAll
<1>11. Apart(s)
  BY <1>4, <1>9 DEF Apart, Quiet
<1> QED BY <1>5, <1>8, <1>10, <1>11 DEF s

LEMMA BootFileTableIs ==
  /\ IsList(BootFileTable) /\ WholeAll(BootFileTable) /\ Apart(BootFileTable)
  /\ Whole(BootFileTable, "files")
<1> DEFINE s == BootFileTable
           G == FileGroups \cup {"legacy"}
<1>1. s \in Seq({s[1], s[2], s[3]}) /\ Len(s) = 3 /\ DOMAIN s = 1 .. 3
  BY DEF BootFileTable
<1>2. s[1] = CreateIf("files", G) /\ s[2] = CreateIf("signup_codes", {"base"}) /\ s[3] = AddIf("files", G)
  BY DEF BootFileTable
<1>3. /\ {"files", "signup_codes"} \subseteq DOMAIN Models
      /\ Models["signup_codes"] = {"base"} /\ Models["files"] \subseteq G
  BY ModelsAre DEF Plain, Grown
<1>4. "base" \in G /\ "role_required" \notin G
  BY DEF FileGroups
<1> HIDE DEF s, G
<1>5. IsList(s)
  BY <1>1 DEF IsList
<1>6. 1 \in DOMAIN s /\ 2 \in DOMAIN s /\ 3 \in DOMAIN s /\ 1 < 3
  BY <1>1
<1>7. Whole(s, "signup_codes")
  BY <1>2, <1>3, <1>6, MadeAt
<1>8. Whole(s, "files")
  BY <1>2, <1>3, <1>4, <1>6, CompletedAt
<1>9. \A i \in DOMAIN s : s[i].t \in {"files", "signup_codes"} /\ s[i].g \in {{"base"}, G}
  BY <1>1, <1>2 DEF CreateIf, AddIf
<1>10. WholeAll(s)
  BY <1>3, <1>7, <1>8, <1>9 DEF WholeAll
<1>11. Apart(s)
  BY <1>4, <1>9 DEF Apart, Quiet
<1> QED BY <1>5, <1>8, <1>10, <1>11 DEF s

LEMMA BootTextsIs ==
  /\ IsList(BootTexts) /\ WholeAll(BootTexts) /\ Apart(BootTexts)
  /\ Whole(BootTexts, "file_chunks")
<1> DEFINE s == BootTexts
<1>1. s \in Seq({s[1], s[2], s[3]}) /\ Len(s) = 3 /\ DOMAIN s = 1 .. 3
  BY DEF BootTexts
<1>2. /\ s[1] = CreateIf("file_texts", {"base"}) /\ s[2] = CreateIf("file_chunks", {"base", "agent"})
      /\ s[3] = AddIf("file_chunks", {"agent"})
  BY DEF BootTexts
<1>3. /\ {"file_texts", "file_chunks"} \subseteq DOMAIN Models
      /\ Models["file_texts"] = {"base"} /\ Models["file_chunks"] = {"base", "agent"}
  BY ModelsAre DEF Plain, Grown
<1>4. Models["file_chunks"] \subseteq {"agent"} \cup {"base"}
  BY <1>3
<1> HIDE DEF s
<1>5. IsList(s)
  BY <1>1 DEF IsList
<1>6. 1 \in DOMAIN s /\ 2 \in DOMAIN s /\ 3 \in DOMAIN s /\ 2 < 3
  BY <1>1
<1>7. Whole(s, "file_texts")
  BY <1>2, <1>3, <1>6, MadeAt
<1>8. Whole(s, "file_chunks")
  <2>1. "base" \in {"base", "agent"}
    OBVIOUS
  <2> QED BY <1>2, <1>4, <1>6, <2>1, CompletedAt
<1>9. \A i \in DOMAIN s :
        s[i].t \in {"file_texts", "file_chunks"} /\ s[i].g \subseteq {"base", "agent"}
  BY <1>1, <1>2 DEF CreateIf, AddIf
<1>10. WholeAll(s)
  BY <1>3, <1>7, <1>8, <1>9 DEF WholeAll
<1>11. Apart(s)
  BY <1>9 DEF Apart, Quiet
<1> QED BY <1>5, <1>8, <1>10, <1>11 DEF s

\* Each of the four reconciliations.
LEMMA BootsAre ==
  /\ \A k \in 1 .. 4 : IsList(Boots[k]) /\ WholeAll(Boots[k]) /\ Apart(Boots[k])
  /\ Whole(Boots[1], "users") /\ Whole(Boots[1], "messages")
  /\ Whole(Boots[3], "realtime_events")
  /\ Whole(Boots[4], "files") /\ Whole(Boots[4], "file_chunks")
<1> DEFINE Good(s) == IsList(s) /\ WholeAll(s) /\ Apart(s)
<1>1. ASSUME NEW s, NEW t, Good(s), Good(t)
      PROVE  Good(s \o t) /\ \A x : Whole(s, x) \/ Whole(t, x) => Whole(s \o t, x)
  BY <1>1, WholeJoined
<1>2. /\ Good(BootUsers) /\ Good(BootLogins) /\ Good(BootConsents) /\ Good(BootThreads)
      /\ Good(BootMessages) /\ Good(BootAgents) /\ Good(BootCollab) /\ Good(BootFileTable)
      /\ Good(BootTexts) /\ Good(BootAudit)
      /\ Whole(BootUsers, "users") /\ Whole(BootMessages, "messages")
      /\ Whole(BootCollab, "realtime_events")
      /\ Whole(BootFileTable, "files") /\ Whole(BootTexts, "file_chunks")
  BY BootUsersIs, BootLoginsIs, BootThreadsIs, BootMessagesIs, BootAgentsIs, BootCollabIs,
     BootFileTableIs, BootTextsIs, MadeOnlyIs
<1> HIDE DEF Good
<1>3. Good(BootCoreAuth) /\ Whole(BootCoreAuth, "users") /\ Whole(BootCoreAuth, "messages")
  <2>1. PICK s1 : s1 = BootUsers \o BootLogins
    OBVIOUS
  <2>2. PICK s2 : s2 = s1 \o BootConsents
    OBVIOUS
  <2>3. PICK s3 : s3 = s2 \o BootThreads
    OBVIOUS
  <2>4. PICK s4 : s4 = s3 \o BootMessages
    OBVIOUS
  <2>5. Good(s1) /\ Whole(s1, "users")
    BY <1>1, <1>2, <2>1
  <2>6. Good(s2) /\ Whole(s2, "users")
    BY <1>1, <1>2, <2>2, <2>5
  <2>7. Good(s3) /\ Whole(s3, "users")
    BY <1>1, <1>2, <2>3, <2>6
  <2>8. Good(s4) /\ Whole(s4, "users") /\ Whole(s4, "messages")
    BY <1>1, <1>2, <2>4, <2>7
  <2>9. BootCoreAuth = s4
    BY <2>1, <2>2, <2>3, <2>4 DEF BootCoreAuth
  <2> QED BY <2>8, <2>9
<1>4. Good(BootFiles) /\ Whole(BootFiles, "files") /\ Whole(BootFiles, "file_chunks")
  <2>1. PICK s1 : s1 = BootFileTable \o BootTexts
    OBVIOUS
  <2>2. PICK s2 : s2 = s1 \o BootAudit
    OBVIOUS
  <2>3. Good(s1) /\ Whole(s1, "files") /\ Whole(s1, "file_chunks")
    BY <1>1, <1>2, <2>1
  <2>4. Good(s2) /\ Whole(s2, "files") /\ Whole(s2, "file_chunks")
    BY <1>1, <1>2, <2>2, <2>3
  <2>5. BootFiles = s2
    BY <2>1, <2>2 DEF BootFiles
  <2> QED BY <2>4, <2>5
<1>5. /\ Boots[1] = BootCoreAuth /\ Boots[2] = BootAgents /\ Boots[3] = BootCollab
      /\ Boots[4] = BootFiles
  BY DEF Boots
<1>6. \A k \in 1 .. 4 : Good(Boots[k])
  BY <1>2, <1>3, <1>4, <1>5
<1> QED BY <1>2, <1>3, <1>4, <1>5, <1>6 DEF Good

\* What a transaction that ended open left whole.
LEMMA WholeRun ==
  ASSUME NEW s, NEW schema, IsList(s), RunAll(s, schema).tx = "open", NEW t, Whole(s, t)
  PROVE  Columns(t, Models[t]) \subseteq RunAll(s, schema).has
<1> PICK run : run = RunAll(s, schema)
  OBVIOUS
<1>1. /\ \A x : Makes(s, x) => Exists(x, run.has)
      /\ \A x, g : Completes(s, x, g) => Columns(x, g) \subseteq run.has
  BY RunIs DEF IsList
<1>2. ASSUME NEW c \in Models[t] PROVE <<t, c>> \in run.has
  BY <1>1, <1>2 DEF Whole, Columns, Exists
<1> QED BY <1>2 DEF Columns
LEMMA GuardUsersIs ==
  /\ IsList(GuardUsers \o EnsureFiles) /\ Apart(GuardUsers \o EnsureFiles)
  /\ IsList(EnsureFiles) /\ Apart(EnsureFiles)
<1> DEFINE s == GuardUsers
           t == EnsureFiles
<1>1. /\ s \in Seq({s[1], s[2], s[3]}) /\ Len(s) = 3 /\ DOMAIN s = 1 .. 3
      /\ t \in Seq({t[1]}) /\ Len(t) = 1 /\ DOMAIN t = 1 .. 1
  BY DEF GuardUsers, EnsureFiles
<1>2. /\ s[1] = AddIf("users", UserGroups \ {"base", "summit"}) /\ s[2] = AddIf("threads", {"meta"})
      /\ s[3] = AddIf("messages", {"agent"}) /\ t[1] = CreateIf("files", {"base", "scope"})
  BY DEF GuardUsers, EnsureFiles
<1>3. "role_required" \notin UserGroups
  BY DEF UserGroups
<1> HIDE DEF s, t
<1>4. IsList(s) /\ IsList(t)
  BY <1>1 DEF IsList
<1>5. \A i \in DOMAIN s :
        s[i].t \in {"users", "threads", "messages"} /\ "role_required" \notin s[i].g
  BY <1>1, <1>2, <1>3 DEF AddIf
<1>6. \A i \in DOMAIN t : t[i].t = "files" /\ "role_required" \notin t[i].g
  BY <1>1, <1>2 DEF CreateIf
<1>7. Apart(s) /\ Apart(t)
  BY <1>5, <1>6 DEF Apart, Quiet
<1>8. IsList(s \o t) /\ Apart(s \o t)
  BY <1>4, <1>7, WholeJoined
<1> QED BY <1>4, <1>7, <1>8 DEF s, t

LEMMA GuardFilesIs == IsList(GuardFiles) /\ Quiet(GuardFiles)
<1> DEFINE s == GuardFiles
<1>1. s \in Seq({s[1], s[2], s[3]}) /\ Len(s) = 3 /\ DOMAIN s = 1 .. 3
  BY DEF GuardFiles
<1>2. /\ s[1] = AddIf("files", {"uploader", "scope", "original", "institutional"})
      /\ s[2] = AddIf("file_chunks", {"agent"}) /\ s[3] = Update("file_chunks")
  BY DEF GuardFiles
<1> HIDE DEF s
<1>3. IsList(s)
  BY <1>1 DEF IsList
<1>4. \A i \in DOMAIN s : s[i].t \in {"files", "file_chunks"} /\ "role_required" \notin s[i].g
  BY <1>1, <1>2 DEF AddIf, Update
<1> QED BY <1>3, <1>4 DEF Quiet, s

LEMMA GuardCostsIs ==
  IsList(GuardCosts) /\ Quiet(GuardCosts) /\ Whole(GuardCosts, "cost_events")
<1> DEFINE s == GuardCosts
<1>1. s \in Seq({s[1], s[2], s[3], s[4]}) /\ Len(s) = 4 /\ DOMAIN s = 1 .. 4
  BY DEF GuardCosts
<1>2. /\ s[1] = CreateIf("cost_events", {"base", "money"})
      /\ s[2] = AddIf("cost_events", {"base", "money"})
      /\ s[3] = CreateIf("thread_members", {"base"}) /\ s[4] = AddIf("cost_events", {"split"})
  BY DEF GuardCosts
<1> HIDE DEF s
<1>3. IsList(s)
  BY <1>1 DEF IsList
<1>4. \A i \in DOMAIN s : s[i].t \in {"cost_events", "thread_members"} /\ "role_required" \notin s[i].g
  BY <1>1, <1>2 DEF CreateIf, AddIf
<1>5. /\ s[1].op = "create_if" /\ s[1].t = "cost_events" /\ s[1].g = {"base", "money"}
      /\ s[2].op = "add_if" /\ s[2].t = "cost_events" /\ s[2].g = {"base", "money"}
      /\ s[4].op = "add_if" /\ s[4].t = "cost_events" /\ s[4].g = {"split"}
  BY <1>2 DEF CreateIf, AddIf
<1>6. 1 \in DOMAIN s /\ 2 \in DOMAIN s /\ 4 \in DOMAIN s /\ 1 < 2 /\ 1 < 4
  BY <1>1
<1>7. Makes(s, "cost_events")
  BY <1>5, <1>6 DEF Makes
<1>8. Completes(s, "cost_events", {"base", "money"})
  BY <1>5, <1>6 DEF Completes
<1>9. Completes(s, "cost_events", {"split"})
  BY <1>5, <1>6 DEF Completes
<1>10. Models["cost_events"] = {"base", "money", "split"}
  BY ModelsAre DEF CostGroups
<1>11. Whole(s, "cost_events")
  BY <1>7, <1>8, <1>9, <1>10 DEF Whole
<1> QED BY <1>3, <1>4, <1>11 DEF Quiet, s

\* The tables of the Summit that the guard makes.
Summit == <<"signup_codes", "otp_codes", "user_sessions", "usage_events", "feature_flags",
            "contact_requests", "marketing_consents", "terms_acceptances",
            "password_reset_tokens", "founder_escalations">>

LEMMA GuardSummitIs ==
  /\ IsList(GuardSummit) /\ Quiet(GuardSummit)
  /\ \A t \in Guarded \ {"cost_events"} : Whole(GuardSummit, t)
<1> DEFINE s == << AddIf("users", {"summit"}) >>
           t == [i \in 1 .. 10 |-> CreateIf(Summit[i], {"base"})]
<1>1. GuardSummit = s \o t
  BY DEF GuardSummit, Summit
<1>2. /\ s \in Seq({s[1]}) /\ Len(s) = 1 /\ DOMAIN s = 1 .. 1 /\ s[1] = AddIf("users", {"summit"})
      /\ Len(t) = 10 /\ DOMAIN t = 1 .. 10 /\ \A i \in 1 .. 10 : t[i] = CreateIf(Summit[i], {"base"})
  OBVIOUS
<1>3. t \in Seq({t[i] : i \in 1 .. 10})
  <2> HIDE DEF t
  <2>1. \A i \in 1 .. 10 : t[i] \in {t[j] : j \in 1 .. 10}
    OBVIOUS
  <2>2. t = [i \in 1 .. 10 |-> t[i]]
    BY DEF t
  <2> QED BY <2>1, <2>2
<1> HIDE DEF s, t
<1>4. IsList(s) /\ IsList(t)
  BY <1>2, <1>3 DEF IsList
<1>5. Quiet(s)
  BY <1>2 DEF Quiet, AddIf
<1>6. \A i \in 1 .. 10 : Summit[i] \in Plain
  BY DEF Summit, Plain
<1>7. Quiet(t)
  <2>1. \A i \in DOMAIN t : t[i].t \in Plain /\ t[i].g = {"base"}
    BY <1>2, <1>6 DEF CreateIf
  <2>2. "trial_states" \notin Plain
    BY DEF Plain
  <2> QED BY <2>1, <2>2 DEF Quiet
<1>8. \A i \in 1 .. 10 : Whole(t, Summit[i])
  <2> SUFFICES ASSUME NEW i \in 1 .. 10 PROVE Whole(t, Summit[i])
    OBVIOUS
  <2>1. i \in DOMAIN t /\ t[i] = CreateIf(Summit[i], {"base"}) /\ Models[Summit[i]] = {"base"}
    BY <1>2, <1>6, ModelsAre
  <2> QED BY <2>1, MadeAt
<1>9. \A x \in Guarded \ {"cost_events"} : \E i \in 1 .. 10 : x = Summit[i]
  <2>1. /\ Summit[4] = "usage_events" /\ Summit[5] = "feature_flags"
        /\ Summit[6] = "contact_requests" /\ Summit[9] = "password_reset_tokens"
        /\ Summit[10] = "founder_escalations"
    BY DEF Summit
  <2> QED BY <2>1 DEF Guarded
<1>10. \A x \in Guarded \ {"cost_events"} : Whole(s \o t, x)
  BY <1>4, <1>8, <1>9, WholeJoined
<1>11. IsList(s \o t) /\ Quiet(s \o t)
  BY <1>4, <1>5, <1>7, WholeJoined
<1> QED BY <1>1, <1>10, <1>11

LEMMA GuardEventsIs ==
  /\ IsList(GuardEvents) /\ Quiet(GuardEvents)
  /\ \A i \in DOMAIN GuardEvents : GuardEvents[i].op \in {"create_if", "add_if"}
<1> DEFINE s == GuardEvents
<1>1. s \in Seq({s[1]}) /\ Len(s) = 1 /\ DOMAIN s = 1 .. 1
  BY DEF GuardEvents
<1>2. s[1] = CreateIf("execution_events", {"base"})
  BY DEF GuardEvents
<1> HIDE DEF s
<1>3. IsList(s)
  BY <1>1 DEF IsList
<1>4. \A i \in DOMAIN s :
        s[i].t = "execution_events" /\ "role_required" \notin s[i].g /\ s[i].op = "create_if"
  BY <1>1, <1>2 DEF CreateIf
<1> QED BY <1>3, <1>4 DEF Quiet, s

LEMMA GuardRestIs ==
  IsList(GuardRest) /\ Quiet(GuardRest) /\ \A t \in Guarded : Whole(GuardRest, t)
<1>1. /\ IsList(GuardFiles \o GuardCosts) /\ Quiet(GuardFiles \o GuardCosts)
      /\ Whole(GuardFiles \o GuardCosts, "cost_events")
  BY GuardFilesIs, GuardCostsIs, WholeJoined
<1>2. /\ IsList((GuardFiles \o GuardCosts) \o GuardSummit)
      /\ Quiet((GuardFiles \o GuardCosts) \o GuardSummit)
      /\ \A t \in Guarded : Whole((GuardFiles \o GuardCosts) \o GuardSummit, t)
  BY <1>1, GuardSummitIs, WholeJoined
<1>3. /\ IsList(((GuardFiles \o GuardCosts) \o GuardSummit) \o GuardEvents)
      /\ Quiet(((GuardFiles \o GuardCosts) \o GuardSummit) \o GuardEvents)
      /\ \A t \in Guarded : Whole(((GuardFiles \o GuardCosts) \o GuardSummit) \o GuardEvents, t)
  BY <1>2, GuardEventsIs, WholeJoined
<1> QED BY <1>3 DEF GuardRest

\* A turn of chat: nothing of it can be refused.
LEMMA TurnIs ==
  LET s == GuardEvents \o CostSchema IN
  /\ IsList(s) /\ Quiet(s) /\ Whole(s, "cost_events")
  /\ \A i \in DOMAIN s : s[i].op \in {"create_if", "add_if"}
<1> DEFINE c == CostSchema
<1>1. "base" \in CostGroups /\ "role_required" \notin CostGroups /\ Models["cost_events"] = CostGroups
      /\ "cost_events" \in DOMAIN Models
  BY ModelsAre DEF CostGroups, Grown
<1>2. IsList(c) /\ Whole(c, "cost_events")
  BY <1>1, PairIs DEF CostSchema
<1>3. DOMAIN c = 1 .. 2 /\ c[1] = CreateIf("cost_events", CostGroups)
      /\ c[2] = AddIf("cost_events", CostGroups)
  BY DEF CostSchema
<1> HIDE DEF c
<1>4. \A i \in DOMAIN c :
        c[i].t = "cost_events" /\ c[i].g = CostGroups /\ c[i].op \in {"create_if", "add_if"}
  BY <1>3 DEF CreateIf, AddIf
<1>5. Quiet(c)
  BY <1>1, <1>4 DEF Quiet
<1>6. IsList(GuardEvents \o c) /\ Quiet(GuardEvents \o c) /\ Whole(GuardEvents \o c, "cost_events")
  BY <1>2, <1>5, GuardEventsIs, WholeJoined
<1>7. \A i \in DOMAIN (GuardEvents \o c) : (GuardEvents \o c)[i].op \in {"create_if", "add_if"}
  BY <1>2, <1>4, GuardEventsIs, ListJoined
<1> QED BY <1>6, <1>7 DEF c

\* What a run adds.
LEMMA QuietRun ==
  ASSUME NEW s, NEW schema, IsList(s), Quiet(s)
  PROVE  /\ schema \subseteq RunAll(s, schema).has
         /\ \A f \in RunAll(s, schema).has :
              f \in schema \/ \E t, c : f = <<t, c>> /\ t # "trial_states" /\ c # "role_required"
         /\ Apart(s) => \A f \in RunAll(s, schema).has :
              f \in schema \/ \E t, c : f = <<t, c>> /\ t # "cost_events"
<1> PICK run : run = RunAll(s, schema)
  OBVIOUS
<1>1. schema \subseteq run.has /\ run.has \subseteq schema \cup Touched(s)
  BY RunIs DEF IsList
<1>2. \A f \in Touched(s) : \E i \in DOMAIN s : \E c \in s[i].g : f = <<s[i].t, c>>
  BY DEF Touched, Columns
<1>3. \A f \in run.has : f \in schema \/ \E t, c : f = <<t, c>> /\ t # "trial_states" /\ c # "role_required"
  BY <1>1, <1>2 DEF Quiet
<1>4. Apart(s) => \A f \in run.has : f \in schema \/ \E t, c : f = <<t, c>> /\ t # "cost_events"
  BY <1>1, <1>2 DEF Apart
<1> QED BY <1>1, <1>3, <1>4

\* The upgrade of a stamped database runs 0027, which adds no column.
LEMMA UpgradeIs ==
  ASSUME NEW schema
  PROVE  RunAll(Revisions(Recovered + 1, Latest, schema), schema).has = schema
<1>1. Len(Chain) = 25 /\ Chain[25] = R0027
  BY DEF Chain
<1>2. Latest = 25 /\ Recovered = 24
  BY <1>1 DEF Latest, Recovered
<1> DEFINE q == [i \in 1 .. (Latest - (Recovered + 1) + 1) |->
                   IF Recovered + 1 + i = 2 /\ Exists("users", schema) THEN <<>>
                   ELSE Chain[Recovered + 1 + i - 1]]
<1>3. q = [i \in 1 .. 1 |-> R0027]
  BY <1>1, <1>2
<1>4. Revisions(Recovered + 1, Latest, schema) = FlattenSeq(q)
  BY DEF Revisions
<1> HIDE DEF q
<1>5. FlattenSeq(q) = R0027
  <2>1. Len(q) = 1 /\ q[1] = R0027
    BY <1>3
  <2> DEFINE Is(f) == f = [i \in 1 .. 1 |-> IF i = 1 THEN q[i] ELSE f[i - 1] \o q[i]]
  <2>2. Is([i \in 1 .. 1 |-> q[i]])
    OBVIOUS
  <2>3. FlattenSeq(q) = (CHOOSE f : Is(f))[1]
    BY <2>1 DEF FlattenSeq
  <2>4. Is(CHOOSE f : Is(f))
    BY <2>2
  <2>5. \A f : Is(f) => f[1] = q[1]
    OBVIOUS
  <2> QED BY <2>1, <2>3, <2>4, <2>5
<1>6. Len(R0027) = 1 /\ DOMAIN R0027 = 1 .. 1 /\ R0027[1].g = {}
  BY DEF R0027, Update
<1>7. Touched(R0027) = {}
  BY <1>6 DEF Touched, Columns
<1>8. RunAll(R0027, schema).has \subseteq schema \cup Touched(R0027)
      /\ schema \subseteq RunAll(R0027, schema).has
  BY <1>6, RunIs
<1> QED BY <1>4, <1>5, <1>7, <1>8

\* No revision describes the empty schema.
LEMMA DescribedIs == Described(0) = {}
<1> DEFINE q == [i \in 1 .. (0 - 1 + 1) |->
                   IF 1 + i = 2 /\ Exists("users", {}) THEN <<>> ELSE Chain[1 + i - 1]]
           Typed(st) == IF st.op = "untyped" THEN AddIf(st.t, st.g) ELSE st
           r == [i \in 1 .. Len(q) |-> Typed(q[i])]
<1>1. Len(q) = 0
  OBVIOUS
<1>2. Revisions(1, 0, {}) = q
  BY <1>1 DEF Revisions, FlattenSeq
<1>3. Described(0) = RunAll(r, {}).has
  <2> HIDE DEF q
  <2> QED BY <1>2 DEF Described
<1> HIDE DEF q
<1>4. Len(r) = 0 /\ DOMAIN r = 1 .. 0
  BY <1>1
<1> HIDE DEF r
<1>5. Touched(r) = {}
  BY <1>4 DEF Touched
<1>6. RunAll(r, {}).has \subseteq {} \cup Touched(r)
  BY <1>4, RunIs
<1> QED BY <1>3, <1>5, <1>6

-----------------------------------------------------------------------------
(* The boots.                                                               *)

\* The tables the k-th reconciliation answers for.
Tables(k) == {Boots[k][i].t : i \in DOMAIN Boots[k]}

Required == <<"realtime_events", "role_required">>

\* Where the processes are.
Booting ==
  /\ pc \in [Proc -> {"down", "boot", "up"}]
  /\ at \in [Proc -> 1 .. 5]
  /\ inside \subseteq Proc
  /\ \A p \in Proc : pc[p] = "up" => at[p] = 5
  /\ \A p \in inside : pc[p] = "boot" /\ at[p] \in 1 .. 4

\* What a process has behind it is in the database.
Behind == ~lost => \A p \in Proc : \A k \in 1 .. 4 : k < at[p] => Complete(Tables(k))

\* So is what a guard went through.
Guards == "guard" \in done => Complete(Guarded)

\* Nothing spoils a new database: the two tables that no boot completes are
\* there whole or not at all.
Anew == fresh =>
  /\ Required \notin has
  /\ \A t \in {"cost_events", "trial_states"} : Exists(t, has) => Complete({t})
  /\ "create_all" \in done => \A t \in DOMAIN Models : Exists(t, has)

SchemaInv == Booting /\ Behind /\ Guards /\ Anew

\* What a step may do to the schema of a new database.
Harmless ==
  /\ has \subseteq has'
  /\ \A f \in has' :
       f \in has \/ \E t, c : f = <<t, c>> /\ t # "trial_states" /\ c # "role_required"
  /\ \/ \A f \in has' : f \in has \/ \E t, c : f = <<t, c>> /\ t # "cost_events"
     \/ Columns("cost_events", Models["cost_events"]) \subseteq has'

LEMMA CompleteGrows ==
  ASSUME has \subseteq has', NEW T, Complete(T)
  PROVE  \A t \in T : Columns(t, Models[t]) \subseteq has'
BY DEF Complete

LEMMA HarmlessKeeps ==
  ASSUME Anew, Harmless, fresh' = fresh, "create_all" \in done' => "create_all" \in done
  PROVE  Anew'
<1> SUFFICES ASSUME fresh
             PROVE  /\ Required \notin has'
                    /\ \A t \in {"cost_events", "trial_states"} :
                         Exists(t, has') => Columns(t, Models[t]) \subseteq has'
                    /\ "create_all" \in done' => \A t \in DOMAIN Models : Exists(t, has')
  BY DEF Anew, Complete
<1>1. Required \notin has'
  BY DEF Anew, Harmless, Required
<1>2. ASSUME Exists("trial_states", has') PROVE Columns("trial_states", Models["trial_states"]) \subseteq has'
  <2>1. Exists("trial_states", has)
    BY <1>2 DEF Harmless, Exists
  <2> QED BY <2>1 DEF Anew, Complete, Harmless
<1>3. ASSUME Exists("cost_events", has') PROVE Columns("cost_events", Models["cost_events"]) \subseteq has'
  <2>1. CASE Columns("cost_events", Models["cost_events"]) \subseteq has'
    BY <2>1
  <2>2. CASE \A f \in has' : f \in has \/ \E t, c : f = <<t, c>> /\ t # "cost_events"
    <3>1. Exists("cost_events", has)
      BY <1>3, <2>2 DEF Exists
    <3> QED BY <3>1 DEF Anew, Complete, Harmless
  <2> QED BY <2>1, <2>2 DEF Harmless
<1>4. "create_all" \in done' => \A t \in DOMAIN Models : Exists(t, has')
  BY DEF Anew, Harmless, Exists
<1> QED BY <1>1, <1>2, <1>3, <1>4

\* A step that only writes the schema, or nothing.
LEMMA WritesOnly ==
  ASSUME SchemaInv, Harmless, UNCHANGED <<pc, at, inside, lost, fresh, done>>
  PROVE  SchemaInv'
<1>1. Booting'
  BY DEF SchemaInv, Booting, Proc
<1>2. Behind'
  BY CompleteGrows DEF SchemaInv, Behind, Complete, Harmless
<1>3. Guards'
  BY CompleteGrows DEF SchemaInv, Guards, Complete, Harmless
<1>4. Anew'
  BY HarmlessKeeps DEF SchemaInv
<1> QED BY <1>1, <1>2, <1>3, <1>4 DEF SchemaInv

LEMMA UnchangedIsHarmless == ASSUME has' = has PROVE Harmless
BY DEF Harmless

\* A process moves, and leaves the schema alone.
LEMMA MovesOnly ==
  ASSUME SchemaInv, UNCHANGED <<has, fresh, done>>, Booting',
         ~lost' => ~lost /\ \A p \in Proc : at'[p] <= at[p]
  PROVE  SchemaInv'
<1>1. Behind'
  <2> SUFFICES ASSUME ~lost', NEW p \in Proc, NEW k \in 1 .. 4, k < at'[p]
               PROVE  Complete(Tables(k))'
    BY DEF Behind, Tables
  <2>1. k < at[p]
    BY DEF SchemaInv, Booting
  <2>2. Complete(Tables(k))
    BY <2>1 DEF SchemaInv, Behind
  <2> QED BY <2>2 DEF Complete, Tables
<1>2. Guards'
  BY DEF SchemaInv, Guards, Complete
<1>3. Anew'
  BY DEF SchemaInv, Anew, Complete
<1> QED BY <1>1, <1>2, <1>3 DEF SchemaInv

LEMMA CommitKeeps == ASSUME SchemaInv, NEW p \in Proc, Commit(p) PROVE SchemaInv'
<1>1. PICK k : k = at[p]
  OBVIOUS
<1>2. PICK run : run = RunAll(Boots[k], has)
  OBVIOUS
<1>3. PICK ps : /\ ps \subseteq {p} \cup Waiting(p) /\ p \in inside /\ run.tx = "open" /\ has' = run.has
                /\ inside' = inside \ ps
                /\ at' = [q \in Proc |-> IF q \in ps THEN k + 1 ELSE at[q]]
                /\ UNCHANGED <<pc, lost, fresh, done>>
  BY <1>1, <1>2 DEF Commit, Leave
<1>4. k \in 1 .. 4 /\ ps \subseteq inside /\ \A q \in ps : at[q] = k
  BY <1>1, <1>3 DEF SchemaInv, Booting, Waiting
<1>5. IsList(Boots[k]) /\ WholeAll(Boots[k]) /\ Apart(Boots[k]) /\ Quiet(Boots[k])
  BY <1>4, BootsAre DEF Apart
<1>6. Harmless
  <2>1. /\ has \subseteq run.has
        /\ \A f \in run.has : f \in has \/ \E t, c : f = <<t, c>> /\ t # "trial_states" /\ c # "role_required"
        /\ \A f \in run.has : f \in has \/ \E t, c : f = <<t, c>> /\ t # "cost_events"
    BY <1>2, <1>5, QuietRun
  <2> QED BY <1>3, <2>1 DEF Harmless
<1>7. Complete(Tables(k))'
  <2>1. \A t \in Tables(k) : Whole(Boots[k], t)
    BY <1>5 DEF Tables, WholeAll
  <2>2. \A t \in Tables(k) : Columns(t, Models[t]) \subseteq run.has
    BY <1>2, <1>3, <1>5, <2>1, WholeRun
  <2> QED BY <1>3, <2>2 DEF Complete, Tables
<1>8. Booting'
  BY <1>3, <1>4 DEF SchemaInv, Booting
<1>9. Behind'
  <2> SUFFICES ASSUME ~lost, NEW q \in Proc, NEW j \in 1 .. 4, j < at'[q]
               PROVE  Complete(Tables(j))'
    BY <1>3 DEF Behind, Tables
  <2>1. CASE j = k
    BY <1>7, <2>1
  <2>2. CASE j # k
    <3>1. j < at[q]
      BY <1>3, <1>4, <2>2 DEF SchemaInv, Booting
    <3>2. Complete(Tables(j))
      BY <3>1 DEF SchemaInv, Behind
    <3> QED BY <1>6, <3>2 DEF Harmless, Complete, Tables
  <2> QED BY <2>1, <2>2
<1>10. Guards'
  BY <1>3, <1>6 DEF SchemaInv, Guards, Complete, Harmless
<1>11. Anew'
  BY <1>3, <1>6, HarmlessKeeps DEF SchemaInv
<1> QED BY <1>8, <1>9, <1>10, <1>11 DEF SchemaInv

LEMMA CreateAllKeeps == ASSUME SchemaInv, NEW p \in Proc, RunCreateAll(p) PROVE SchemaInv'
<1>1. /\ has' = CreateAll(has) /\ done' = done \cup {"create_all"}
      /\ UNCHANGED <<pc, at, inside, lost, fresh>>
  BY DEF RunCreateAll
<1>2. /\ has \subseteq has'
      /\ \A t \in DOMAIN Models : ~Exists(t, has) => Columns(t, Models[t]) \subseteq has'
      /\ \A f \in has' : f \in has \/ \E t \in DOMAIN Models : ~Exists(t, has) /\ \E c \in Models[t] : f = <<t, c>>
  BY <1>1 DEF CreateAll, Columns
<1>3. \A t \in DOMAIN Models : "base" \in Models[t] /\ "role_required" \notin Models[t]
  <2> SUFFICES ASSUME NEW t \in DOMAIN Models
               PROVE  "base" \in Models[t] /\ "role_required" \notin Models[t]
    OBVIOUS
  <2>1. CASE t \in Plain
    BY <2>1, ModelsAre
  <2>2. CASE t \in Grown
    BY <2>2, ModelsAre DEF Grown, UserGroups, FileGroups, MessageGroups, CostGroups, EventGroups
  <2> QED BY <2>1, <2>2, ModelsAre
<1>4. Booting' /\ Behind' /\ Guards'
  BY <1>1, <1>2 DEF SchemaInv, Booting, Behind, Guards, Complete
<1>5. ASSUME fresh PROVE Anew'
  <2>1. Required \notin has'
    BY <1>2, <1>3, <1>5 DEF SchemaInv, Anew, Required
  <2>2. ASSUME NEW t \in {"cost_events", "trial_states"}, Exists(t, has')
        PROVE  Columns(t, Models[t]) \subseteq has'
    <3>1. CASE Exists(t, has)
      BY <1>2, <1>5, <3>1 DEF SchemaInv, Anew, Complete
    <3>2. CASE ~Exists(t, has)
      BY <1>2, <3>2, ModelsAre DEF Grown
    <3> QED BY <3>1, <3>2
  <2>3. \A t \in DOMAIN Models : Exists(t, has')
    BY <1>2, <1>3 DEF Exists, Columns
  <2> QED BY <2>1, <2>2, <2>3 DEF Anew, Complete
<1>6. ~fresh => Anew'
  BY <1>1 DEF Anew
<1> QED BY <1>4, <1>5, <1>6 DEF SchemaInv

LEMMA GuardKeeps == ASSUME SchemaInv, NEW p \in Proc, RunGuard(p) PROVE SchemaInv'
<1>1. PICK made : made = RunAll(EnsureFiles, has).has
  OBVIOUS
<1>2. PICK first : first = RunAll(GuardUsers \o EnsureFiles, made)
  OBVIOUS
<1>3. PICK rest : rest = RunAll(GuardRest, first.has)
  OBVIOUS
<1>4. /\ has' = IF rest.tx = "open" THEN rest.has ELSE first.has
      /\ done' = IF rest.tx = "open" THEN done \cup {"guard"} ELSE done
      /\ UNCHANGED <<pc, at, inside, lost, fresh>>
  BY <1>1, <1>2, <1>3 DEF RunGuard
<1>5. /\ has \subseteq made /\ made \subseteq first.has
      /\ \A f \in first.has : \/ f \in has
                             \/ \E t, c : f = <<t, c>> /\ t # "trial_states" /\ c # "role_required"
      /\ \A f \in first.has : f \in has \/ \E t, c : f = <<t, c>> /\ t # "cost_events"
  <2>1. /\ has \subseteq made
        /\ \A f \in made : f \in has \/ \E t, c : f = <<t, c>> /\ t # "trial_states" /\ c # "role_required"
        /\ \A f \in made : f \in has \/ \E t, c : f = <<t, c>> /\ t # "cost_events"
    BY <1>1, GuardUsersIs, QuietRun DEF Apart
  <2>2. /\ made \subseteq first.has
        /\ \A f \in first.has : f \in made \/ \E t, c : f = <<t, c>> /\ t # "trial_states" /\ c # "role_required"
        /\ \A f \in first.has : f \in made \/ \E t, c : f = <<t, c>> /\ t # "cost_events"
    <3>1. PICK s : s = GuardUsers \o EnsureFiles
      OBVIOUS
    <3>2. IsList(s) /\ Apart(s) /\ Quiet(s)
      BY <3>1, GuardUsersIs DEF Apart
    <3>3. first = RunAll(s, made)
      BY <1>2, <3>1
    <3> QED BY <3>2, <3>3, QuietRun
  <2> QED BY <2>1, <2>2
<1>6. /\ first.has \subseteq rest.has
      /\ \A f \in rest.has : \/ f \in first.has
                            \/ \E t, c : f = <<t, c>> /\ t # "trial_states" /\ c # "role_required"
  BY <1>3, GuardRestIs, QuietRun
<1>7. rest.tx = "open" => \A t \in Guarded : Columns(t, Models[t]) \subseteq rest.has
  BY <1>3, GuardRestIs, WholeRun
<1>8. Harmless
  <2>1. CASE rest.tx = "open"
    <3>1. "cost_events" \in Guarded
      BY DEF Guarded
    <3> QED BY <1>4, <1>5, <1>6, <1>7, <2>1, <3>1 DEF Harmless
  <2>2. CASE rest.tx # "open"
    BY <1>4, <1>5, <2>2 DEF Harmless
  <2> QED BY <2>1, <2>2
<1>9. Booting' /\ Behind'
  BY <1>4, <1>8 DEF SchemaInv, Booting, Behind, Complete, Harmless
<1>10. Guards'
  <2>1. CASE rest.tx = "open"
    BY <1>4, <1>7, <2>1 DEF Guards, Complete
  <2>2. CASE rest.tx # "open"
    BY <1>4, <1>8, <2>2 DEF SchemaInv, Guards, Complete, Harmless
  <2> QED BY <2>1, <2>2
<1>11. Anew'
  <2>1. "create_all" \in done' => "create_all" \in done
    BY <1>4
  <2> QED BY <1>4, <1>8, <2>1, HarmlessKeeps DEF SchemaInv
<1> QED BY <1>9, <1>10, <1>11 DEF SchemaInv

LEMMA PatchKeeps == ASSUME SchemaInv, NEW p \in Proc, PatchMissing(p) PROVE SchemaInv'
<1>1. PICK t \in Missing(has) : has' = Patched(t, has)
  BY DEF PatchMissing
<1>2. t \in {"thread_members", "realtime_sessions", "realtime_events"}
      /\ Template[t] \in {EventGroups, {"base"}}
  BY DEF Missing, Template
<1>3. "role_required" \notin Template[t]
  BY <1>2 DEF EventGroups
<1>4. has' = has \/ has' = has \cup Columns(t, Template[t])
  BY <1>1 DEF Patched, Effect, CreateIf
<1>5. Harmless
  BY <1>2, <1>3, <1>4 DEF Harmless, Columns
<1>6. UNCHANGED <<pc, at, inside, lost, fresh, done>>
  BY DEF PatchMissing
<1> QED BY <1>5, <1>6, WritesOnly

LEMMA TurnKeeps == ASSUME SchemaInv, NEW p \in Proc, ServeTurn(p) PROVE SchemaInv'
<1>1. PICK s : s = GuardEvents \o CostSchema
  OBVIOUS
<1>2. IsList(s) /\ Quiet(s) /\ Whole(s, "cost_events")
      /\ \A i \in DOMAIN s : s[i].op \in {"create_if", "add_if"}
  BY <1>1, TurnIs
<1>3. RunAll(s, has).tx = "open"
  BY <1>2, RunIs DEF IsList
<1>4. has' = RunAll(s, has).has
  BY <1>1 DEF ServeTurn
<1>5. Columns("cost_events", Models["cost_events"]) \subseteq has'
  BY <1>2, <1>3, <1>4, WholeRun
<1>6. Harmless
  BY <1>2, <1>4, <1>5, QuietRun DEF Harmless
<1>7. UNCHANGED <<pc, at, inside, lost, fresh, done>>
  BY DEF ServeTurn
<1> QED BY <1>6, <1>7, WritesOnly

LEMMA FixKeeps == ASSUME SchemaInv, NEW p \in Proc, FixCosts(p) PROVE SchemaInv'
<1>1. has' = has \cup (Columns("cost_events", CostGroups) \ has)
      /\ UNCHANGED <<pc, at, inside, lost, fresh, done>>
  BY DEF FixCosts
<1>2. "role_required" \notin CostGroups /\ Models["cost_events"] = CostGroups
  BY ModelsAre DEF CostGroups
<1>3. Columns("cost_events", Models["cost_events"]) \subseteq has'
  BY <1>1, <1>2
<1>4. Harmless
  BY <1>1, <1>2, <1>3 DEF Harmless, Columns
<1> QED BY <1>1, <1>4, WritesOnly

\* The invariant holds through boots, outages, guards, repairs and upgrades.
THEOREM SchemaIsReconciled == SchemaSpec => []SchemaInv
<1>1. SchemaInit => SchemaInv
  <2> SUFFICES ASSUME SchemaInit PROVE SchemaInv
    OBVIOUS
  <2>1. Booting
    BY DEF SchemaInit, Booting
  <2>2. Behind
    BY DEF SchemaInit, Behind
  <2>3. Guards
    BY DEF SchemaInit, Guards
  <2>4. fresh => has = {}
    BY DescribedIs DEF SchemaInit
  <2>5. Anew
    BY <2>4 DEF SchemaInit, Anew, Exists
  <2> QED BY <2>1, <2>2, <2>3, <2>5 DEF SchemaInv
<1>2. SchemaInv /\ [SchemaNext]_schemaVars => SchemaInv'
  <2> SUFFICES ASSUME SchemaInv, [SchemaNext]_schemaVars PROVE SchemaInv'
    OBVIOUS
  <2>1. ASSUME NEW p \in Proc, Start(p) PROVE SchemaInv'
    <3>1. Booting'
      BY <2>1 DEF SchemaInv, Booting, Start
    <3> QED BY <2>1, <3>1, MovesOnly DEF SchemaInv, Booting, Start
  <2>2. ASSUME NEW p \in Proc, Begin(p) PROVE SchemaInv'
    <3>1. Booting'
      BY <2>2 DEF SchemaInv, Booting, Begin
    <3> QED BY <2>2, <3>1, MovesOnly DEF SchemaInv, Booting, Begin
  <2>3. ASSUME NEW p \in Proc, Swallowed(p) PROVE SchemaInv'
    <3>1. Booting'
      BY <2>3 DEF SchemaInv, Booting, Swallowed, Leave
    <3> QED BY <2>3, <3>1, MovesOnly DEF Swallowed
  <2>4. ASSUME NEW p \in Proc, StartUp(p) PROVE SchemaInv'
    <3>1. Booting'
      BY <2>4 DEF SchemaInv, Booting, StartUp
    <3> QED BY <2>4, <3>1, MovesOnly DEF SchemaInv, Booting, StartUp
  <2>5. ASSUME NEW p \in Proc, Stop(p) PROVE SchemaInv'
    <3>1. Booting'
      BY <2>5 DEF SchemaInv, Booting, Stop
    <3>2. ~lost' => ~lost
      BY <2>5 DEF Stop
    <3>3. \A q \in Proc : at'[q] <= at[q]
      BY <2>5 DEF SchemaInv, Booting, Stop
    <3> QED BY <2>5, <3>1, <3>2, <3>3, MovesOnly DEF Stop
  <2>6. ASSUME UpgradeHead PROVE SchemaInv'
    <3>1. has' = has
      BY <2>6, UpgradeIs DEF UpgradeHead
    <3>2. Alembic \in Proc
      BY DEF Proc
    <3>3. Booting'
      BY <2>6, <3>2 DEF SchemaInv, Booting, UpgradeHead
    <3>4. \A q \in Proc : at'[q] <= at[q]
      BY <2>6, <3>2 DEF SchemaInv, Booting, UpgradeHead
    <3> QED BY <2>6, <3>1, <3>3, <3>4, MovesOnly DEF UpgradeHead
  <2>7. ASSUME EmptyVersions PROVE SchemaInv'
    BY <2>7, UnchangedIsHarmless, WritesOnly DEF EmptyVersions
  <2>8. ASSUME UNCHANGED schemaVars PROVE SchemaInv'
    BY <2>8, UnchangedIsHarmless, WritesOnly DEF schemaVars
  <2> QED BY <2>1, <2>2, <2>3, <2>4, <2>5, <2>6, <2>7, <2>8, CommitKeeps, CreateAllKeeps, GuardKeeps,
             PatchKeeps, TurnKeeps, FixKeeps DEF SchemaNext
<1> QED BY <1>1, <1>2, PTL DEF SchemaSpec

LEMMA ReconciledIs ==
  /\ Reconciled = UNION {Tables(k) : k \in 1 .. 4}
  /\ {"users", "files", "messages", "realtime_events", "file_chunks"} \subseteq Reconciled
<1>1. \A k \in 1 .. 4 : DOMAIN Boots[k] = 1 .. Len(Boots[k])
  BY BootsAre DEF IsList
<1>2. Reconciled = UNION {Tables(k) : k \in 1 .. 4}
  BY <1>1 DEF Reconciled, Tables
<1>3. \A k \in 1 .. 4 : \A x : Whole(Boots[k], x) => x \in Tables(k)
  BY DEF Whole, Makes, Tables
<1>4. /\ {"users", "messages"} \subseteq Tables(1) /\ "realtime_events" \in Tables(3)
      /\ {"files", "file_chunks"} \subseteq Tables(4)
  BY <1>3, BootsAre
<1> QED BY <1>2, <1>4

\* A replica is up only behind tables that have every column models.py maps,
\* for any number of replicas and any database an earlier release left: each
\* reconciliation of app/db.py leaves its tables whole when it commits, and one
\* that lost the race to create a table lost it to a commit of the same work.
THEOREM BootAlwaysCovers == SchemaSpec => []BootCovers
<1>1. SchemaInv => BootCovers
  <2> SUFFICES ASSUME SchemaInv, ~lost, NEW p \in Replica, pc[p] = "up"
               PROVE  Complete(Reconciled) /\ ("guard" \in done => Complete(Guarded))
    BY DEF BootCovers
  <2>1. p \in Proc /\ at[p] = 5
    BY DEF SchemaInv, Booting, Proc
  <2>2. \A k \in 1 .. 4 : Complete(Tables(k))
    BY <2>1 DEF SchemaInv, Behind
  <2>3. Complete(Reconciled)
    BY <2>2, ReconciledIs DEF Complete
  <2> QED BY <2>3 DEF SchemaInv, Guards
<1> QED BY <1>1, SchemaIsReconciled, PTL

\* An empty database serves after one create_all, whatever booted, ran a guard
\* or repaired a table before it: the boots, the guard, the repairs and the
\* upgrade never leave behind a table that create_all would skip half made.
THEOREM NewDatabaseAlwaysServes == SchemaSpec => []NewDatabaseServes
<1>1. SchemaInv => NewDatabaseServes
  <2> SUFFICES ASSUME SchemaInv, fresh, ~lost, "create_all" \in done, NEW p \in Replica, pc[p] = "up"
               PROVE  Complete(DOMAIN Models) /\ Required \notin has
    BY DEF NewDatabaseServes, Required
  <2>1. p \in Proc /\ at[p] = 5
    BY DEF SchemaInv, Booting, Proc
  <2>2. \A k \in 1 .. 4 : Complete(Tables(k))
    BY <2>1 DEF SchemaInv, Behind
  <2>3. Complete(Reconciled)
    BY <2>2, ReconciledIs DEF Complete
  <2>4. \A t \in DOMAIN Models : Exists(t, has)
    BY DEF SchemaInv, Anew
  <2>5. ASSUME NEW t \in Plain PROVE Columns(t, Models[t]) \subseteq has
    <3>1. Models[t] = {"base"} /\ Exists(t, has)
      BY <2>4, ModelsAre
    <3> QED BY <3>1 DEF Columns, Exists
  <2>6. ASSUME NEW t \in Grown PROVE Columns(t, Models[t]) \subseteq has
    <3>1. CASE t \in {"cost_events", "trial_states"}
      BY <2>4, <3>1, ModelsAre DEF SchemaInv, Anew, Complete
    <3>2. CASE t \notin {"cost_events", "trial_states"}
      <4>1. t \in Reconciled
        BY <3>2, ReconciledIs DEF Grown
      <4> QED BY <2>3, <4>1 DEF Complete
    <3> QED BY <3>1, <3>2
  <2>7. Required \notin has
    BY DEF SchemaInv, Anew
  <2> QED BY <2>5, <2>6, <2>7, ModelsAre DEF Complete
<1> QED BY <1>1, SchemaIsReconciled, PTL

-----------------------------------------------------------------------------
(* The tables and groups of columns the schema is made of.                  *)

Stmt == [op : {"create", "create_if", "add", "add_if", "update", "untyped"},
         t : Table, g : SUBSET Group]

LEMMA StatementsAre ==
  ASSUME NEW t \in Table, NEW g \in SUBSET Group
  PROVE  /\ Create(t, g) \in Stmt /\ CreateIf(t, g) \in Stmt /\ Add(t, g) \in Stmt
         /\ AddIf(t, g) \in Stmt /\ AddUntyped(t, g) \in Stmt /\ Update(t) \in Stmt
BY DEF Stmt, Create, CreateIf, Add, AddIf, AddUntyped, Update

LEMMA NamesAre ==
  /\ Plain \subseteq Table /\ Grown \subseteq Table /\ "execution_events" \in Table
  /\ UserGroups \subseteq Group /\ FileGroups \subseteq Group /\ MessageGroups \subseteq Group
  /\ CostGroups \subseteq Group /\ EventGroups \subseteq Group
  /\ {"score", "meta", "legacy", "created_by", "role", "role_required"} \subseteq Group
BY ModelsAre DEF Table, Group

\* The revisions.
LEMMA RevisionsAre == Chain \in Seq(Seq(Stmt)) /\ Len(Chain) = 25
<1> USE StatementsAre, NamesAre
    DEF Plain, Grown, UserGroups, FileGroups, MessageGroups, CostGroups, EventGroups
<1>1. R0001 \in Seq(Stmt)
  BY DEF R0001
<1>2. R0002 \in Seq(Stmt)
  BY DEF R0002
<1>3. R0003 \in Seq(Stmt)
  BY DEF R0003
<1>4. R0006 \in Seq(Stmt)
  BY DEF R0006
<1>5. R0007 \in Seq(Stmt)
  BY DEF R0007
<1>6. R0008 \in Seq(Stmt)
  BY DEF R0008
<1>7. R0009 \in Seq(Stmt)
  BY DEF R0009
<1>8. R0010 \in Seq(Stmt)
  BY DEF R0010
<1>9. R0011 \in Seq(Stmt)
  BY DEF R0011
<1>10. R0012 \in Seq(Stmt)
  BY DEF R0012
<1>11. R0013 \in Seq(Stmt)
  BY DEF R0013
<1>12. R0014 \in Seq(Stmt)
  BY DEF R0014
<1>13. R0015 \in Seq(Stmt)
  BY DEF R0015
<1>14. R0016 \in Seq(Stmt)
  BY DEF R0016
<1>15. R0017 \in Seq(Stmt)
  BY DEF R0017
<1>16. R0018 \in Seq(Stmt)
  <2> DEFINE names == <<"signup_codes", "otp_codes", "user_sessions", "usage_events", "feature_flags",
                        "contact_requests", "marketing_consents", "terms_acceptances">>
             s == << Add("users", {"summit"}) >>
             t == [i \in 1 .. 8 |-> Create(names[i], {"base"})]
  <2>1. s \in Seq(Stmt)
    OBVIOUS
  <2>2. \A i \in 1 .. 8 : names[i] \in Table
    OBVIOUS
  <2> HIDE DEF names
  <2>3. \A i \in 1 .. 8 : Create(names[i], {"base"}) \in Stmt
    BY <2>2
  <2>4. t \in Seq(Stmt)
    BY <2>3
  <2>5. R0018 = s \o t
    BY DEF R0018, names
  <2> HIDE DEF s, t
  <2> QED BY <2>1, <2>4, <2>5
<1>17. R0019 \in Seq(Stmt)
  BY DEF R0019
<1>18. R0020 \in Seq(Stmt)
  BY DEF R0020
<1>19. R0021 \in Seq(Stmt)
  BY DEF R0021
<1>20. R0022 \in Seq(Stmt)
  BY DEF R0022
<1>21. R0023 \in Seq(Stmt)
  BY DEF R0023
<1>22. R0024 \in Seq(Stmt)
  BY DEF R0024
<1>23. R0025 \in Seq(Stmt)
  BY DEF R0025
<1>24. R0026 \in Seq(Stmt)
  BY DEF R0026
<1>25. R0027 \in Seq(Stmt)
  BY DEF R0027
<1> QED BY <1>1, <1>2, <1>3, <1>4, <1>5, <1>6, <1>7, <1>8, <1>9, <1>10, <1>11, <1>12, <1>13, <1>14, <1>15, <1>16, <1>17, <1>18, <1>19, <1>20, <1>21, <1>22, <1>23, <1>24, <1>25 DEF Chain

\* The reconciliations, the guard and the repairs.
LEMMA ListsAre ==
  /\ \A k \in 1 .. 4 : Boots[k] \in Seq(Stmt)
  /\ EnsureFiles \in Seq(Stmt) /\ GuardUsers \o EnsureFiles \in Seq(Stmt)
  /\ GuardRest \in Seq(Stmt) /\ GuardEvents \o CostSchema \in Seq(Stmt)
<1> USE StatementsAre, NamesAre
    DEF Plain, Grown, UserGroups, FileGroups, MessageGroups, CostGroups, EventGroups
<1>1. BootUsers \in Seq(Stmt)
  BY DEF BootUsers
<1>2. BootLogins \in Seq(Stmt)
  BY DEF BootLogins
<1>3. BootConsents \in Seq(Stmt)
  BY DEF BootConsents
<1>4. BootThreads \in Seq(Stmt)
  BY DEF BootThreads
<1>5. BootMessages \in Seq(Stmt)
  BY DEF BootMessages
<1>6. BootAgents \in Seq(Stmt)
  BY DEF BootAgents
<1>7. BootCollab \in Seq(Stmt)
  BY DEF BootCollab
<1>8. BootFileTable \in Seq(Stmt)
  BY DEF BootFileTable
<1>9. BootTexts \in Seq(Stmt)
  BY DEF BootTexts
<1>10. BootAudit \in Seq(Stmt)
  BY DEF BootAudit
<1>11. EnsureFiles \in Seq(Stmt)
  BY DEF EnsureFiles
<1>12. GuardUsers \in Seq(Stmt)
  BY DEF GuardUsers
<1>13. GuardFiles \in Seq(Stmt)
  BY DEF GuardFiles
<1>14. GuardCosts \in Seq(Stmt)
  BY DEF GuardCosts
<1>15. GuardEvents \in Seq(Stmt)
  BY DEF GuardEvents
<1>16. CostSchema \in Seq(Stmt)
  BY DEF CostSchema
<1>17. GuardSummit \in Seq(Stmt)
  <2> DEFINE s == << AddIf("users", {"summit"}) >>
             t == [i \in 1 .. 10 |-> CreateIf(Summit[i], {"base"})]
  <2>1. s \in Seq(Stmt)
    OBVIOUS
  <2>2. \A i \in 1 .. 10 : Summit[i] \in Table
    BY DEF Summit
  <2>3. \A i \in 1 .. 10 : CreateIf(Summit[i], {"base"}) \in Stmt
    BY <2>2
  <2>4. t \in Seq(Stmt)
    BY <2>3
  <2>5. GuardSummit = s \o t
    BY DEF GuardSummit, Summit
  <2> HIDE DEF s, t
  <2> QED BY <2>1, <2>4, <2>5
<1> QED BY <1>1, <1>2, <1>3, <1>4, <1>5, <1>6, <1>7, <1>8, <1>9, <1>10, <1>11, <1>12, <1>13, <1>14, <1>15, <1>16, <1>17
  DEF BootCoreAuth, BootFiles, Boots, GuardRest

\* Lists of one kind flatten to one of that kind.
LEMMA FlattenIs ==
  ASSUME NEW S, NEW q \in Seq(Seq(S))
  PROVE  FlattenSeq(q) \in Seq(S)
<1> PICK n \in Nat : n = Len(q)
  OBVIOUS
<1>1. CASE n = 0
  <2>1. Len(q) = 0
    BY <1>1
  <2>2. FlattenSeq(q) = q
    BY <2>1 DEF FlattenSeq
  <2>3. q = <<>>
    BY <2>1, EmptySeq
  <2> QED BY <2>2, <2>3
<1>2. CASE n > 0
  <2> DEFINE Is(f, k) == f = [i \in 1 .. k |-> IF i = 1 THEN q[i] ELSE f[i - 1] \o q[i]]
             T == {k \in Nat : \E f : Is(f, k)}
  <2>1. 0 \in T
    <3>1. Is([i \in 1 .. 0 |-> q[i]], 0)
      OBVIOUS
    <3> QED BY <3>1
  <2>2. ASSUME NEW k \in 0 .. n, k \in T, k < n PROVE k + 1 \in T
    <3>1. PICK f : Is(f, k)
      BY <2>2
    <3> DEFINE last == IF k + 1 = 1 THEN q[k + 1] ELSE f[k] \o q[k + 1]
               g == [i \in 1 .. k + 1 |-> IF i = k + 1 THEN last ELSE f[i]]
    <3>2. ASSUME NEW i \in 1 .. k + 1 PROVE g[i] = IF i = 1 THEN q[i] ELSE g[i - 1] \o q[i]
      <4>1. CASE i = k + 1
        <5>1. g[i] = last
          BY <4>1
        <5>2. i # 1 => i - 1 = k /\ k \in 1 .. k + 1 /\ g[k] = f[k]
          BY <4>1
        <5> QED BY <4>1, <5>1, <5>2
      <4>2. CASE i # k + 1
        <5>1. i \in 1 .. k /\ g[i] = f[i]
          BY <4>2
        <5>2. i # 1 => i - 1 \in 1 .. k + 1 /\ i - 1 # k + 1 /\ g[i - 1] = f[i - 1]
          BY <5>1
        <5>3. f[i] = IF i = 1 THEN q[i] ELSE f[i - 1] \o q[i]
          BY <3>1, <5>1
        <5> QED BY <5>1, <5>2, <5>3
      <4> QED BY <4>1, <4>2
    <3>3. g = [i \in 1 .. k + 1 |-> g[i]]
      OBVIOUS
    <3>4. Is(g, k + 1)
      <4> HIDE DEF g
      <4> QED BY <3>2, <3>3
    <3> HIDE DEF Is, g
    <3> QED BY <3>4
  <2>3. n \in T
    <3> HIDE DEF T
    <3>1. 0 .. n \subseteq T
      BY <2>1, <2>2, UpTo
    <3> QED BY <3>1
  <2>4. FlattenSeq(q) = (CHOOSE f : Is(f, Len(q)))[Len(q)]
    BY <1>2 DEF FlattenSeq
  <2>5. PICK f : Is(f, n) /\ FlattenSeq(q) = f[n]
    BY <2>3, <2>4
  <2> DEFINE U == {k \in 0 .. n : k > 0 => f[k] \in Seq(S)}
  <2>6. 0 \in U
    OBVIOUS
  <2>7. ASSUME NEW k \in 0 .. n, k \in U, k < n PROVE k + 1 \in U
    <3>1. k + 1 \in 1 .. n /\ q[k + 1] \in Seq(S)
      BY <2>7
    <3>2. f[k + 1] = IF k + 1 = 1 THEN q[k + 1] ELSE f[k] \o q[k + 1]
      <4>1. (k + 1) - 1 = k
        OBVIOUS
      <4> QED BY <2>5, <3>1, <4>1
    <3>3. f[k + 1] \in Seq(S)
      <4>1. k > 0 => f[k] \in Seq(S)
        BY <2>7
      <4> QED BY <3>1, <3>2, <4>1
    <3> QED BY <3>1, <3>3
  <2>8. n \in U
    <3> HIDE DEF U
    <3>1. 0 .. n \subseteq U
      BY <2>6, <2>7, UpTo
    <3> QED BY <3>1
  <2> QED BY <1>2, <2>5, <2>8
<1> QED BY <1>1, <1>2

\* A transaction stays within the tables and groups.
LEMMA RunStays ==
  ASSUME NEW s \in Seq(Stmt), NEW schema \in SUBSET (Table \X Group)
  PROVE  RunAll(s, schema).has \subseteq Table \X Group
<1>1. RunAll(s, schema).has \subseteq schema \cup Touched(s)
  BY RunIs
<1>2. \A i \in DOMAIN s : s[i] \in Stmt
  OBVIOUS
<1>3. \A i \in DOMAIN s : s[i].t \in Table /\ s[i].g \subseteq Group
  BY <1>2 DEF Stmt
<1>4. Touched(s) \subseteq Table \X Group
  BY <1>3 DEF Touched, Columns
<1> QED BY <1>1, <1>4

\* So does what the revisions describe.
LEMMA DescribedStays ==
  ASSUME NEW n \in 0 .. Latest
  PROVE  Described(n) \subseteq Table \X Group
<1> DEFINE q == [i \in 1 .. (n - 1 + 1) |->
                   IF 1 + i = 2 /\ Exists("users", {}) THEN <<>> ELSE Chain[1 + i - 1]]
           Typed(st) == IF st.op = "untyped" THEN AddIf(st.t, st.g) ELSE st
<1>0. Latest = 25
  BY RevisionsAre DEF Latest
<1>1. n \in 0 .. 25
  BY <1>0
<1>a. \A i \in 1 .. 25 : Chain[i] \in Seq(Stmt)
  BY RevisionsAre, ElementOfSeq
<1>b. <<>> \in Seq(Stmt)
  BY EmptySeq
<1>2. n - 1 + 1 = n /\ \A i \in 1 .. n : 1 + i - 1 \in 1 .. 25
  BY <1>1
<1>3. \A i \in 1 .. n : (IF 1 + i = 2 /\ Exists("users", {}) THEN <<>> ELSE Chain[1 + i - 1]) \in Seq(Stmt)
  BY <1>a, <1>b, <1>2
<1>4. q \in Seq(Seq(Stmt))
  BY <1>2, <1>3
<1>5. Revisions(1, n, {}) = FlattenSeq(q)
  BY DEF Revisions
<1> HIDE DEF q
<1>6. PICK s \in Seq(Stmt) : s = FlattenSeq(q)
  BY <1>4, FlattenIs
<1> DEFINE r == [i \in 1 .. Len(s) |-> Typed(s[i])]
<1>7. Described(n) = RunAll(r, {}).has
  BY <1>5, <1>6 DEF Described
<1>8. \A st \in Stmt : Typed(st) \in Stmt
  BY DEF Stmt, AddIf
<1> HIDE DEF Typed
<1>9. r \in Seq(Stmt)
  <2>1. \A i \in 1 .. Len(s) : Typed(s[i]) \in Stmt
    BY <1>8
  <2> QED BY <2>1
<1> HIDE DEF r
<1> QED BY <1>7, <1>9, RunStays

LEMMA ModelGroups == \A t \in DOMAIN Models : t \in Table /\ Models[t] \subseteq Group
<1>1. \A t \in Plain : Models[t] \subseteq Group
  BY ModelsAre, NamesAre DEF UserGroups
<1>2. \A t \in Grown : Models[t] \subseteq Group
  BY ModelsAre, NamesAre DEF Grown, UserGroups, MessageGroups
<1> QED BY <1>1, <1>2, ModelsAre DEF Table

\* Whatever the processes run, the database holds tables and groups of columns
\* the sources name, and versions, processes and jobs are what they are said to be.
THEOREM SchemaTypes == SchemaSpec => []SchemaTypeOK
<1>0. Latest \in Nat /\ Recovered \in 0 .. Latest
  BY RevisionsAre DEF Latest, Recovered
<1>1. SchemaInit => SchemaTypeOK
  <2> SUFFICES ASSUME SchemaInit PROVE SchemaTypeOK
    OBVIOUS
  <2>1. PICK n \in 0 .. Latest :
          /\ has = Described(n) /\ fresh = (n = 0) /\ version \in {0, n} /\ versioned \in BOOLEAN
    BY DEF SchemaInit
  <2>2. has \subseteq Table \X Group /\ version \in 0 .. Latest
    BY <1>0, <2>1, DescribedStays
  <2>3. fresh \in BOOLEAN /\ versioned \in BOOLEAN
    BY <2>1
  <2>4. pc \in [Proc -> {"down", "boot", "up"}] /\ at \in [Proc -> 1..5] /\ inside \subseteq Proc
    BY DEF SchemaInit
  <2>5. lock \in [1..4 -> SUBSET Proc] /\ jobs \in [Proc -> SUBSET Jobs] /\ done \subseteq Jobs
    BY DEF SchemaInit
  <2>6. lost \in BOOLEAN
    BY DEF SchemaInit
  <2> QED BY <2>2, <2>3, <2>4, <2>5, <2>6 DEF SchemaTypeOK
<1>2. SchemaTypeOK /\ SchemaInv /\ SchemaInv' /\ [SchemaNext]_schemaVars => SchemaTypeOK'
  <2> SUFFICES ASSUME SchemaTypeOK, SchemaInv, SchemaInv', [SchemaNext]_schemaVars PROVE SchemaTypeOK'
    OBVIOUS
  <2> USE DEF SchemaTypeOK
  <2>1. pc' \in [Proc -> {"down", "boot", "up"}] /\ at' \in [Proc -> 1 .. 5] /\ inside' \subseteq Proc
    BY DEF SchemaInv, Booting
  <2>2. has' \subseteq Table \X Group
    <3>1. ASSUME NEW p \in Proc, Commit(p) PROVE has' \subseteq Table \X Group
      <4>1. at[p] \in 1 .. 4 /\ has' = RunAll(Boots[at[p]], has).has
        BY <3>1 DEF SchemaInv, Booting, Commit
      <4> QED BY <4>1, ListsAre, RunStays
    <3>2. ASSUME NEW p \in Proc, RunGuard(p) PROVE has' \subseteq Table \X Group
      <4>1. PICK made : made = RunAll(EnsureFiles, has).has
        OBVIOUS
      <4>2. PICK first : first = RunAll(GuardUsers \o EnsureFiles, made).has
        OBVIOUS
      <4>3. PICK rest : rest = RunAll(GuardRest, first).has
        OBVIOUS
      <4>4. has' \in {first, rest}
        BY <3>2, <4>1, <4>2, <4>3 DEF RunGuard
      <4>5. made \subseteq Table \X Group
        BY <4>1, ListsAre, RunStays
      <4>6. first \subseteq Table \X Group
        BY <4>2, <4>5, ListsAre, RunStays
      <4>7. rest \subseteq Table \X Group
        BY <4>3, <4>6, ListsAre, RunStays
      <4> QED BY <4>4, <4>6, <4>7
    <3>3. ASSUME NEW p \in Proc, RunCreateAll(p) PROVE has' \subseteq Table \X Group
      BY <3>3, ModelGroups DEF RunCreateAll, CreateAll, Columns
    <3>4. ASSUME NEW p \in Proc, PatchMissing(p) PROVE has' \subseteq Table \X Group
      <4>1. PICK t \in DOMAIN Template : has' = Patched(t, has)
        BY <3>4 DEF PatchMissing, Missing
      <4>2. t \in Table /\ Template[t] \subseteq Group
        BY NamesAre DEF Template, Plain, Grown, EventGroups
      <4>3. has' \subseteq has \cup Columns(t, Template[t])
        BY <4>1 DEF Patched, Effect, CreateIf
      <4> QED BY <4>2, <4>3 DEF Columns
    <3>5. ASSUME NEW p \in Proc, ServeTurn(p) PROVE has' \subseteq Table \X Group
      BY <3>5, ListsAre, RunStays DEF ServeTurn
    <3>6. ASSUME NEW p \in Proc, FixCosts(p) PROVE has' \subseteq Table \X Group
      <4>1. Columns("cost_events", CostGroups) \subseteq Table \X Group
        BY NamesAre DEF Columns, Grown
      <4> QED BY <3>6, <4>1 DEF FixCosts
    <3>7. ASSUME NEW p \in Proc,
                 Start(p) \/ Begin(p) \/ Swallowed(p) \/ StartUp(p) \/ Stop(p)
          PROVE  has' \subseteq Table \X Group
      BY <3>7 DEF Start, Begin, Swallowed, StartUp, Stop
    <3>8. ASSUME UpgradeHead PROVE has' \subseteq Table \X Group
      BY <3>8, UpgradeIs DEF UpgradeHead
    <3>9. CASE EmptyVersions \/ UNCHANGED schemaVars
      BY <3>9 DEF EmptyVersions, schemaVars
    <3> QED BY <3>1, <3>2, <3>3, <3>4, <3>5, <3>6, <3>7, <3>8, <3>9 DEF SchemaNext
  <2>3. version' \in 0 .. Latest /\ versioned' \in BOOLEAN
    <3>1. CASE UpgradeHead
      BY <1>0, <3>1 DEF UpgradeHead
    <3>2. CASE EmptyVersions
      BY <1>0, <3>2 DEF EmptyVersions
    <3>3. CASE UNCHANGED <<version, versioned>>
      BY <3>3
    <3> QED BY <3>1, <3>2, <3>3 DEF SchemaNext, schemaVars, Start, Begin, Commit, Swallowed, StartUp,
          RunCreateAll, RunGuard, Stop, PatchMissing, ServeTurn, FixCosts
  <2>4. lost' \in BOOLEAN /\ fresh' \in BOOLEAN
    <3>1. \A p \in Proc : Stop(p) \/ Swallowed(p) => lost' \in BOOLEAN /\ fresh' = fresh
      BY DEF Stop, Swallowed
    <3> QED BY <3>1 DEF SchemaNext, schemaVars, Start, Begin, Commit, StartUp, RunCreateAll, RunGuard,
          PatchMissing, ServeTurn, FixCosts, UpgradeHead, EmptyVersions
  <2>5. done' \subseteq Jobs
    <3>1. \A p \in Proc : RunCreateAll(p) \/ RunGuard(p) => done' \subseteq Jobs
      BY DEF RunCreateAll, RunGuard, Jobs
    <3> QED BY <3>1 DEF SchemaNext, schemaVars, Start, Begin, Commit, Swallowed, StartUp, Stop,
          PatchMissing, ServeTurn, FixCosts, UpgradeHead, EmptyVersions
  <2>6. jobs' \in [Proc -> SUBSET Jobs]
    <3>1. \A p \in Proc : RunCreateAll(p) \/ RunGuard(p) => jobs' \in [Proc -> SUBSET Jobs]
      BY DEF RunCreateAll, RunGuard
    <3>2. \A p \in Proc : StartUp(p) \/ Stop(p) => jobs' \in [Proc -> SUBSET Jobs]
      BY DEF StartUp, Stop
    <3> QED BY <3>1, <3>2 DEF SchemaNext, schemaVars, Start, Begin, Commit, Swallowed,
          PatchMissing, ServeTurn, FixCosts, UpgradeHead, EmptyVersions
  <2>7. lock' \in [1 .. 4 -> SUBSET Proc]
    <3>1. \A p \in Proc : Begin(p) => lock' \in [1 .. 4 -> SUBSET Proc]
      BY DEF Begin
    <3>2. \A p \in Proc : Commit(p) \/ Swallowed(p) => lock' \in [1 .. 4 -> SUBSET Proc]
      BY DEF Commit, Swallowed, Leave
    <3>3. \A p \in Proc : Stop(p) => lock' \in [1 .. 4 -> SUBSET Proc]
      BY DEF Stop
    <3> QED BY <3>1, <3>2, <3>3 DEF SchemaNext, schemaVars, Start, StartUp, RunCreateAll, RunGuard,
          PatchMissing, ServeTurn, FixCosts, UpgradeHead, EmptyVersions
  <2> QED BY <2>1, <2>2, <2>3, <2>4, <2>5, <2>6, <2>7
<1> QED BY <1>1, <1>2, SchemaIsReconciled, PTL DEF SchemaSpec
=============================================================================

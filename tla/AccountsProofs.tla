--------------------------- MODULE AccountsProofs ---------------------------
(* Proofs about Accounts, for every set of workers and addresses and for   *)
(* all bounds.  The invariants are proved one after the other; each uses   *)
(* those before.                                                           *)
EXTENDS Accounts, FiniteSetTheorems, TLAPS

-----------------------------------------------------------------------------
\* A row that is changed is changed alone, and keeps its place and its kind.
LEMMA RowChanged ==
  ASSUME NEW S, NEW s \in Seq(S), NEW i \in DOMAIN s, NEW v \in S
  PROVE  /\ [s EXCEPT ![i] = v] \in Seq(S)
         /\ DOMAIN [s EXCEPT ![i] = v] = DOMAIN s
         /\ \A j \in DOMAIN s : [s EXCEPT ![i] = v][j] = IF j = i THEN v ELSE s[j]
  OBVIOUS

\* A row that is inserted comes after the others, which stay.
LEMMA RowInserted ==
  ASSUME NEW S, NEW s \in Seq(S), NEW v \in S
  PROVE  /\ Append(s, v) \in Seq(S)
         /\ Len(s) + 1 \notin DOMAIN s
         /\ DOMAIN Append(s, v) = DOMAIN s \cup {Len(s) + 1}
         /\ Append(s, v)[Len(s) + 1] = v
         /\ \A j \in DOMAIN s : Append(s, v)[j] = s[j]
  OBVIOUS

\* A worker's step moves its own request.
LEMMA Moves ==
  ASSUME req \in [Worker -> Request], NEW w \in Worker, NEW r \in Request,
         Goto(w, r)
  PROVE  /\ req' \in [Worker -> Request]
         /\ req'[w] = r
         /\ \A v \in Worker \ {w} : req'[v] = req[v]
  BY DEF Goto

\* The fields a request has at each of its steps.
LEMMA Fields ==
  ASSUME NEW r \in Request
  PROVE  /\ r.pc \in {"idle", "code", "lookup", "insert", "sync", "remove",
                      "newcode", "toggle"}
         /\ r.pc \in {"code", "lookup", "insert"} => r.email \in Email
         /\ r.pc \in {"lookup", "insert"} =>
              /\ r = [pc |-> r.pc, email |-> r.email, locked |-> r.locked,
                      counts |-> r.counts, seen |-> r.seen]
              /\ r.locked \in Nat /\ r.counts \in BOOLEAN /\ r.seen \in Nat
         /\ r.pc \in {"sync", "remove"} => r.account \in Nat
         /\ r.pc = "toggle" => r.code \in Nat /\ r.active \in BOOLEAN
  BY DEF Request, Idle

LEMMA IdleIsRequest == Idle \in Request /\ Idle.pc = "idle"
  BY DEF Request, Idle

\* Making an account an admin's changes its role, from "user", and nothing else.
LEMMA Promotes ==
  ASSUME account \in Seq(Account), NEW a \in DOMAIN account
  PROVE  /\ Promoted(a) \in Seq(Account)
         /\ DOMAIN Promoted(a) = DOMAIN account
         /\ \A b \in DOMAIN account :
              /\ Promoted(a)[b].email = account[b].email
              /\ Promoted(a)[b].code = account[b].code
              /\ Promoted(a)[b].role = IF b = a /\ Lacks(a) THEN "admin"
                                       ELSE account[b].role
  <1>1. account[a] \in Account
    OBVIOUS
  <1>2. [account[a] EXCEPT !.role = "admin"] \in Account
    BY <1>1 DEF Account
  <1>3. /\ [account[a] EXCEPT !.role = "admin"].email = account[a].email
        /\ [account[a] EXCEPT !.role = "admin"].code = account[a].code
        /\ [account[a] EXCEPT !.role = "admin"].role = "admin"
    BY <1>1 DEF Account
  <1>. QED  BY <1>2, <1>3, RowChanged DEF Promoted

\* Deleting an account changes its role and nothing else.
LEMMA Deletes ==
  ASSUME account \in Seq(Account), NEW a \in DOMAIN account,
         NEW acc, acc = [account EXCEPT ![a].role = "deleted"]
  PROVE  /\ acc \in Seq(Account)
         /\ DOMAIN acc = DOMAIN account
         /\ \A b \in DOMAIN account :
              /\ acc[b].email = account[b].email
              /\ acc[b].code = account[b].code
              /\ acc[b].role = IF b = a THEN "deleted" ELSE account[b].role
  <1>1. account[a] \in Account
    OBVIOUS
  <1>2. [account[a] EXCEPT !.role = "deleted"] \in Account
    BY <1>1 DEF Account
  <1>3. /\ [account[a] EXCEPT !.role = "deleted"].email = account[a].email
        /\ [account[a] EXCEPT !.role = "deleted"].code = account[a].code
        /\ [account[a] EXCEPT !.role = "deleted"].role = "deleted"
    BY <1>1 DEF Account
  <1>. QED  BY <1>2, <1>3, RowChanged

-----------------------------------------------------------------------------
\* The type invariant, with what makes it inductive: a request refers to rows
\* that were made, and a use is counted on a row that is locked.
Refers(w) ==
  /\ req[w].pc \in {"lookup", "insert"} =>
       /\ req[w].locked # NoCode => req[w].locked \in DOMAIN code
       /\ req[w].counts => req[w].locked # NoCode
  /\ req[w].pc \in {"sync", "remove"} => req[w].account \in DOMAIN account
  /\ req[w].pc = "toggle" => req[w].code \in DOMAIN code

WellFormed == TypeOK /\ \A w \in Worker : Refers(w)

\* Rows are never taken away, so the requests that do not move still refer to
\* rows, and the step of w has to be looked at for w only.
LEMMA OthersRefer ==
  ASSUME WellFormed, NEW w \in Worker, NEW r \in Request, Goto(w, r),
         DOMAIN account \subseteq DOMAIN account',
         DOMAIN code \subseteq DOMAIN code',
         Refers(w)'
  PROVE  req' \in [Worker -> Request] /\ \A v \in Worker : Refers(v)'
  <1>1. /\ req' \in [Worker -> Request]
        /\ \A v \in Worker \ {w} : req'[v] = req[v]
    BY Moves DEF WellFormed, TypeOK
  <1>2. ASSUME NEW v \in Worker \ {w}
        PROVE  Refers(v)'
    BY <1>1, <1>2 DEF WellFormed, Refers
  <1>. QED  BY <1>1, <1>2

LEMMA WellFormedInit == Init => WellFormed
  <1>. SUFFICES ASSUME Init PROVE WellFormed
    OBVIOUS
  <1>1. account \in Seq(Account)
    BY ElevatedAreEmails DEF Init, Account, NoCode
  <1>2. FreshCode \in Code
    BY DEF FreshCode, Code
  <1>3. code \in Seq(Code)
    <2>1. <<>> \in Seq(Code) /\ <<FreshCode>> \in Seq(Code)
      BY <1>2
    <2>. QED  BY <2>1 DEF Init
  <1>4. \A w \in Worker : req[w] = Idle
    BY DEF Init
  <1>. QED  BY <1>1, <1>3, <1>4, IdleIsRequest DEF Init, WellFormed, TypeOK, Refers

\* One step per action.
LEMMA WellFormedStep == WellFormed /\ [Next]_vars => WellFormed'
  <1>. SUFFICES ASSUME WellFormed, [Next]_vars PROVE WellFormed'
    OBVIOUS
  <1>. USE IdleIsRequest
  <1>0. /\ account \in Seq(Account) /\ code \in Seq(Code)
        /\ \A w \in Worker : req[w] \in Request /\ Refers(w)
        /\ cut \subseteq DOMAIN account /\ summit \in BOOLEAN
        /\ raced \in BOOLEAN
    BY DEF WellFormed, TypeOK
  <1>1. ASSUME NEW w \in Worker, NEW e \in Email, Register(w, e)
        PROVE  WellFormed'
    <2>1. [pc |-> "code", email |-> e] \in Request
      BY DEF Request
    <2>2. PICK r \in {[pc |-> "code", email |-> e],
                      Registration(e, NoCode, FALSE, 0)} : Goto(w, r)
      BY <1>1 DEF Register
    <2>3. r \in Request
      <3>1. Registration(e, NoCode, FALSE, 0) \in Request
        BY DEF Registration, Request, NoCode
      <3>. QED  BY <2>1, <3>1
    <2>4. Refers(w)'
      BY <2>2, <2>3, Moves
      DEF Refers, Registration, NoCode, WellFormed, TypeOK
    <2>. QED  BY <1>0, <1>1, <2>2, <2>3, <2>4, OthersRefer
              DEF Register, WellFormed, TypeOK
  <1>2. ASSUME NEW w \in Worker, CodeRefused(w)
        PROVE  WellFormed'
    <2>1. PICK k \in Found \cup {NoCode} :
            Goto(w, IF summit THEN Idle
                              ELSE Registration(req[w].email, k, FALSE, 0))
      BY <1>2 DEF CodeRefused
    <2>2. k \in Nat /\ (k # NoCode => k \in DOMAIN code)
      BY <1>0 DEF Found, NoCode
    <2>3. req[w].email \in Email
      BY <1>0, <1>2, Fields DEF CodeRefused, MayRead, At
    <2>4. PICK r \in {Idle, Registration(req[w].email, k, FALSE, 0)} : Goto(w, r)
      BY <2>1
    <2>5. r \in Request
      <3>1. Registration(req[w].email, k, FALSE, 0) \in Request
        BY <2>2, <2>3 DEF Registration, Request
      <3>. QED  BY <3>1
    <2>6. Refers(w)'
      BY <1>2, <2>2, <2>4, <2>5, Moves
      DEF Refers, Registration, CodeRefused, WellFormed, TypeOK
    <2>. QED  BY <1>0, <1>2, <2>4, <2>5, <2>6, OthersRefer
              DEF CodeRefused, WellFormed, TypeOK
  <1>3. ASSUME NEW w \in Worker, CodeTaken(w)
        PROVE  WellFormed'
    <2>1. PICK k \in Found :
            Goto(w, Registration(req[w].email, k, TRUE, code[k].used))
      BY <1>3 DEF CodeTaken
    <2>2. k \in DOMAIN code /\ k \in Nat /\ k # NoCode
      BY <1>0 DEF Found, NoCode
    <2>3. code[k].used \in Nat
      <3>1. code[k] \in Code
        BY <1>0, <2>2
      <3>. QED  BY <3>1 DEF Code
    <2>4. req[w].email \in Email
      BY <1>0, <1>3, Fields DEF CodeTaken, MayRead, At
    <2>5. Registration(req[w].email, k, TRUE, code[k].used) \in Request
      BY <2>2, <2>3, <2>4 DEF Registration, Request
    <2>6. Refers(w)'
      BY <1>3, <2>1, <2>2, <2>5, Moves
      DEF Refers, Registration, CodeTaken, WellFormed, TypeOK
    <2>. QED  BY <1>0, <1>3, <2>1, <2>5, <2>6, OthersRefer
              DEF CodeTaken, WellFormed, TypeOK
  <1>4. ASSUME NEW w \in Worker,
               \/ CodeAmbiguous(w) \/ Refuse(w) \/ InsertRefused(w)
        PROVE  WellFormed'
    <2>1. Goto(w, Idle) /\ UNCHANGED <<summit, account, code, cut, raced>>
      BY <1>4 DEF CodeAmbiguous, Refuse, InsertRefused
    <2>2. Refers(w)'
      BY <2>1, Moves DEF Refers, WellFormed, TypeOK
    <2>. QED  BY <1>0, <2>1, <2>2, OthersRefer DEF WellFormed, TypeOK
  <1>5. ASSUME NEW w \in Worker, Lookup(w)
        PROVE  WellFormed'
    <2>1. [req[w] EXCEPT !.pc = "insert"] \in Request
      BY <1>0, <1>5, Fields DEF Lookup, At, Request
    <2>2. Refers(w)'
      BY <1>0, <1>5, <2>1, Moves, Fields
      DEF Refers, Lookup, At, WellFormed, TypeOK
    <2>. QED  BY <1>0, <1>5, <2>1, <2>2, OthersRefer
              DEF Lookup, WellFormed, TypeOK
  <1>6. ASSUME NEW w \in Worker, Insert(w)
        PROVE  WellFormed'
    <2>1. /\ req[w].pc = "insert" /\ req[w].email \in Email
          /\ req[w].locked \in Nat /\ req[w].counts \in BOOLEAN
          /\ req[w].seen \in Nat
      BY <1>0, <1>6, Fields DEF Insert, At
    <2>2. NewAccount(req[w]) \in Account
      BY <2>1 DEF NewAccount, Account, NoCode
    <2>3. /\ account' \in Seq(Account)
          /\ DOMAIN account' = DOMAIN account \cup {Len(account) + 1}
      BY <1>0, <1>6, <2>2, RowInserted DEF Insert
    <2>4. code' \in Seq(Code) /\ DOMAIN code' = DOMAIN code
      <3>1. CASE req[w].counts
        <4>1. req[w].locked \in DOMAIN code
          BY <1>0, <2>1, <3>1 DEF Refers
        <4>2. [code[req[w].locked] EXCEPT !.used = req[w].seen + 1] \in Code
          <5>1. code[req[w].locked] \in Code
            BY <1>0, <4>1
          <5>. QED  BY <2>1, <5>1 DEF Code
        <4>. QED  BY <1>0, <1>6, <3>1, <4>1, <4>2, RowChanged DEF Insert, Use
      <3>2. CASE ~req[w].counts
        BY <1>0, <1>6, <3>2 DEF Insert, Use
      <3>. QED  BY <2>1, <3>1, <3>2
    <2>5. [pc |-> "sync", account |-> Len(account) + 1] \in Request
      BY <1>0 DEF Request
    <2>6. Refers(w)'
      BY <1>6, <2>3, <2>5, Moves DEF Refers, Insert, WellFormed, TypeOK
    <2>. QED  BY <1>0, <1>6, <2>3, <2>4, <2>5, <2>6, OthersRefer
              DEF Insert, WellFormed, TypeOK
  <1>7. ASSUME NEW w \in Worker, Sync(w)
        PROVE  WellFormed'
    <2>1. req[w].account \in DOMAIN account
      BY <1>0, <1>7 DEF Sync, At, Refers
    <2>2. account' \in Seq(Account) /\ DOMAIN account' = DOMAIN account
      BY <1>0, <1>7, <2>1, Promotes DEF Sync
    <2>3. Refers(w)'
      BY <1>7, Moves DEF Refers, Sync, WellFormed, TypeOK
    <2>. QED  BY <1>0, <1>7, <2>2, <2>3, OthersRefer
              DEF Sync, WellFormed, TypeOK
  <1>8. ASSUME NEW a \in DOMAIN account, Login(a)
        PROVE  WellFormed'
    <2>1. account' \in Seq(Account) /\ DOMAIN account' = DOMAIN account
      BY <1>0, <1>8, Promotes DEF Login
    <2>. QED  BY <1>0, <1>8, <2>1
              DEF Login, WellFormed, TypeOK, Refers
  <1>9. ASSUME NEW w \in Worker, NEW a \in DOMAIN account,
               DeleteUser(w, a) \/ RejectUser(w, a)
        PROVE  WellFormed'
    <2>1. [pc |-> "remove", account |-> a] \in Request
      BY <1>0 DEF Request
    <2>2. /\ Goto(w, [pc |-> "remove", account |-> a])
          /\ UNCHANGED <<summit, account, code, cut>>
          /\ raced' \in BOOLEAN
      BY <1>0, <1>9 DEF DeleteUser, RejectUser, StartRemoval
    <2>3. Refers(w)'
      BY <2>1, <2>2, Moves DEF Refers, WellFormed, TypeOK
    <2>. QED  BY <1>0, <2>1, <2>2, <2>3, OthersRefer DEF WellFormed, TypeOK
  <1>10. ASSUME NEW w \in Worker, DeleteRow(w)
         PROVE  WellFormed'
    <2>1. req[w].account \in DOMAIN account
      BY <1>0, <1>10 DEF DeleteRow, At, Refers
    <2>2. account' \in Seq(Account) /\ DOMAIN account' = DOMAIN account
      BY <1>0, <1>10, <2>1, Deletes DEF DeleteRow
    <2>3. Refers(w)'
      BY <1>10, Moves DEF Refers, DeleteRow, WellFormed, TypeOK
    <2>. QED  BY <1>0, <1>10, <2>2, <2>3, OthersRefer
              DEF DeleteRow, WellFormed, TypeOK
  <1>11. ASSUME NEW w \in Worker, CreateCode(w)
         PROVE  WellFormed'
    <2>1. [pc |-> "newcode"] \in Request
      BY DEF Request
    <2>2. Refers(w)'
      BY <1>11, <2>1, Moves DEF Refers, CreateCode, WellFormed, TypeOK
    <2>. QED  BY <1>0, <1>11, <2>1, <2>2, OthersRefer
              DEF CreateCode, WellFormed, TypeOK
  <1>12. ASSUME NEW w \in Worker, InsertCode(w)
         PROVE  WellFormed'
    <2>1. FreshCode \in Code
      BY DEF FreshCode, Code
    <2>2. /\ code' \in Seq(Code)
          /\ DOMAIN code' = DOMAIN code \cup {Len(code) + 1}
      BY <1>0, <1>12, <2>1, RowInserted DEF InsertCode
    <2>3. Refers(w)'
      BY <1>12, Moves DEF Refers, InsertCode, WellFormed, TypeOK
    <2>. QED  BY <1>0, <1>12, <2>2, <2>3, OthersRefer
              DEF InsertCode, WellFormed, TypeOK
  <1>13. ASSUME NEW w \in Worker, NEW k \in DOMAIN code, ToggleCode(w, k)
         PROVE  WellFormed'
    <2>1. [pc |-> "toggle", code |-> k, active |-> ~code[k].active] \in Request
      BY <1>0 DEF Request
    <2>2. Refers(w)'
      BY <1>13, <2>1, Moves DEF Refers, ToggleCode, WellFormed, TypeOK
    <2>. QED  BY <1>0, <1>13, <2>1, <2>2, OthersRefer
              DEF ToggleCode, WellFormed, TypeOK
  <1>14. ASSUME NEW w \in Worker, WriteToggle(w)
         PROVE  WellFormed'
    <2>1. req[w].code \in DOMAIN code /\ req[w].active \in BOOLEAN
      BY <1>0, <1>14, Fields DEF WriteToggle, At, Refers
    <2>2. [code[req[w].code] EXCEPT !.active = req[w].active] \in Code
      <3>1. code[req[w].code] \in Code
        BY <1>0, <2>1
      <3>. QED  BY <2>1, <3>1 DEF Code
    <2>3. code' \in Seq(Code) /\ DOMAIN code' = DOMAIN code
      BY <1>0, <1>14, <2>1, <2>2, RowChanged DEF WriteToggle
    <2>4. Refers(w)'
      BY <1>14, Moves DEF Refers, WriteToggle, WellFormed, TypeOK
    <2>. QED  BY <1>0, <1>14, <2>3, <2>4, OthersRefer
              DEF WriteToggle, WellFormed, TypeOK
  <1>15. ASSUME NEW k \in DOMAIN code, Expire(k)
         PROVE  WellFormed'
    <2>1. [code[k] EXCEPT !.expired = TRUE] \in Code
      <3>1. code[k] \in Code
        BY <1>0
      <3>. QED  BY <3>1 DEF Code
    <2>2. code' \in Seq(Code) /\ DOMAIN code' = DOMAIN code
      BY <1>0, <1>15, <2>1, RowChanged DEF Expire
    <2>. QED  BY <1>0, <1>15, <2>2 DEF Expire, WellFormed, TypeOK, Refers
  <1>16. ASSUME NEW w \in Worker, Crash(w)
         PROVE  WellFormed'
    <2>1. cut' \subseteq DOMAIN account
      BY <1>0, <1>16 DEF Crash, At, Refers
    <2>2. Refers(w)'
      BY <1>16, Moves DEF Refers, Crash, WellFormed, TypeOK
    <2>. QED  BY <1>0, <1>16, <2>1, <2>2, OthersRefer
              DEF Crash, WellFormed, TypeOK
  <1>17. CASE UNCHANGED vars
    BY <1>17 DEF vars, WellFormed, TypeOK, Refers
  <1>. QED
    BY <1>1, <1>2, <1>3, <1>4, <1>5, <1>6, <1>7, <1>8, <1>9, <1>10, <1>11,
       <1>12, <1>13, <1>14, <1>15, <1>16, <1>17 DEF Next, Wait, Advance

LEMMA StaysWellFormed == Spec => []WellFormed
  BY WellFormedInit, WellFormedStep, PTL DEF Spec

\* The handlers keep every table and request well-formed: a request acts on
\* rows that were made, whatever was done to them since it read them.
THEOREM TypeCorrect == Spec => []TypeOK
  <1>1. WellFormed => TypeOK
    BY DEF WellFormed
  <1>. QED  BY <1>1, StaysWellFormed, PTL

-----------------------------------------------------------------------------
\* The uses of a row are the accounts made with it.  What makes it inductive:
\* a row has one holder at most, and what the holder read of it still holds
\* when it writes; an account was made with a row that exists.
Registers(w) == req[w].pc \in {"lookup", "insert"}

LockInv ==
  /\ \A k \in DOMAIN code : \A v, w \in Worker :
       Holds(v, k) /\ Holds(w, k) => v = w
  /\ \A w \in Worker : Registers(w) /\ req[w].counts =>
       /\ req[w].seen = code[req[w].locked].used
       /\ MaxUses > 0 => req[w].seen < MaxUses
MadeWithRows ==
  \A a \in DOMAIN account : account[a].code # NoCode
                          => account[a].code \in DOMAIN code
UsesInv == LockInv /\ MadeWithRows /\ UsesAreAccounts

CodesKept ==
  /\ DOMAIN account' = DOMAIN account
  /\ \A a \in DOMAIN account : account'[a].code = account[a].code
UsesKept ==
  /\ DOMAIN code' = DOMAIN code
  /\ \A k \in DOMAIN code : code'[k].used = code[k].used

\* A step that makes no account, adds no use and takes no lock.
LEMMA NothingUsed ==
  ASSUME WellFormed, UsesInv, CodesKept, UsesKept,
         \A v \in Worker :
           \/ req'[v] = req[v]
           \/ req'[v].pc \notin {"lookup", "insert"}
           \/ /\ Registers(v) /\ req'[v].pc = "insert"
              /\ req'[v].locked = req[v].locked
              /\ req'[v].counts = req[v].counts /\ req'[v].seen = req[v].seen
           \/ req'[v].locked = NoCode /\ req'[v].counts = FALSE
  PROVE  UsesInv'
  <1>1. NoCode \notin DOMAIN code
    BY DEF WellFormed, TypeOK, NoCode
  <1>2. \A w \in Worker : Registers(w) /\ req[w].counts =>
          req[w].locked \in DOMAIN code
    BY DEF WellFormed, Refers, Registers
  <1>3. LockInv'
    BY <1>1, <1>2 DEF UsesInv, LockInv, UsesKept, Holds, Registers
  <1>4. MadeWithRows'
    BY DEF UsesInv, MadeWithRows, CodesKept, UsesKept
  <1>5. \A k \in DOMAIN code : MadeWith(k)' = MadeWith(k)
    BY DEF CodesKept, MadeWith
  <1>6. UsesAreAccounts'
    BY <1>5 DEF UsesInv, UsesAreAccounts, UsesKept
  <1>. QED  BY <1>3, <1>4, <1>6 DEF UsesInv

\* A step that locks the row it found unlocked and read.
LEMMA RowLocked ==
  ASSUME WellFormed, UsesInv, UNCHANGED <<account, code>>,
         NEW w \in Worker, NEW k \in DOMAIN code, Unlocked(k),
         NEW r \in Request, Goto(w, r), r.pc = "lookup", r.locked = k,
         r.counts => r.seen = code[k].used /\ Usable(k)
  PROVE  UsesInv'
  <1>1. /\ req'[w] = r
        /\ \A v \in Worker \ {w} : req'[v] = req[v]
    BY Moves DEF WellFormed, TypeOK
  <1>2. ASSUME NEW j \in DOMAIN code', NEW u \in Worker, NEW v \in Worker,
               Holds(u, j)', Holds(v, j)'
        PROVE  u = v
    BY <1>1, <1>2 DEF UsesInv, LockInv, Holds, Unlocked
  <1>3. LockInv'
    BY <1>1, <1>2 DEF UsesInv, LockInv, Registers, Usable
  <1>4. MadeWithRows' /\ UsesAreAccounts'
    BY DEF UsesInv, MadeWithRows, UsesAreAccounts, MadeWith
  <1>. QED  BY <1>3, <1>4 DEF UsesInv

\* The step that makes an account writes the use that goes with it.
LEMMA UseWritten ==
  ASSUME WellFormed, UsesInv, NEW w \in Worker, Insert(w)
  PROVE  UsesInv'
  <1>. DEFINE n == Len(account) + 1
              r == req[w]
  <1>0. /\ account \in Seq(Account) /\ code \in Seq(Code)
        /\ r \in Request /\ Refers(w) /\ NoCode \notin DOMAIN code
    BY DEF WellFormed, TypeOK, NoCode
  <1>1. /\ Registers(w) /\ r.email \in Email
        /\ r.locked \in Nat /\ r.counts \in BOOLEAN /\ r.seen \in Nat
    BY <1>0, Fields DEF Insert, At, Registers
  <1>2. /\ req'[w] = [pc |-> "sync", account |-> n]
        /\ \A v \in Worker \ {w} : req'[v] = req[v]
    BY DEF Insert, Goto, WellFormed, TypeOK
  <1>3. NewAccount(r) \in Account
    BY <1>1 DEF NewAccount, Account, NoCode
  <1>4. /\ n \notin DOMAIN account
        /\ DOMAIN account' = DOMAIN account \cup {n}
        /\ account'[n].code = IF r.counts THEN r.locked ELSE NoCode
        /\ \A a \in DOMAIN account : account'[a] = account[a]
    BY <1>0, <1>3, RowInserted DEF Insert, NewAccount
  <1>5. \A k \in DOMAIN code : IsFiniteSet(MadeWith(k))
    <2>1. IsFiniteSet(DOMAIN account)
      BY <1>0, FS_Interval
    <2>. QED  BY <2>1, FS_Subset DEF MadeWith
  <1>6. CASE ~r.counts
    <2>1. code' = code
      BY <1>6 DEF Insert, Use
    <2>2. \A k \in DOMAIN code : MadeWith(k)' = MadeWith(k)
      BY <1>0, <1>4, <1>6 DEF MadeWith
    <2>3. LockInv'
      BY <1>2, <2>1 DEF UsesInv, LockInv, Holds, Registers
    <2>. QED  BY <1>4, <1>6, <2>1, <2>2, <2>3
              DEF UsesInv, MadeWithRows, UsesAreAccounts
  <1>7. CASE r.counts
    <2>1. r.locked \in DOMAIN code /\ code[r.locked] \in Code
      BY <1>0, <1>1, <1>7 DEF Refers, Registers
    <2>2. /\ DOMAIN code' = DOMAIN code
          /\ code'[r.locked].used = r.seen + 1
          /\ \A k \in DOMAIN code \ {r.locked} : code'[k] = code[k]
      <3>1. [code[r.locked] EXCEPT !.used = r.seen + 1] \in Code
        BY <1>1, <2>1 DEF Code
      <3>. QED  BY <1>0, <1>7, <2>1, <3>1, RowChanged DEF Insert, Use, Code
    <2>3. /\ r.seen = code[r.locked].used
          /\ MaxUses > 0 => r.seen < MaxUses
      BY <1>1, <1>7 DEF UsesInv, LockInv
    <2>4. \A k \in DOMAIN code :
            /\ n \notin MadeWith(k)
            /\ MadeWith(k)' = IF k = r.locked THEN MadeWith(k) \cup {n}
                                             ELSE MadeWith(k)
      BY <1>4, <1>7 DEF MadeWith
    <2>5. ASSUME NEW k \in DOMAIN code
          PROVE  /\ code'[k].used = Cardinality(MadeWith(k)')
                 /\ MaxUses > 0 => code'[k].used <= MaxUses
      <3>1. /\ code[k].used = Cardinality(MadeWith(k))
            /\ MaxUses > 0 => code[k].used <= MaxUses
        BY DEF UsesInv, UsesAreAccounts
      <3>2. CASE k = r.locked
        <4>1. Cardinality(MadeWith(k)') = Cardinality(MadeWith(k)) + 1
          BY <1>5, <2>4, <3>2, FS_AddElement
        <4>. QED  BY <1>1, <2>2, <2>3, <3>1, <3>2, <4>1, BoundsAreNumbers
      <3>3. CASE k # r.locked
        BY <2>2, <2>4, <3>1, <3>3
      <3>. QED  BY <3>2, <3>3
    <2>9. UsesAreAccounts'
      BY <2>2, <2>5 DEF UsesAreAccounts
    <2>6. \A v \in Worker \ {w} : Registers(v) /\ req[v].counts =>
            req[v].locked \in DOMAIN code \ {r.locked}
      BY <1>1, <2>1 DEF UsesInv, LockInv, Holds, Registers, WellFormed, Refers
    <2>7. LockInv'
      BY <1>2, <2>2, <2>6 DEF UsesInv, LockInv, Holds, Registers
    <2>8. MadeWithRows'
      BY <1>4, <2>1, <2>2 DEF UsesInv, MadeWithRows
    <2>. QED  BY <2>7, <2>8, <2>9 DEF UsesInv
  <1>. QED  BY <1>6, <1>7

\* A new row is nobody's, and no account was made with it.
LEMMA RowMade ==
  ASSUME WellFormed, UsesInv, NEW w \in Worker, InsertCode(w)
  PROVE  UsesInv'
  <1>. DEFINE n == Len(code) + 1
  <1>0. code \in Seq(Code) /\ NoCode \notin DOMAIN code'
    BY DEF WellFormed, TypeOK, NoCode, InsertCode
  <1>1. FreshCode \in Code /\ FreshCode.used = 0
    BY DEF FreshCode, Code
  <1>2. /\ n \notin DOMAIN code
        /\ DOMAIN code' = DOMAIN code \cup {n}
        /\ code'[n].used = 0
        /\ \A k \in DOMAIN code : code'[k] = code[k]
    BY <1>0, <1>1, RowInserted DEF InsertCode
  <1>3. /\ req'[w] = Idle
        /\ \A v \in Worker \ {w} : req'[v] = req[v]
    BY DEF InsertCode, Goto, WellFormed, TypeOK
  <1>4. \A v \in Worker : Registers(v) /\ req[v].locked # NoCode =>
          req[v].locked \in DOMAIN code
    BY DEF WellFormed, Refers, Registers
  <1>5. LockInv'
    <2>1. \A v \in Worker : Registers(v)' => v # w
      BY <1>3, IdleIsRequest DEF Registers
    <2>2. \A k \in DOMAIN code' : \A v \in Worker :
            Holds(v, k)' => Holds(v, k) /\ k \in DOMAIN code
      BY <1>0, <1>3, <1>4, <2>1 DEF Holds, Registers
    <2>3. \A v \in Worker : Registers(v) /\ req[v].counts =>
            req[v].locked \in DOMAIN code
      BY DEF WellFormed, Refers, Registers
    <2>. QED  BY <1>2, <1>3, <2>1, <2>2, <2>3 DEF UsesInv, LockInv, Registers
  <1>6. MadeWithRows'
    BY <1>2 DEF UsesInv, MadeWithRows, InsertCode
  <1>7. ASSUME NEW k \in DOMAIN code'
        PROVE  /\ code'[k].used = Cardinality(MadeWith(k)')
               /\ MaxUses > 0 => code'[k].used <= MaxUses
    <2>1. CASE k \in DOMAIN code
      <3>1. MadeWith(k)' = MadeWith(k)
        BY DEF MadeWith, InsertCode
      <3>. QED  BY <1>2, <2>1, <3>1 DEF UsesInv, UsesAreAccounts
    <2>2. CASE k \notin DOMAIN code
      <3>1. MadeWith(k)' = {}
        BY <1>0, <2>2 DEF UsesInv, MadeWithRows, MadeWith, InsertCode
      <3>2. code'[k].used = 0
        BY <1>2, <2>2
      <3>. QED  BY <3>1, <3>2, FS_EmptySet, BoundsAreNumbers
    <2>. QED  BY <2>1, <2>2
  <1>8. UsesAreAccounts'
    BY <1>7 DEF UsesAreAccounts
  <1>. QED  BY <1>5, <1>6, <1>8 DEF UsesInv

LEMMA UsesInit == Init => UsesInv
  <1>. SUFFICES ASSUME Init PROVE UsesInv
    OBVIOUS
  <1>1. /\ \A a \in DOMAIN account : account[a].code = NoCode
        /\ \A k \in DOMAIN code : code[k].used = 0
    BY DEF Init, FreshCode
  <1>2. NoCode \notin DOMAIN code
    BY DEF Init, NoCode
  <1>3. \A k \in DOMAIN code : MadeWith(k) = {}
    BY <1>1, <1>2 DEF MadeWith
  <1>4. LockInv
    BY IdleIsRequest DEF Init, LockInv, Holds, Registers
  <1>. QED  BY <1>1, <1>3, <1>4, FS_EmptySet, BoundsAreNumbers
            DEF UsesInv, MadeWithRows, UsesAreAccounts

\* One step per action; all but three are NothingUsed.
LEMMA UsesStep == WellFormed /\ UsesInv /\ [Next]_vars => UsesInv'
  <1>. SUFFICES ASSUME WellFormed, UsesInv, [Next]_vars PROVE UsesInv'
    OBVIOUS
  <1>. USE IdleIsRequest
  <1>0. /\ account \in Seq(Account) /\ code \in Seq(Code)
        /\ req \in [Worker -> Request]
        /\ \A w \in Worker : req[w] \in Request /\ Refers(w)
    BY DEF WellFormed, TypeOK
  <1>1. ASSUME NEW w \in Worker, NEW e \in Email, Register(w, e)
        PROVE  UsesInv'
    <2>1. PICK r \in {[pc |-> "code", email |-> e],
                      Registration(e, NoCode, FALSE, 0)} : Goto(w, r)
      BY <1>1 DEF Register
    <2>2. /\ req'[w] = r
          /\ \A v \in Worker \ {w} : req'[v] = req[v]
      BY <1>0, <2>1 DEF Goto
    <2>3. CodesKept /\ UsesKept
      BY <1>1 DEF Register, CodesKept, UsesKept
    <2>4. \/ r.pc = "code"
          \/ r.locked = NoCode /\ r.counts = FALSE
      BY DEF Registration
    <2>. QED  BY <2>2, <2>3, <2>4, NothingUsed
  <1>2. ASSUME NEW w \in Worker, CodeRefused(w)
        PROVE  UsesInv'
    <2>1. PICK k \in Found \cup {NoCode} :
            /\ k # NoCode => MayRead(w)
            /\ Goto(w, IF summit THEN Idle
                              ELSE Registration(req[w].email, k, FALSE, 0))
      BY <1>2 DEF CodeRefused
    <2>2. CodesKept /\ UsesKept /\ UNCHANGED <<account, code>>
      BY <1>2 DEF CodeRefused, CodesKept, UsesKept
    <2>3. CASE summit \/ k = NoCode
      <3>1. PICK r \in {Idle, Registration(req[w].email, NoCode, FALSE, 0)} :
              Goto(w, r)
        BY <2>1, <2>3
      <3>2. /\ req'[w] = r
            /\ \A v \in Worker \ {w} : req'[v] = req[v]
        BY <1>0, <3>1 DEF Goto
      <3>3. \/ r.pc = "idle"
            \/ r.locked = NoCode /\ r.counts = FALSE
        BY DEF Registration
      <3>. QED  BY <2>2, <3>2, <3>3, NothingUsed
    <2>4. CASE ~summit /\ k # NoCode
      <3>1. k \in DOMAIN code /\ Unlocked(k) /\ k \in Nat
        BY <1>0, <2>1, <2>4 DEF Found, MayRead
      <3>2. req[w].email \in Email
        BY <1>0, <1>2, Fields DEF CodeRefused, MayRead, At
      <3>3. Registration(req[w].email, k, FALSE, 0) \in Request
        BY <3>1, <3>2 DEF Registration, Request
      <3>. QED  BY <2>1, <2>2, <2>4, <3>1, <3>3, RowLocked DEF Registration
    <2>. QED  BY <2>3, <2>4
  <1>3. ASSUME NEW w \in Worker, CodeTaken(w)
        PROVE  UsesInv'
    <2>1. PICK k \in Found :
            /\ Usable(k) /\ Unlocked(k)
            /\ Goto(w, Registration(req[w].email, k, TRUE, code[k].used))
      BY <1>3 DEF CodeTaken, MayRead
    <2>2. k \in DOMAIN code /\ k \in Nat
      BY <1>0 DEF Found
    <2>3. code[k].used \in Nat
      <3>1. code[k] \in Code
        BY <1>0, <2>2
      <3>. QED  BY <3>1 DEF Code
    <2>4. req[w].email \in Email
      BY <1>0, <1>3, Fields DEF CodeTaken, MayRead, At
    <2>5. Registration(req[w].email, k, TRUE, code[k].used) \in Request
      BY <2>2, <2>3, <2>4 DEF Registration, Request
    <2>. QED  BY <1>3, <2>1, <2>2, <2>5, RowLocked DEF Registration, CodeTaken
  <1>4. ASSUME NEW w \in Worker,
               \/ CodeAmbiguous(w) \/ Refuse(w) \/ InsertRefused(w) \/ Crash(w)
        PROVE  UsesInv'
    <2>1. Goto(w, Idle) /\ UNCHANGED <<account, code>>
      BY <1>4 DEF CodeAmbiguous, Refuse, InsertRefused, Crash
    <2>2. /\ req'[w] = Idle
          /\ \A v \in Worker \ {w} : req'[v] = req[v]
      BY <1>0, <2>1 DEF Goto
    <2>. QED  BY <2>1, <2>2, NothingUsed DEF CodesKept, UsesKept
  <1>5. ASSUME NEW w \in Worker, Lookup(w)
        PROVE  UsesInv'
    <2>1. req[w].pc = "lookup"
      BY <1>5 DEF Lookup, At
    <2>2. /\ req'[w] = [req[w] EXCEPT !.pc = "insert"]
          /\ \A v \in Worker \ {w} : req'[v] = req[v]
      BY <1>0, <1>5 DEF Lookup, Goto
    <2>3. /\ req'[w].pc = "insert" /\ req'[w].locked = req[w].locked
          /\ req'[w].counts = req[w].counts /\ req'[w].seen = req[w].seen
      BY <1>0, <2>1, <2>2, Fields
    <2>4. CodesKept /\ UsesKept
      BY <1>5 DEF Lookup, CodesKept, UsesKept
    <2>. QED  BY <2>1, <2>2, <2>3, <2>4, NothingUsed DEF Registers
  <1>6. ASSUME NEW w \in Worker, Insert(w)
        PROVE  UsesInv'
    BY <1>6, UseWritten
  <1>7. ASSUME NEW w \in Worker, Sync(w)
        PROVE  UsesInv'
    <2>1. req[w].account \in DOMAIN account
      BY <1>0, <1>7 DEF Sync, At, Refers
    <2>2. CodesKept
      BY <1>0, <1>7, <2>1, Promotes DEF Sync, CodesKept
    <2>3. /\ req'[w] = Idle
          /\ \A v \in Worker \ {w} : req'[v] = req[v]
      BY <1>0, <1>7 DEF Sync, Goto
    <2>. QED  BY <1>7, <2>2, <2>3, NothingUsed DEF Sync, UsesKept
  <1>8. ASSUME NEW a \in DOMAIN account, Login(a)
        PROVE  UsesInv'
    <2>1. CodesKept
      BY <1>0, <1>8, Promotes DEF Login, CodesKept
    <2>. QED  BY <1>8, <2>1, NothingUsed DEF Login, UsesKept
  <1>9. ASSUME NEW w \in Worker, NEW a \in DOMAIN account,
               DeleteUser(w, a) \/ RejectUser(w, a)
        PROVE  UsesInv'
    <2>1. /\ Goto(w, [pc |-> "remove", account |-> a])
          /\ UNCHANGED <<account, code>>
      BY <1>9 DEF DeleteUser, RejectUser, StartRemoval
    <2>2. /\ req'[w].pc = "remove"
          /\ \A v \in Worker \ {w} : req'[v] = req[v]
      BY <1>0, <2>1 DEF Goto
    <2>. QED  BY <2>1, <2>2, NothingUsed DEF CodesKept, UsesKept
  <1>10. ASSUME NEW w \in Worker, DeleteRow(w)
         PROVE  UsesInv'
    <2>1. req[w].account \in DOMAIN account
      BY <1>0, <1>10 DEF DeleteRow, At, Refers
    <2>2. CodesKept
      BY <1>0, <1>10, <2>1, Deletes DEF DeleteRow, CodesKept
    <2>3. /\ req'[w] = Idle
          /\ \A v \in Worker \ {w} : req'[v] = req[v]
      BY <1>0, <1>10 DEF DeleteRow, Goto
    <2>. QED  BY <1>10, <2>2, <2>3, NothingUsed DEF DeleteRow, UsesKept
  <1>11. ASSUME NEW w \in Worker, CreateCode(w)
         PROVE  UsesInv'
    <2>1. /\ req'[w].pc = "newcode"
          /\ \A v \in Worker \ {w} : req'[v] = req[v]
      BY <1>0, <1>11 DEF CreateCode, Goto
    <2>. QED  BY <1>11, <2>1, NothingUsed DEF CreateCode, CodesKept, UsesKept
  <1>12. ASSUME NEW w \in Worker, InsertCode(w)
         PROVE  UsesInv'
    BY <1>12, RowMade
  <1>13. ASSUME NEW w \in Worker, NEW k \in DOMAIN code, ToggleCode(w, k)
         PROVE  UsesInv'
    <2>1. /\ req'[w].pc = "toggle"
          /\ \A v \in Worker \ {w} : req'[v] = req[v]
      BY <1>0, <1>13 DEF ToggleCode, Goto
    <2>. QED  BY <1>13, <2>1, NothingUsed DEF ToggleCode, CodesKept, UsesKept
  <1>14. ASSUME NEW w \in Worker, WriteToggle(w)
         PROVE  UsesInv'
    <2>1. req[w].code \in DOMAIN code /\ req[w].active \in BOOLEAN
      BY <1>0, <1>14, Fields DEF WriteToggle, At, Refers
    <2>2. /\ [code[req[w].code] EXCEPT !.active = req[w].active] \in Code
          /\ [code[req[w].code] EXCEPT !.active = req[w].active].used
               = code[req[w].code].used
      <3>1. code[req[w].code] \in Code
        BY <1>0, <2>1
      <3>. QED  BY <2>1, <3>1 DEF Code
    <2>3. UsesKept
      BY <1>0, <1>14, <2>1, <2>2, RowChanged DEF WriteToggle, UsesKept
    <2>4. /\ req'[w] = Idle
          /\ \A v \in Worker \ {w} : req'[v] = req[v]
      BY <1>0, <1>14 DEF WriteToggle, Goto
    <2>. QED  BY <1>14, <2>3, <2>4, NothingUsed DEF WriteToggle, CodesKept
  <1>15. ASSUME NEW k \in DOMAIN code, Expire(k)
         PROVE  UsesInv'
    <2>1. /\ [code[k] EXCEPT !.expired = TRUE] \in Code
          /\ [code[k] EXCEPT !.expired = TRUE].used = code[k].used
      <3>1. code[k] \in Code
        BY <1>0
      <3>. QED  BY <3>1 DEF Code
    <2>2. UsesKept
      BY <1>0, <1>15, <2>1, RowChanged DEF Expire, UsesKept
    <2>. QED  BY <1>15, <2>2, NothingUsed DEF Expire, CodesKept
  <1>16. CASE UNCHANGED vars
    BY <1>16, NothingUsed DEF vars, CodesKept, UsesKept
  <1>. QED
    BY <1>1, <1>2, <1>3, <1>4, <1>5, <1>6, <1>7, <1>8, <1>9, <1>10, <1>11,
       <1>12, <1>13, <1>14, <1>15, <1>16 DEF Next, Wait, Advance

\* The uses of a row are the accounts made with it, and not more than max_uses,
\* for any number of workers, rows and accounts.
THEOREM UsesCounted == Spec => []UsesAreAccounts
  <1>1. Spec => []UsesInv
    BY UsesInit, UsesStep, StaysWellFormed, PTL DEF Spec
  <1>2. UsesInv => UsesAreAccounts
    BY DEF UsesInv
  <1>. QED  BY <1>1, <1>2, PTL

-----------------------------------------------------------------------------
\* The gate of Summit mode.  A registration that got past the code has it, or
\* is one of an address that needs none.
GateInv ==
  summit => /\ \A a \in DOMAIN account :
                 account[a].code = NoCode => account[a].email \in AdminEmail
            /\ \A w \in Worker :
                 Registers(w) => \/ req[w].counts
                                 \/ req[w].email \in AdminEmail

\* A step that makes no account and no registration pass the code.
LEMMA NobodyPasses ==
  ASSUME GateInv, UNCHANGED summit, CodesKept,
         \A a \in DOMAIN account : account'[a].email = account[a].email,
         \A v \in Worker : Registers(v)' =>
           /\ Registers(v)
           /\ req'[v].counts = req[v].counts
           /\ req'[v].email = req[v].email
  PROVE  GateInv'
  BY DEF GateInv, CodesKept

\* One step per action that registers; the others are NobodyPasses.
LEMMA GateStep == WellFormed /\ GateInv /\ [Next]_vars => GateInv'
  <1>. SUFFICES ASSUME WellFormed, GateInv, [Next]_vars PROVE GateInv'
    OBVIOUS
  <1>. USE IdleIsRequest
  <1>0. /\ account \in Seq(Account) /\ req \in [Worker -> Request]
        /\ \A w \in Worker : req[w] \in Request /\ Refers(w)
    BY DEF WellFormed, TypeOK
  <1>1. ASSUME NEW w \in Worker, NEW e \in Email, Register(w, e)
        PROVE  GateInv'
    <2>1. PICK r \in {[pc |-> "code", email |-> e],
                      Registration(e, NoCode, FALSE, 0)} :
            /\ Goto(w, r)
            /\ summit => r.pc = "code" \/ e \in AdminEmail
      BY <1>1 DEF Register
    <2>2. /\ r.email = e
          /\ req'[w] = r
          /\ \A v \in Worker \ {w} : req'[v] = req[v]
      BY <1>0, <2>1 DEF Goto, Registration
    <2>. QED  BY <1>1, <2>1, <2>2 DEF Register, GateInv, Registers
  <1>2. ASSUME NEW w \in Worker, CodeRefused(w)
        PROVE  GateInv'
    <2>1. CASE summit
      <3>1. Goto(w, Idle)
        BY <1>2, <2>1 DEF CodeRefused
      <3>2. /\ req'[w] = Idle
            /\ \A v \in Worker \ {w} : req'[v] = req[v]
        BY <1>0, <3>1 DEF Goto
      <3>. QED  BY <1>2, <3>2 DEF CodeRefused, GateInv, Registers
    <2>2. CASE ~summit
      BY <1>2, <2>2 DEF CodeRefused, GateInv
    <2>. QED  BY <2>1, <2>2
  <1>3. ASSUME NEW w \in Worker, CodeTaken(w)
        PROVE  GateInv'
    <2>1. PICK k \in Found :
            Goto(w, Registration(req[w].email, k, TRUE, code[k].used))
      BY <1>3 DEF CodeTaken
    <2>2. /\ req'[w].counts = TRUE
          /\ \A v \in Worker \ {w} : req'[v] = req[v]
      BY <1>0, <2>1 DEF Goto, Registration
    <2>. QED  BY <1>3, <2>2 DEF CodeTaken, GateInv, Registers
  <1>4. ASSUME NEW w \in Worker, Lookup(w)
        PROVE  GateInv'
    <2>1. req[w].pc = "lookup"
      BY <1>4 DEF Lookup, At
    <2>2. /\ req'[w] = [req[w] EXCEPT !.pc = "insert"]
          /\ \A v \in Worker \ {w} : req'[v] = req[v]
      BY <1>0, <1>4 DEF Lookup, Goto
    <2>3. req'[w].counts = req[w].counts /\ req'[w].email = req[w].email
      BY <1>0, <2>1, <2>2, Fields
    <2>. QED  BY <1>4, <2>1, <2>2, <2>3, NobodyPasses
              DEF Lookup, Registers, CodesKept
  <1>5. ASSUME NEW w \in Worker, Insert(w)
        PROVE  GateInv'
    <2>1. /\ Registers(w) /\ req[w].email \in Email
          /\ req[w].locked \in Nat
          /\ req[w].counts => req[w].locked # NoCode
      BY <1>0, <1>5, Fields DEF Insert, At, Registers, Refers
    <2>2. NewAccount(req[w]) \in Account
      BY <2>1 DEF NewAccount, Account, NoCode
    <2>3. /\ DOMAIN account' = DOMAIN account \cup {Len(account) + 1}
          /\ account'[Len(account) + 1] = NewAccount(req[w])
          /\ \A a \in DOMAIN account : account'[a] = account[a]
      BY <1>0, <1>5, <2>2, RowInserted DEF Insert
    <2>4. /\ req'[w].pc = "sync"
          /\ \A v \in Worker \ {w} : req'[v] = req[v]
      BY <1>0, <1>5 DEF Insert, Goto
    <2>5. /\ NewAccount(req[w]).email = req[w].email
          /\ NewAccount(req[w]).code = NoCode => ~req[w].counts
      BY <2>1 DEF NewAccount
    <2>. QED  BY <1>5, <2>1, <2>3, <2>4, <2>5 DEF Insert, GateInv, Registers
  <1>6. ASSUME NEW w \in Worker, Sync(w) \/ DeleteRow(w)
        PROVE  GateInv'
    <2>1. req[w].account \in DOMAIN account
      BY <1>0, <1>6 DEF Sync, DeleteRow, At, Refers
    <2>2. /\ CodesKept
          /\ \A a \in DOMAIN account : account'[a].email = account[a].email
      <3>1. CASE Sync(w)
        BY <1>0, <2>1, <3>1, Promotes DEF Sync, CodesKept
      <3>2. CASE DeleteRow(w)
        BY <1>0, <2>1, <3>2, Deletes DEF DeleteRow, CodesKept
      <3>. QED  BY <1>6, <3>1, <3>2
    <2>3. /\ req'[w] = Idle
          /\ \A v \in Worker \ {w} : req'[v] = req[v]
      BY <1>0, <1>6 DEF Sync, DeleteRow, Goto
    <2>. QED  BY <1>6, <2>2, <2>3, NobodyPasses DEF Sync, DeleteRow, Registers
  <1>7. ASSUME NEW a \in DOMAIN account, Login(a)
        PROVE  GateInv'
    <2>1. /\ CodesKept
          /\ \A b \in DOMAIN account : account'[b].email = account[b].email
      BY <1>0, <1>7, Promotes DEF Login, CodesKept
    <2>. QED  BY <1>7, <2>1, NobodyPasses DEF Login, Registers
  <1>8. ASSUME NEW w \in Worker, NEW r, r.pc \notin {"lookup", "insert"},
               Goto(w, r), UNCHANGED <<summit, account>>
        PROVE  GateInv'
    <2>1. /\ req'[w] = r
          /\ \A v \in Worker \ {w} : req'[v] = req[v]
      BY <1>0, <1>8 DEF Goto
    <2>. QED  BY <1>8, <2>1, NobodyPasses DEF Registers, CodesKept
  <1>9. ASSUME NEW w \in Worker,
               \/ CodeAmbiguous(w) \/ Refuse(w) \/ InsertRefused(w) \/ Crash(w)
               \/ InsertCode(w) \/ WriteToggle(w) \/ CreateCode(w)
               \/ \E a \in DOMAIN account : DeleteUser(w, a) \/ RejectUser(w, a)
               \/ \E k \in DOMAIN code : ToggleCode(w, k)
        PROVE  GateInv'
    <2>1. /\ UNCHANGED <<summit, account>>
          /\ \/ Goto(w, Idle)
             \/ Goto(w, [pc |-> "newcode"])
             \/ \E a \in DOMAIN account :
                  Goto(w, [pc |-> "remove", account |-> a])
             \/ \E k \in DOMAIN code : \E b \in BOOLEAN :
                  Goto(w, [pc |-> "toggle", code |-> k, active |-> b])
      BY <1>9 DEF CodeAmbiguous, Refuse, InsertRefused, Crash, InsertCode,
                  WriteToggle, CreateCode, DeleteUser, RejectUser, ToggleCode,
                  StartRemoval
    <2>. QED  BY <1>8, <2>1
  <1>10. ASSUME NEW k \in DOMAIN code, Expire(k)
         PROVE  GateInv'
    BY <1>10, NobodyPasses DEF Expire, Registers, CodesKept
  <1>11. CASE UNCHANGED vars
    BY <1>11, NobodyPasses DEF vars, Registers, CodesKept
  <1>. QED
    BY <1>1, <1>2, <1>3, <1>4, <1>5, <1>6, <1>7, <1>9, <1>10, <1>11
    DEF Next, Wait, Advance

\* In Summit mode only the addresses of ADMIN_EMAILS get an account without a
\* use of the code, for any number of workers, rows and accounts.
THEOREM GateHolds == Spec => []AccountsPassTheGate
  <1>1. Init => GateInv
    BY IdleIsRequest DEF Init, GateInv, Registers
  <1>2. Spec => []GateInv
    BY <1>1, GateStep, StaysWellFormed, PTL DEF Spec
  <1>3. GateInv => AccountsPassTheGate
    BY DEF GateInv, AccountsPassTheGate
  <1>. QED  BY <1>2, <1>3, PTL

-----------------------------------------------------------------------------
\* The admins.  Until removals race, one is left that no removal under way is
\* about to delete.
SpareAdmin == \E a \in Admins : \A w \in Removing : req[w].account # a
AdminInv == raced \/ SpareAdmin

\* A step that starts no removal and leaves the admins their role.
LEMMA NobodyRemoved ==
  ASSUME AdminInv, raced => raced',
         \A a \in Admins : a \in Admins',
         \A w \in Worker : At(w, "remove")' => req'[w] = req[w]
  PROVE  AdminInv'
  BY DEF AdminInv, SpareAdmin, Removing, At

\* A removal that passed its check.
LEMMA RemovalStarts ==
  ASSUME WellFormed, AdminInv, UNCHANGED account, raced => raced',
         NEW w \in Worker, NEW a \in DOMAIN account, StartRemoval(w, a),
         \/ raced'
         \/ a \notin Admins
         \/ ~AnotherAdminGoes(a) /\ \E b \in Admins : b # a
  PROVE  AdminInv'
  <1>1. /\ req'[w].account = a
        /\ \A v \in Worker \ {w} : req'[v] = req[v]
    BY DEF StartRemoval, Goto, WellFormed, TypeOK
  <1>2. Admins' = Admins
    BY DEF Admins
  <1>3. CASE raced \/ raced'
    BY <1>3 DEF AdminInv
  <1>4. CASE ~raced /\ a \notin Admins
    BY <1>1, <1>2, <1>4 DEF AdminInv, SpareAdmin, Removing, At
  <1>5. CASE ~AnotherAdminGoes(a) /\ \E b \in Admins : b # a
    BY <1>1, <1>2, <1>5 DEF AdminInv, SpareAdmin, AnotherAdminGoes, Removing, At
  <1>. QED  BY <1>3, <1>4, <1>5

\* One step per action that makes, promotes or removes; the others are
\* NobodyRemoved.
LEMMA AdminStep == WellFormed /\ AdminInv /\ [Next]_vars => AdminInv'
  <1>. SUFFICES ASSUME WellFormed, AdminInv, [Next]_vars PROVE AdminInv'
    OBVIOUS
  <1>. USE IdleIsRequest
  <1>0. /\ account \in Seq(Account) /\ req \in [Worker -> Request]
        /\ \A w \in Worker : req[w] \in Request /\ Refers(w)
    BY DEF WellFormed, TypeOK
  <1>1. ASSUME NEW w \in Worker, Insert(w)
        PROVE  AdminInv'
    <2>1. /\ req[w].email \in Email /\ req[w].locked \in Nat
      BY <1>0, <1>1, Fields DEF Insert, At
    <2>2. NewAccount(req[w]) \in Account
      BY <2>1 DEF NewAccount, Account, NoCode
    <2>3. \A a \in Admins : a \in Admins'
      BY <1>0, <1>1, <2>2, RowInserted DEF Insert, Admins
    <2>4. /\ req'[w].pc = "sync"
          /\ \A v \in Worker \ {w} : req'[v] = req[v]
      BY <1>0, <1>1 DEF Insert, Goto
    <2>. QED  BY <1>1, <2>3, <2>4, NobodyRemoved DEF Insert, At
  <1>2. ASSUME NEW w \in Worker, Sync(w)
        PROVE  AdminInv'
    <2>1. req[w].account \in DOMAIN account
      BY <1>0, <1>2 DEF Sync, At, Refers
    <2>2. \A a \in Admins : a \in Admins'
      BY <1>0, <1>2, <2>1, Promotes DEF Sync, Admins
    <2>3. /\ req'[w] = Idle
          /\ \A v \in Worker \ {w} : req'[v] = req[v]
      BY <1>0, <1>2 DEF Sync, Goto
    <2>. QED  BY <1>2, <2>2, <2>3, NobodyRemoved DEF Sync, At
  <1>3. ASSUME NEW a \in DOMAIN account, Login(a)
        PROVE  AdminInv'
    <2>1. \A b \in Admins : b \in Admins'
      BY <1>0, <1>3, Promotes DEF Login, Admins
    <2>. QED  BY <1>3, <2>1, NobodyRemoved DEF Login
  <1>4. ASSUME NEW w \in Worker, NEW a \in DOMAIN account, DeleteUser(w, a)
        PROVE  AdminInv'
    <2>1. a \in Admins => \E b \in Admins : b # a
      <3>1. SUFFICES ASSUME a \in Admins, Admins = {a} PROVE FALSE
        OBVIOUS
      <3>2. Cardinality(Admins) = 1
        BY <3>1, FS_Singleton
      <3>. QED  BY <1>4, <3>1, <3>2 DEF DeleteUser, Admins
    <2>2. a \in Admins /\ AnotherAdminGoes(a) => raced'
      BY <1>4 DEF DeleteUser
    <2>. QED  BY <1>4, <2>1, <2>2, RemovalStarts DEF DeleteUser
  <1>5. ASSUME NEW w \in Worker, NEW a \in DOMAIN account, RejectUser(w, a)
        PROVE  AdminInv'
    BY <1>5, RemovalStarts DEF RejectUser
  <1>6. ASSUME NEW w \in Worker, DeleteRow(w)
        PROVE  AdminInv'
    <2>1. req[w].account \in DOMAIN account /\ w \in Removing
      BY <1>0, <1>6 DEF DeleteRow, At, Refers, Removing
    <2>2. \A a \in Admins \ {req[w].account} : a \in Admins'
      BY <1>0, <1>6, <2>1, Deletes DEF DeleteRow, Admins
    <2>3. /\ req'[w] = Idle
          /\ \A v \in Worker \ {w} : req'[v] = req[v]
      BY <1>0, <1>6 DEF DeleteRow, Goto
    <2>. QED  BY <1>6, <2>1, <2>2, <2>3
              DEF AdminInv, SpareAdmin, DeleteRow, Removing, At
  <1>7. ASSUME NEW w \in Worker, NEW r, r.pc # "remove", Goto(w, r),
               UNCHANGED <<account, raced>>
        PROVE  AdminInv'
    <2>1. /\ req'[w] = r
          /\ \A v \in Worker \ {w} : req'[v] = req[v]
      BY <1>0, <1>7 DEF Goto
    <2>. QED  BY <1>7, <2>1, NobodyRemoved DEF Admins, At
  <1>8. ASSUME NEW w \in Worker,
               \/ CodeAmbiguous(w) \/ Refuse(w) \/ InsertRefused(w) \/ Crash(w)
               \/ InsertCode(w) \/ WriteToggle(w) \/ CreateCode(w)
               \/ \E k \in DOMAIN code : ToggleCode(w, k)
               \/ CodeRefused(w) \/ CodeTaken(w)
               \/ \E e \in Email : Register(w, e)
        PROVE  AdminInv'
    <2>1. /\ UNCHANGED <<account, raced>>
          /\ \E r : r.pc # "remove" /\ Goto(w, r)
      BY <1>8 DEF CodeAmbiguous, Refuse, InsertRefused, Crash, InsertCode,
                  WriteToggle, CreateCode, ToggleCode, CodeRefused, CodeTaken,
                  Register, Registration
    <2>. QED  BY <1>7, <2>1
  <1>9. ASSUME NEW w \in Worker, Lookup(w)
        PROVE  AdminInv'
    <2>1. [req[w] EXCEPT !.pc = "insert"].pc = "insert"
      BY <1>0, <1>9, Fields DEF Lookup, At
    <2>. QED  BY <1>7, <1>9, <2>1 DEF Lookup
  <1>10. CASE UNCHANGED vars \/ \E k \in DOMAIN code : Expire(k)
    BY <1>10, NobodyRemoved DEF vars, Expire, Admins, At
  <1>. QED
    BY <1>1, <1>2, <1>3, <1>4, <1>5, <1>6, <1>8, <1>9, <1>10
    DEF Next, Wait, Advance

\* An admin is left until a removal races that of another admin, or an admin's
\* account is rejected, for any number of workers and accounts.
THEOREM AdminLeft == Spec => []AnAdminStays
  <1>1. Init => AdminInv
    BY IdleIsRequest DEF Init, AdminInv, SpareAdmin, Admins, Removing, At
  <1>2. Spec => []AdminInv
    BY <1>1, AdminStep, StaysWellFormed, PTL DEF Spec
  <1>3. AdminInv => AnAdminStays
    BY DEF AdminInv, SpareAdmin, AnAdminStays
  <1>. QED  BY <1>2, <1>3, PTL

-----------------------------------------------------------------------------
\* Configured addresses.  ConfiguredAreAdmins is inductive on well-formed
\* states: only Insert makes a row that lacks the role, and its worker goes on
\* to the sync.
LEMMA NobodyLacks ==
  ASSUME ConfiguredAreAdmins, DOMAIN account' = DOMAIN account,
         \A a \in DOMAIN account : Lacks(a)' => Lacks(a) /\ (a \in cut => a \in cut'),
         \A w \in Worker : At(w, "sync") =>
           \/ req'[w] = req[w]
           \/ \A a \in DOMAIN account :
                req[w].account = a /\ Lacks(a)' => a \in cut'
  PROVE  ConfiguredAreAdmins'
  BY DEF ConfiguredAreAdmins, At

LEMMA ConfiguredStep ==
  WellFormed /\ ConfiguredAreAdmins /\ [Next]_vars => ConfiguredAreAdmins'
  <1>. SUFFICES ASSUME WellFormed, ConfiguredAreAdmins, [Next]_vars
                PROVE  ConfiguredAreAdmins'
    OBVIOUS
  <1>. USE IdleIsRequest
  <1>0. /\ account \in Seq(Account) /\ req \in [Worker -> Request]
        /\ \A w \in Worker : req[w] \in Request /\ Refers(w)
    BY DEF WellFormed, TypeOK
  <1>1. ASSUME NEW w \in Worker, Insert(w)
        PROVE  ConfiguredAreAdmins'
    <2>1. req[w].pc = "insert" /\ req[w].email \in Email /\ req[w].locked \in Nat
      BY <1>0, <1>1, Fields DEF Insert, At
    <2>2. NewAccount(req[w]) \in Account
      BY <2>1 DEF NewAccount, Account, NoCode
    <2>3. /\ DOMAIN account' = DOMAIN account \cup {Len(account) + 1}
          /\ \A a \in DOMAIN account : account'[a] = account[a]
      BY <1>0, <1>1, <2>2, RowInserted DEF Insert
    <2>4. /\ req'[w].pc = "sync" /\ req'[w].account = Len(account) + 1
          /\ \A v \in Worker \ {w} : req'[v] = req[v]
      BY <1>0, <1>1 DEF Insert, Goto
    <2>5. ASSUME NEW a \in DOMAIN account', Lacks(a)'
          PROVE  a \in cut' \/ \E v \in Worker : At(v, "sync")' /\ req'[v].account = a
      <3>1. CASE a = Len(account) + 1
        BY <2>4, <3>1 DEF At
      <3>2. CASE a \in DOMAIN account
        <4>1. Lacks(a)
          BY <2>3, <2>5, <3>2 DEF Lacks
        <4>. QED  BY <1>1, <2>1, <2>4, <3>2, <4>1
                  DEF ConfiguredAreAdmins, Insert, At
      <3>. QED  BY <2>3, <3>1, <3>2
    <2>. QED  BY <2>5 DEF ConfiguredAreAdmins
  <1>2. ASSUME NEW w \in Worker, Sync(w)
        PROVE  ConfiguredAreAdmins'
    <2>1. req[w].account \in DOMAIN account
      BY <1>0, <1>2 DEF Sync, At, Refers
    <2>2. /\ DOMAIN account' = DOMAIN account
          /\ \A a \in DOMAIN account : Lacks(a)' => Lacks(a) /\ a # req[w].account
      BY <1>0, <1>2, <2>1, Promotes DEF Sync, Lacks
    <2>3. \A v \in Worker \ {w} : req'[v] = req[v]
      BY <1>0, <1>2 DEF Sync, Goto
    <2>. QED  BY <1>2, <2>1, <2>2, <2>3, NobodyLacks DEF Sync
  <1>3. ASSUME NEW a \in DOMAIN account, Login(a)
        PROVE  ConfiguredAreAdmins'
    <2>1. /\ DOMAIN account' = DOMAIN account
          /\ \A b \in DOMAIN account : Lacks(b)' => Lacks(b) /\ b # a
      BY <1>0, <1>3, Promotes DEF Login, Lacks
    <2>. QED  BY <1>3, <2>1, NobodyLacks DEF Login
  <1>4. ASSUME NEW w \in Worker, DeleteRow(w)
        PROVE  ConfiguredAreAdmins'
    <2>1. req[w].account \in DOMAIN account
      BY <1>0, <1>4 DEF DeleteRow, At, Refers
    <2>2. /\ DOMAIN account' = DOMAIN account
          /\ \A b \in DOMAIN account : Lacks(b)' => Lacks(b) /\ b # req[w].account
      BY <1>0, <1>4, <2>1, Deletes DEF DeleteRow, Lacks
    <2>3. \A v \in Worker \ {w} : req'[v] = req[v]
      BY <1>0, <1>4 DEF DeleteRow, Goto
    <2>. QED  BY <1>4, <2>2, <2>3, NobodyLacks DEF DeleteRow, At
  <1>5. ASSUME NEW w \in Worker, Crash(w)
        PROVE  ConfiguredAreAdmins'
    <2>1. \A v \in Worker \ {w} : req'[v] = req[v]
      BY <1>0, <1>5 DEF Crash, Goto
    <2>2. /\ \A a \in DOMAIN account : Lacks(a)' => Lacks(a)
          /\ \A a \in DOMAIN account :
               At(w, "sync") /\ req[w].account = a /\ Lacks(a)' => a \in cut'
          /\ cut \subseteq cut' /\ account' = account
      BY <1>5 DEF Crash, Lacks
    <2>. QED  BY <2>1, <2>2, NobodyLacks
  <1>6. ASSUME NEW w \in Worker, ~At(w, "sync"), NEW r, Goto(w, r),
               UNCHANGED <<account, cut>>
        PROVE  ConfiguredAreAdmins'
    <2>1. \A v \in Worker \ {w} : req'[v] = req[v]
      BY <1>0, <1>6 DEF Goto
    <2>. QED  BY <1>6, <2>1, NobodyLacks DEF Lacks
  <1>7. ASSUME NEW w \in Worker,
               \/ CodeAmbiguous(w) \/ Refuse(w) \/ InsertRefused(w) \/ Lookup(w)
               \/ InsertCode(w) \/ WriteToggle(w) \/ CreateCode(w)
               \/ \E k \in DOMAIN code : ToggleCode(w, k)
               \/ CodeRefused(w) \/ CodeTaken(w)
               \/ \E e \in Email : Register(w, e)
               \/ \E a \in DOMAIN account : DeleteUser(w, a) \/ RejectUser(w, a)
        PROVE  ConfiguredAreAdmins'
    <2>1. /\ UNCHANGED <<account, cut>> /\ ~At(w, "sync")
          /\ \E r : Goto(w, r)
      BY <1>7 DEF CodeAmbiguous, Refuse, InsertRefused, Lookup, InsertCode,
                  WriteToggle, CreateCode, ToggleCode, CodeRefused, CodeTaken,
                  MayRead, Register, DeleteUser, RejectUser, StartRemoval, At
    <2>. QED  BY <1>6, <2>1
  <1>8. CASE UNCHANGED vars \/ \E k \in DOMAIN code : Expire(k)
    BY <1>8, NobodyLacks DEF vars, Expire, Lacks
  <1>. QED
    BY <1>1, <1>2, <1>3, <1>4, <1>5, <1>7, <1>8 DEF Next, Wait, Advance

\* An account of a configured address is an admin's unless its registration is
\* not over or was cut short, for any number of workers and accounts.
THEOREM ConfiguredSynced == Spec => []ConfiguredAreAdmins
  <1>1. Init => ConfiguredAreAdmins
    BY DEF Init, ConfiguredAreAdmins, Lacks
  <1>. QED  BY <1>1, ConfiguredStep, StaysWellFormed, PTL DEF Spec
=============================================================================

------------------------------ MODULE Accounts ------------------------------
(* Accounts, the uses of an access code and the role "admin", as register, *)
(* login and the administration of users and codes in app/main.py change   *)
(* them.                                                                   *)
(*                                                                         *)
(* A handler runs in a worker against a READ COMMITTED database.  The code *)
(* is read FOR UPDATE: the worker that got the row keeps its lock until    *)
(* the transaction ends, and others that want the row wait.  What is in    *)
(* account and code is committed; a use that is counted but not committed  *)
(* is in the request.  A request that is refused or whose worker stops     *)
(* rolls back.  Passwords and one-time codes are left out, and so is the   *)
(* approval, which every account made here has from the start or does not  *)
(* need (_is_summit_eligible_user).                                        *)
EXTENDS Naturals, Sequences, FiniteSets

CONSTANTS
  Worker,       \* thread-pool workers, each serving one request at a time
  Email,        \* addresses people register with, trimmed and in lower case
  AdminEmail,   \* ADMIN_EMAILS: exempt from the code and admin at once
  SuperEmail,   \* SUPER_ADMIN_EMAILS: made admin when their account is synced
  MaxUses,      \* max_uses of the code's rows, 0 for no limit
  MaxAccounts,  \* bound: accounts made and registrations under way
  MaxCodes      \* bound: rows of the code made and under way

ASSUME ElevatedAreEmails == AdminEmail \cup SuperEmail \subseteq Email
ASSUME BoundsAreNumbers ==
  MaxUses \in Nat /\ MaxAccounts \in Nat /\ MaxCodes \in Nat

VARIABLES
  summit,   \* SUMMIT_MODE of the deployment
  account,  \* account[a]: the a-th row of users, kept when it is deleted
  code,     \* code[k]: the k-th row of signup_codes for the code people give
  req,      \* req[w]: the request worker w is serving
  \* History, read by no action:
  cut,      \* accounts that no sync made admin's before register ended
  raced     \* TRUE once an admin's removal was not checked, or raced another's

vars == <<summit, account, code, req, cut, raced>>

NoCode == 0
Elevated == AdminEmail \cup SuperEmail
Account == [email : Email, role : {"user", "admin", "deleted"}, code : Nat]
Code == [used : Nat, active : BOOLEAN, expired : BOOLEAN]
FreshCode == [used |-> 0, active |-> TRUE, expired |-> FALSE]

Idle == [pc |-> "idle"]
\* Of a registration: locked is the row its transaction has locked, counts
\* says whether it adds a use to that row, and seen is what it read there.
Request == {Idle}
  \cup [pc : {"code"}, email : Email]
  \cup [pc : {"lookup", "insert"}, email : Email, locked : Nat,
        counts : BOOLEAN, seen : Nat]
  \cup [pc : {"sync", "remove"}, account : Nat]
  \cup [pc : {"newcode"}]
  \cup [pc : {"toggle"}, code : Nat, active : BOOLEAN]

TypeOK ==
  /\ summit \in BOOLEAN
  /\ account \in Seq(Account)
  /\ code \in Seq(Code)
  /\ req \in [Worker -> Request]
  /\ cut \subseteq DOMAIN account
  /\ raced \in BOOLEAN

At(w, pc) == req[w].pc = pc
Goto(w, r) == req' = [req EXCEPT ![w] = r]
Live(a) == account[a].role # "deleted"
Admins == {a \in DOMAIN account : account[a].role = "admin"}
Registered(e) == \E a \in DOMAIN account : Live(a) /\ account[a].email = e
Registering == {w \in Worker : req[w].pc \in {"code", "lookup", "insert"}}
Holds(w, k) == req[w].pc \in {"lookup", "insert"} /\ req[w].locked = k
Unlocked(k) == \A w \in Worker : ~Holds(w, k)
Removing == {w \in Worker : At(w, "remove")}

-----------------------------------------------------------------------------
(* Registration *)

Registration(e, k, counts, seen) ==
  [pc |-> "lookup", email |-> e, locked |-> k, counts |-> counts,
   seen |-> seen]

\* In Summit mode everybody but the admins has to give the code, and a missing
\* code is refused at once; admins' codes are not looked at.  Otherwise
\* everybody may give one.
Register(w, e) ==
  /\ At(w, "idle")
  /\ Len(account) + Cardinality(Registering) < MaxAccounts
  /\ \E givesCode \in BOOLEAN :
       /\ summit => (givesCode <=> e \notin AdminEmail)
       /\ Goto(w, IF givesCode THEN [pc |-> "code", email |-> e]
                               ELSE Registration(e, NoCode, FALSE, 0))
  /\ UNCHANGED <<summit, account, code, cut, raced>>

\* The rows that _validate_access_code asks for; it waits for their locks.
Found == {k \in DOMAIN code : code[k].active}
MayRead_NoLock(w) == At(w, "code")
MayRead(w) == At(w, "code") /\ \A k \in Found : Unlocked(k)
Usable(k) ==
  /\ ~code[k].expired
  /\ MaxUses > 0 => code[k].used < MaxUses

CodeRefused_GoesOn(w) ==
  /\ MayRead(w)
  /\ \E k \in Found \cup {NoCode} :
       /\ IF k = NoCode THEN Found = {} ELSE Found = {k} /\ ~Usable(k)
       /\ Goto(w, Registration(req[w].email, k, FALSE, 0))
  /\ UNCHANGED <<summit, account, code, cut, raced>>

\* No row, or one that is over: None, which Summit mode refuses.  The lock on
\* the row that was read stays with a registration that goes on.
CodeRefused(w) ==
  /\ MayRead(w)
  /\ \E k \in Found \cup {NoCode} :
       /\ IF k = NoCode THEN Found = {} ELSE Found = {k} /\ ~Usable(k)
       /\ Goto(w, IF summit THEN Idle
                            ELSE Registration(req[w].email, k, FALSE, 0))
  /\ UNCHANGED <<summit, account, code, cut, raced>>

CodeTaken(w) ==
  /\ MayRead(w)
  /\ \E k \in Found :
       /\ Found = {k} /\ Usable(k)
       /\ Goto(w, Registration(req[w].email, k, TRUE, code[k].used))
  /\ UNCHANGED <<summit, account, code, cut, raced>>

\* scalar_one_or_none raises when there are several rows: a 500.
CodeAmbiguous(w) ==
  /\ MayRead(w)
  /\ Cardinality(Found) > 1
  /\ Goto(w, Idle)
  /\ UNCHANGED <<summit, account, code, cut, raced>>

\* The window is over, the code is not an investor's, the terms are not
\* accepted (403, 403, 400), or the e-mail is taken (409).
Refuse(w) ==
  /\ At(w, "lookup")
  /\ Goto(w, Idle)
  /\ UNCHANGED <<summit, account, code, cut, raced>>

Lookup(w) ==
  /\ At(w, "lookup")
  /\ ~Registered(req[w].email)
  /\ Goto(w, [req[w] EXCEPT !.pc = "insert"])
  /\ UNCHANGED <<summit, account, code, cut, raced>>

\* One commit for the account and the use.
Use(r) ==
  IF r.counts THEN [code EXCEPT ![r.locked].used = r.seen + 1] ELSE code
NewAccount(r) ==
  [email |-> r.email,
   role |-> IF r.email \in AdminEmail THEN "admin" ELSE "user",
   code |-> IF r.counts THEN r.locked ELSE NoCode]

Insert(w) ==
  /\ At(w, "insert")
  /\ ~Registered(req[w].email)
  /\ account' = Append(account, NewAccount(req[w]))
  /\ code' = Use(req[w])
  /\ Goto(w, [pc |-> "sync", account |-> Len(account) + 1])
  /\ UNCHANGED <<summit, cut, raced>>

InsertRefused_Retries(w) ==
  /\ At(w, "insert")
  /\ Registered(req[w].email)
  /\ UNCHANGED vars

\* The unique index on the e-mail: an uncaught error, and the use is undone.
InsertRefused(w) ==
  /\ At(w, "insert")
  /\ Registered(req[w].email)
  /\ Goto(w, Idle)
  /\ UNCHANGED <<summit, account, code, cut, raced>>

-----------------------------------------------------------------------------
(* _ensure_admin_user_state, at the end of register and in login *)

Lacks(a) == account[a].role = "user" /\ account[a].email \in Elevated
Promoted_OwnRole(a) ==
  IF Lacks(a)
  THEN [account EXCEPT ![a].role =
          IF account[a].email \in SuperEmail THEN "super" ELSE "admin"]
  ELSE account
Promoted_AdminEmailOnly(a) ==
  IF Lacks(a) /\ account[a].email \in AdminEmail
  THEN [account EXCEPT ![a].role = "admin"] ELSE account
Promoted(a) ==
  IF Lacks(a) THEN [account EXCEPT ![a].role = "admin"] ELSE account

\* After the commits of the acceptances and the audit.  A row that was deleted
\* meanwhile ends in an error without an effect.
Sync(w) ==
  /\ At(w, "sync")
  /\ account' = Promoted(req[w].account)
  /\ Goto(w, Idle)
  /\ UNCHANGED <<summit, code, cut, raced>>

Login(a) ==
  /\ Lacks(a)
  /\ account' = Promoted(a)
  /\ cut' = cut \ {a}
  /\ UNCHANGED <<summit, code, req, raced>>

-----------------------------------------------------------------------------
(* Administration.  The caller holds the admin key, so that there is no own *)
(* account to spare; an admin's token allows less.                          *)

\* Both handlers read the row and delete it in a later statement.
AnotherAdminGoes(a) == \E w \in Removing : req[w].account \in Admins \ {a}
StartRemoval(w, a) == Goto(w, [pc |-> "remove", account |-> a])

DeleteUser_OffByOne(w, a) ==
  /\ At(w, "idle")
  /\ Live(a)
  /\ account[a].role = "admin" => Cardinality(Admins) >= 1
  /\ StartRemoval(w, a)
  /\ raced' = (raced \/ (a \in Admins /\ AnotherAdminGoes(a)))
  /\ UNCHANGED <<summit, account, code, cut>>

DeleteUser(w, a) ==
  /\ At(w, "idle")
  /\ Live(a)
  /\ account[a].role = "admin" => Cardinality(Admins) > 1
  /\ StartRemoval(w, a)
  /\ raced' = (raced \/ (a \in Admins /\ AnotherAdminGoes(a)))
  /\ UNCHANGED <<summit, account, code, cut>>

RejectUser(w, a) ==
  /\ At(w, "idle")
  /\ Live(a)
  /\ StartRemoval(w, a)
  /\ raced' = (raced \/ a \in Admins)
  /\ UNCHANGED <<summit, account, code, cut>>

DeleteRow(w) ==
  /\ At(w, "remove")
  /\ account' = [account EXCEPT ![req[w].account].role = "deleted"]
  /\ cut' = cut \ {req[w].account}
  /\ Goto(w, Idle)
  /\ UNCHANGED <<summit, code, raced>>

\* Nothing keeps a second row for the same code out but the lookup.
CreateCode(w) ==
  /\ At(w, "idle")
  /\ code = <<>>
  /\ Cardinality({v \in Worker : At(v, "newcode")}) < MaxCodes
  /\ Goto(w, [pc |-> "newcode"])
  /\ UNCHANGED <<summit, account, code, cut, raced>>

InsertCode(w) ==
  /\ At(w, "newcode")
  /\ code' = Append(code, FreshCode)
  /\ Goto(w, Idle)
  /\ UNCHANGED <<summit, account, cut, raced>>

ToggleCode(w, k) ==
  /\ At(w, "idle")
  /\ Goto(w, [pc |-> "toggle", code |-> k, active |-> ~code[k].active])
  /\ UNCHANGED <<summit, account, code, cut, raced>>

\* The UPDATE waits for the lock and writes this column only.
WriteToggle(w) ==
  /\ At(w, "toggle")
  /\ Unlocked(req[w].code)
  /\ code' = [code EXCEPT ![req[w].code].active = req[w].active]
  /\ Goto(w, Idle)
  /\ UNCHANGED <<summit, account, cut, raced>>

-----------------------------------------------------------------------------
(* Environment *)

Expire(k) ==
  /\ ~code[k].expired
  /\ code' = [code EXCEPT ![k].expired = TRUE]
  /\ UNCHANGED <<summit, account, req, cut, raced>>

\* The worker stops, or a statement fails: the transaction is rolled back.  In
\* register it may be one of the commits before the account is synced; its
\* failure is caught, and the session refuses those that follow.
Crash(w) ==
  /\ ~At(w, "idle")
  /\ cut' = IF At(w, "sync") /\ Lacks(req[w].account)
               THEN cut \cup {req[w].account} ELSE cut
  /\ Goto(w, Idle)
  /\ UNCHANGED <<summit, account, code, raced>>

-----------------------------------------------------------------------------
\* Somebody is admin already, and the code may have been seeded.
Init ==
  /\ summit \in BOOLEAN
  /\ \E e \in AdminEmail :
       account = <<[email |-> e, role |-> "admin", code |-> NoCode]>>
  /\ code \in {<<>>, <<FreshCode>>}
  /\ req = [w \in Worker |-> Idle]
  /\ cut = {}
  /\ raced = FALSE

\* Steps that wait for a row's lock, and the others of a request under way.
Wait(w) == CodeRefused(w) \/ CodeTaken(w) \/ CodeAmbiguous(w) \/ WriteToggle(w)
Advance(w) ==
  \/ Refuse(w) \/ Lookup(w) \/ Insert(w) \/ InsertRefused(w) \/ Sync(w)
  \/ DeleteRow(w) \/ InsertCode(w)

Next ==
  \/ \E w \in Worker :
       \/ Wait(w) \/ Advance(w) \/ Crash(w) \/ CreateCode(w)
       \/ \E e \in Email : Register(w, e)
       \/ \E a \in DOMAIN account : DeleteUser(w, a) \/ RejectUser(w, a)
       \/ \E k \in DOMAIN code : ToggleCode(w, k)
  \/ \E a \in DOMAIN account : Login(a)
  \/ \E k \in DOMAIN code : Expire(k)

\* A worker goes on with its request.  The database queues those that wait for
\* a lock, so that each gets it in the end though others come and go.
Fairness == \A w \in Worker : WF_vars(Advance(w)) /\ SF_vars(Wait(w))

Spec == Init /\ [][Next]_vars /\ Fairness

-----------------------------------------------------------------------------
MadeWith(k) == {a \in DOMAIN account : account[a].code = k}

\* The uses of a row are the accounts made with it, deleted or not, and no more
\* than max_uses: whatever registrations overlap, are refused after the use was
\* counted (terms, e-mail, index) or stop, and whatever happens to the row.
UsesAreAccounts ==
  \A k \in DOMAIN code :
    /\ code[k].used = Cardinality(MadeWith(k))
    /\ MaxUses > 0 => code[k].used <= MaxUses

\* In Summit mode only the addresses of ADMIN_EMAILS have an account without a
\* use of the code, though the code is given before and the account made after everything else
\* of register, and codes are toggled, expire and run out in between.
AccountsPassTheGate ==
  summit => \A a \in DOMAIN account :
    account[a].code = NoCode => account[a].email \in AdminEmail

\* "Cannot delete last admin account" (admin_delete_user): an admin is left,
\* whatever is removed, promoted and registered, unless a removal passed its
\* check while that of another admin was on its way to the delete, or an
\* admin's account was rejected, which is not checked.
AnAdminStays == raced \/ Admins # {}

\* An account of a configured address is an admin's, unless its registration
\* is still under way or ended before the sync and it has not logged in since.
ConfiguredAreAdmins ==
  \A a \in DOMAIN account :
    Lacks(a) => \/ a \in cut
                \/ \E w \in Worker : At(w, "sync") /\ req[w].account = a

\* Every request ends: none waits for ever for the lock of a code's row, since
\* every request that has one ends its transaction.
RequestsEnd == \A w \in Worker : ~At(w, "idle") ~> At(w, "idle")
=============================================================================

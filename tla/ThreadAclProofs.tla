-------------------------- MODULE ThreadAclProofs --------------------------
(* Proofs about ThreadAcl, for every set of threads, users and workers.    *)
(* The invariants are proved one after the other; each uses those before.  *)
EXTENDS ThreadAcl, TLAPS

-----------------------------------------------------------------------------
\* Inserting and deleting a row change that row only.
LEMMA Rows ==
  ASSUME role \in [Thread -> [User -> Role \cup {NoRow}]],
         NEW t \in Thread, NEW u \in User, NEW r \in Role
  PROVE  /\ InsertRow(t, u, r) \in [Thread -> [User -> Role \cup {NoRow}]]
         /\ \A s \in Thread, v \in User :
              InsertRow(t, u, r)[s][v] =
                IF s = t /\ v = u /\ role[s][v] = NoRow THEN r ELSE role[s][v]
         /\ DeleteRow(t, u) \in [Thread -> [User -> Role \cup {NoRow}]]
         /\ \A s \in Thread, v \in User :
              DeleteRow(t, u)[s][v] =
                IF s = t /\ v = u THEN NoRow ELSE role[s][v]
  BY DEF InsertRow, DeleteRow

\* A worker without a request is in a request's state like any other.
LEMMA IdleSteps == Idle \in Request /\ Idle.pc = "idle"
  BY DEF Request, Idle

\* A request under way names its thread, its user and its operation.
LEMMA RequestFields ==
  ASSUME NEW q \in Request, q # Idle
  PROVE  q.t \in Thread /\ q.u \in User /\ q.op \in Op
  BY DEF Request

\* How a step of worker w changes the requests: w's own moves on, or ends, and
\* the others stay, except for removals that lost the row they had loaded.
LEMMA Continues ==
  ASSUME req \in [Worker -> Request], NEW w \in Worker, req[w] # Idle,
         NEW pc \in {"work", "answer", "members", "thread"}, Continue(w, pc)
  PROVE  /\ req' \in [Worker -> Request]
         /\ req'[w].pc = pc /\ req'[w].op = req[w].op
         /\ req'[w].t = req[w].t /\ req'[w].u = req[w].u
         /\ \A v \in Worker \ {w} : req'[v] = req[v]
  BY DEF Continue, Request

\* A step that answers the request of w leaves w idle and the others alone.
LEMMA Finishes ==
  ASSUME req \in [Worker -> Request], NEW w \in Worker, Finish(w)
  PROVE  /\ req' \in [Worker -> Request]
         /\ req'[w] = Idle
         /\ \A v \in Worker \ {w} : req'[v] = req[v]
  BY IdleSteps DEF Finish

\* A row deleted under a removal that had loaded it only turns that removal
\* into one that will find nothing.
LEMMA GoneSteps ==
  ASSUME NEW q \in Request, NEW t, NEW X
  PROVE  /\ Gone(q, t, X) \in Request
         /\ Gone(q, t, X) = q \/ (/\ q.pc = "remove"
                                  /\ Gone(q, t, X).pc = "gone"
                                  /\ Gone(q, t, X).t = q.t
                                  /\ Gone(q, t, X).u = q.u)
         /\ Gone(q, t, X).pc = "remove" => ~ (q.t = t /\ q.u \in X)
  BY IdleSteps DEF Gone, Request

\* A step that answers the request of w and deletes the rows of X in thread t
\* leaves no other removal in that thread with one of those rows loaded.
LEMMA FinishesDeleting ==
  ASSUME req \in [Worker -> Request], NEW w \in Worker, NEW t, NEW X,
         FinishDeleting(w, t, X)
  PROVE  /\ req' \in [Worker -> Request]
         /\ req'[w] = Idle
         /\ \A v \in Worker \ {w} :
              \/ req'[v] = req[v]
              \/ /\ req[v].pc = "remove" /\ req'[v].pc = "gone"
                 /\ req'[v].t = req[v].t /\ req'[v].u = req[v].u
         /\ \A v \in Worker : req'[v].pc = "remove"
                            => ~ (req'[v].t = t /\ req'[v].u \in X)
         /\ dropped \in [Worker -> SUBSET User]
              => dropped' \in [Worker -> SUBSET User]
  BY GoneSteps, IdleSteps DEF FinishDeleting

\* The checks of remove_thread_member passed: the request remembers whose row
\* it is to delete.
LEMMA RemovalChecked ==
  ASSUME req \in [Worker -> Request], NEW w \in Worker, req[w] # Idle,
         NEW x \in User,
         req' = [req EXCEPT ![w] = [@ EXCEPT !.pc = "remove", !.u = x]]
  PROVE  /\ req' \in [Worker -> Request]
         /\ req'[w].pc = "remove" /\ req'[w].t = req[w].t /\ req'[w].u = x
         /\ req'[w].op = req[w].op
         /\ \A v \in Worker \ {w} : req'[v] = req[v]
  BY DEF Request

-----------------------------------------------------------------------------
\* The type invariant: the handlers keep every table and request well-formed.
THEOREM TypeCorrect == Spec => []TypeOK
<1>1. Init => TypeOK
  BY DEF Init, TypeOK, Request, Idle, NoRow, Role
<1>2. TypeOK /\ [Next]_vars => TypeOK'
  <2> SUFFICES ASSUME TypeOK, [Next]_vars PROVE TypeOK'
    OBVIOUS
  <2> USE DEF TypeOK, history, tables, open
  <2>1. CASE UNCHANGED vars
    BY <2>1 DEF vars
  <2>19. ASSUME NEW w \in Worker, Crash(w) PROVE TypeOK'
    BY <2>19, Finishes DEF Crash
  <2> SUFFICES ASSUME NEW w \in Worker, NEW t \in Thread, NEW u \in User,
                      Arrive(w, t, u) \/ Proceed(w, t, u)
               PROVE  TypeOK'
    BY <2>1, <2>19 DEF Next
  <2>2. /\ "owner" \in Role
        /\ GrantableRole \subseteq Role
    BY DEF Role
  <2>3. ASSUME NEW op \in {"rename", "post"}, CreateThread(w, op, t, u)
        PROVE  TypeOK'
    <3> [pc |-> "own", op |-> op, t |-> t, u |-> u] \in Request
      BY DEF Request, Op
    <3> QED BY <2>3 DEF CreateThread
  <2>4. ASSUME NEW op \in Op, NEW pc \in {"work", "heal"}, Enter(w, op, t, u, pc),
               late' \subseteq Thread
        PROVE  TypeOK'
    <3> [pc |-> pc, op |-> op, t |-> t, u |-> u] \in Request
      BY DEF Request
    <3> QED BY <2>4 DEF Enter
  <2>5. CASE Arrive(w, t, u)
    BY <2>3, <2>4, <2>5 DEF Arrive, EnterAsPlatformAdmin, EnterAsMember, EnterAsAuthor
  <2> USE IdleSteps, Continues, Finishes DEF At, Serves
  <2>7. ASSUME NEW x \in User \cup {Assistant}, StoreMessage(t, x)
        PROVE  /\ author' \in [Thread -> SUBSET (User \cup {Assistant})]
               /\ doomed' \in [Worker -> SUBSET (User \cup {Assistant})]
    BY <2>7 DEF StoreMessage
  <2>8. CASE EnsureOwner(w, t, u)
    <3>1. req' \in [Worker -> Request]
      BY <2>8 DEF EnsureOwner
    <3>2. role' \in [Thread -> [User -> Role \cup {NoRow}]]
      BY <2>2, <2>8, Rows DEF EnsureOwner
    <3> QED BY <2>8, <3>1, <3>2 DEF EnsureOwner
  <2>9. CASE Heal(w, t, u)
    <3>1. req' \in [Worker -> Request]
      BY <2>9 DEF Heal
    <3>2. role' \in [Thread -> [User -> Role \cup {NoRow}]]
      BY <2>2, <2>9, Rows DEF Heal
    <3> QED BY <2>9, <3>1, <3>2 DEF Heal
  <2>10. CASE PostMessage(w, t, u)
    BY <2>7, <2>10 DEF PostMessage
  <2>11. CASE PostAnswer(w, t, u)
    BY <2>7, <2>11 DEF PostAnswer
  <2>12. CASE ReadMessages(w, t, u)
    BY <2>7, <2>12 DEF ReadMessages
  <2>13. ASSUME NEW x \in User, NEW r \in GrantableRole, AddMember(w, t, u, x, r)
         PROVE  TypeOK'
    <3>1. role' \in [Thread -> [User -> Role \cup {NoRow}]]
      BY <2>2, <2>13, Rows DEF AddMember
    <3> QED BY <2>13, <3>1 DEF AddMember
  <2>14. ASSUME NEW x \in User, RemoveCheck(w, t, u, x)
         PROVE  TypeOK'
    <3>1. req' \in [Worker -> Request]
      BY <2>14, RemovalChecked DEF RemoveCheck
    <3> QED BY <2>14, <3>1 DEF RemoveCheck
  <2>15. CASE RemoveMember(w, t, u)
    <3>1. role' \in [Thread -> [User -> Role \cup {NoRow}]]
      BY <2>2, <2>15, Rows DEF RemoveMember
    <3>2. req' \in [Worker -> Request] /\ dropped' \in [Worker -> SUBSET User]
      BY <2>15, FinishesDeleting DEF RemoveMember
    <3>3. removed' \in [Thread -> SUBSET User]
      BY <2>15 DEF RemoveMember
    <3>4. UNCHANGED <<exists, deleted, author, doomed, creator, granted, overlapped, met,
                      late>>
      BY <2>15 DEF RemoveMember
    <3> QED BY <3>1, <3>2, <3>3, <3>4
  <2>16. CASE RemoveNothing(w, t, u)
    BY <2>16 DEF RemoveNothing
  <2>17. CASE DeleteThread(w, t, u)
    <3>1. req' \in [Worker -> Request] /\ dropped' \in [Worker -> SUBSET User]
      BY <2>17, FinishesDeleting DEF DeleteThread
    <3>2. role' \in [Thread -> [User -> Role \cup {NoRow}]]
      BY <2>17 DEF DeleteThread
    <3> QED BY <2>17, <3>1, <3>2 DEF DeleteThread
  <2>18. CASE DeleteNothing(w, t, u)
    BY <2>18 DEF DeleteNothing
  <2>20. CASE DeleteMessages(w, t, u)
    BY <2>20 DEF DeleteMessages
  <2>21. CASE DeleteMembers(w, t, u)
    BY <2>21 DEF DeleteMembers
  <2> QED
    BY <2>5, <2>8, <2>9, <2>10, <2>11, <2>12, <2>13, <2>14, <2>15, <2>16, <2>17,
       <2>18, <2>20, <2>21
    DEF Proceed
<1>3. QED
  BY <1>1, <1>2, PTL DEF Spec
-----------------------------------------------------------------------------
(* Whoever is in a thread was let in.  A request past its check acts for a *)
(* user who was, even if the row it was checked against is gone by now.    *)

LetIn(t, u) == u \in granted[t] \cup PlatformAdmin

AccessInv ==
  /\ \A t \in Thread, u \in User : role[t][u] # NoRow => LetIn(t, u)
  /\ \A t \in Thread, u \in User : u \in author[t] => LetIn(t, u)
  /\ \A w \in Worker : req[w].pc \in {"heal", "work"} => LetIn(req[w].t, req[w].u)

\* Strangers never get a row or a message into a thread: the invariant the
\* run of MCThreadAcl checks, for any number of users, threads and workers.
THEOREM AccessGranted == Spec => []AccessIsGranted
<1>1. Init => AccessInv
  BY AssistantIsNoUser DEF Init, AccessInv, Idle
<1>2. TypeOK /\ TypeOK' /\ AccessInv /\ [Next]_vars => AccessInv'
  <2> SUFFICES ASSUME TypeOK, TypeOK', AccessInv, [Next]_vars PROVE AccessInv'
    OBVIOUS
  <2> USE IdleSteps, Continues, Finishes
      DEF TypeOK, AccessInv, history, tables, open, At, Serves, LetIn
  <2>1. CASE UNCHANGED vars
    BY <2>1 DEF vars
  <2>2. ASSUME NEW w \in Worker, Crash(w) PROVE AccessInv'
    BY <2>2 DEF Crash
  <2> SUFFICES ASSUME NEW w \in Worker, NEW t \in Thread, NEW u \in User,
                      Arrive(w, t, u) \/ Proceed(w, t, u)
               PROVE  AccessInv'
    BY <2>1, <2>2 DEF Next
  <2>3. "owner" \in Role /\ GrantableRole \subseteq Role
    BY DEF Role
  <2>4. ASSUME NEW op, CreateThread(w, op, t, u) PROVE AccessInv'
    BY <2>4 DEF CreateThread
  <2>5. ASSUME NEW op, NEW pc, Enter(w, op, t, u, pc), LetIn(t, u) PROVE AccessInv'
    BY <2>5 DEF Enter
  <2>6. CASE Arrive(w, t, u)
    <3>1. ASSUME NEW op \in Op, EnterAsMember(w, op, t, u) PROVE AccessInv'
      BY <2>5, <3>1 DEF EnterAsMember, MayDo
    <3>2. ASSUME NEW op \in Op, EnterAsAuthor(w, op, t, u) PROVE AccessInv'
      BY <2>5, <3>2 DEF EnterAsAuthor
    <3>3. ASSUME NEW op \in Op, EnterAsPlatformAdmin(w, op, t, u) PROVE AccessInv'
      BY <2>5, <3>3 DEF EnterAsPlatformAdmin, BypassesAcl
    <3> QED BY <2>4, <2>6, <3>1, <3>2, <3>3 DEF Arrive
  <2>7. CASE EnsureOwner(w, t, u)
    <3>1. \A v \in Worker : req'[v].pc \in {"heal", "work"}
            => /\ req'[v].t = req[v].t /\ req'[v].u = req[v].u
               /\ v = w \/ req'[v] = req[v]
      BY <2>7 DEF EnsureOwner
    <3>2. \A s \in Thread, v \in User : role'[s][v] # NoRow => LetIn(s, v)'
      BY <2>3, <2>7, Rows DEF EnsureOwner
    <3>3. LetIn(t, u)' /\ \A s \in Thread, v \in User : LetIn(s, v) => LetIn(s, v)'
      BY <2>7 DEF EnsureOwner
    <3>4. \A v \in Worker : req'[v].pc \in {"heal", "work"}
                          => LetIn(req[v].t, req[v].u)'
      <4> SUFFICES ASSUME NEW v \in Worker, req'[v].pc \in {"heal", "work"}
                   PROVE  LetIn(req[v].t, req[v].u)'
        OBVIOUS
      <4>1. CASE v = w
        BY <2>7, <3>3, <4>1 DEF EnsureOwner
      <4>2. CASE v # w
        BY <3>1, <3>3, <4>2, RequestFields
      <4> QED BY <4>1, <4>2
    <3> QED BY <2>7, <3>1, <3>2, <3>4 DEF EnsureOwner
  <2>8. CASE Heal(w, t, u)
    <3>1. \A v \in Worker : req'[v].pc \in {"heal", "work"}
            => /\ req'[v].t = req[v].t /\ req'[v].u = req[v].u
               /\ v = w \/ req'[v] = req[v]
      BY <2>8 DEF Heal
    <3>2. \A s \in Thread, v \in User : role'[s][v] # NoRow => LetIn(s, v)'
      <4>1. LetIn(t, u)
        BY <2>8 DEF Heal
      <4>2. \A s \in Thread, v \in User :
              role'[s][v] = IF s = t /\ v = u /\ role[s][v] = NoRow THEN "owner"
                            ELSE role[s][v]
        <5>1. role' = InsertRow(t, u, "owner") /\ "owner" \in Role
          BY <2>8 DEF Heal, Role
        <5> QED BY <2>3, <5>1, Rows
      <4>3. \A s \in Thread, v \in User : LetIn(s, v)' <=> LetIn(s, v)
        BY <2>8 DEF Heal
      <4> SUFFICES ASSUME NEW s \in Thread, NEW v \in User, role'[s][v] # NoRow
                   PROVE  LetIn(s, v)
        BY <4>3
      <4> HIDE DEF LetIn
      <4>4. CASE s = t /\ v = u
        BY <4>1, <4>4
      <4>5. CASE ~ (s = t /\ v = u)
        <5>1. role[s][v] # NoRow
          BY <4>2, <4>5
        <5> QED BY <5>1 DEF AccessInv
      <4> QED BY <4>4, <4>5
    <3> QED BY <2>8, <3>1, <3>2 DEF Heal
  <2>9. CASE PostMessage(w, t, u)
    <3>1. req[w] # Idle
      BY <2>9 DEF PostMessage
    <3>2. \A v \in Worker : req'[v].pc \in {"heal", "work"} => req'[v] = req[v]
      BY <2>9, <3>1 DEF PostMessage
    <3> QED BY <2>9, <3>2 DEF PostMessage, StoreMessage
  <2>10. CASE PostAnswer(w, t, u)
    BY <2>10, AssistantIsNoUser DEF PostAnswer, StoreMessage
  <2>11. CASE ReadMessages(w, t, u)
    <3>1. \A s \in Thread : author'[s] \subseteq author[s] \cup {Assistant}
      <4>1. CASE author[t] = {}
        <5>1. StoreMessage(t, Assistant)
          BY <2>11, <4>1 DEF ReadMessages
        <5> QED BY <5>1 DEF StoreMessage
      <4>2. CASE author[t] # {}
        BY <2>11, <4>2 DEF ReadMessages
      <4> QED BY <4>1, <4>2
    <3>2. \A v \in Worker : req'[v].pc \in {"heal", "work"} => req'[v] = req[v]
      BY <2>11 DEF ReadMessages
    <3> QED BY <2>11, <3>1, <3>2, AssistantIsNoUser DEF ReadMessages
  <2>12. ASSUME NEW x \in User, NEW r \in GrantableRole, AddMember(w, t, u, x, r)
         PROVE  AccessInv'
    <3>1. \A v \in Worker : req'[v].pc \in {"heal", "work"}
            => /\ req'[v].t = req[v].t /\ req'[v].u = req[v].u
               /\ v = w \/ req'[v] = req[v]
      BY <2>12 DEF AddMember
    <3>2. \A s \in Thread, v \in User : role'[s][v] # NoRow => LetIn(s, v)'
      BY <2>3, <2>12, Rows DEF AddMember
    <3>3. /\ author' = author
          /\ \A s \in Thread, v \in User : LetIn(s, v) => LetIn(s, v)'
      BY <2>12 DEF AddMember
    <3>4. \A v \in Worker : req'[v].pc \in {"heal", "work"}
            => LetIn(req[v].t, req[v].u)'
      <4> SUFFICES ASSUME NEW v \in Worker, req'[v].pc \in {"heal", "work"}
                   PROVE  LetIn(req[v].t, req[v].u)'
        OBVIOUS
      <4>1. req'[v] = req[v] /\ v # w
        <5>1. req'[w] = Idle
          BY <2>12 DEF AddMember
        <5> QED BY <3>1, <5>1
      <4>2. req[v].t \in Thread /\ req[v].u \in User /\ LetIn(req[v].t, req[v].u)
        BY <4>1, RequestFields
      <4> QED BY <3>3, <4>1, <4>2
    <3> QED BY <3>2, <3>3, <3>4
  <2>13. ASSUME NEW x \in User, RemoveCheck(w, t, u, x) PROVE AccessInv'
    <3>1. \A v \in Worker : req'[v].pc \in {"heal", "work"} => req'[v] = req[v]
      BY <2>13, RemovalChecked DEF RemoveCheck
    <3> QED BY <2>13, <3>1 DEF RemoveCheck
  <2>14. ASSUME NEW X, FinishDeleting(w, t, X)
         PROVE  \A v \in Worker : req'[v].pc \in {"heal", "work"} => req'[v] = req[v]
    BY <2>14, FinishesDeleting
  <2>15. CASE RemoveMember(w, t, u)
    BY <2>3, <2>14, <2>15, Rows DEF RemoveMember
  <2>16. CASE RemoveNothing(w, t, u)
    BY <2>16 DEF RemoveNothing
  <2>17. CASE DeleteThread(w, t, u)
    <3>1. \A s \in Thread, v \in User : role'[s][v] = role[s][v] \/ role'[s][v] = NoRow
      BY <2>17 DEF DeleteThread
    <3>2. \A s \in Thread : author'[s] \subseteq author[s]
      BY <2>17 DEF DeleteThread
    <3>3. \A v \in Worker : req'[v].pc \in {"heal", "work"} => req'[v] = req[v]
      BY <2>14, <2>17 DEF DeleteThread
    <3> QED BY <2>17, <3>1, <3>2, <3>3 DEF DeleteThread
  <2>18. CASE DeleteNothing(w, t, u)
    BY <2>18 DEF DeleteNothing
  <2>19. CASE DeleteMessages(w, t, u) \/ DeleteMembers(w, t, u)
    <3>1. \A v \in Worker : req'[v].pc \in {"heal", "work"} => req'[v] = req[v]
      BY <2>19 DEF DeleteMessages, DeleteMembers
    <3> QED BY <2>19, <3>1 DEF DeleteMessages, DeleteMembers
  <2> QED
    BY <2>6, <2>7, <2>8, <2>9, <2>10, <2>11, <2>12, <2>13, <2>15, <2>16, <2>17, <2>18,
       <2>19
    DEF Proceed
<1>3. AccessInv => AccessIsGranted
  BY DEF AccessInv, AccessIsGranted, LetIn
<1>4. QED
  BY <1>1, <1>2, <1>3, TypeCorrect, PTL DEF Spec

-----------------------------------------------------------------------------
(* How somebody becomes an owner.  The healing of a row trusts authorship: *)
(* an author without a row lost it, or is a platform admin.                *)

Known(t, u) == role[t][u] # NoRow \/ u \in removed[t] \cup PlatformAdmin

OwnerInv ==
  /\ OwnerByCreationOrHealing
  /\ \A t \in Thread, u \in User : u \in author[t] => Known(t, u)
  /\ \A w \in Worker : req[w].pc \in {"heal", "work"} => Known(req[w].t, req[w].u)

\* The requests at work or about to heal after a step, but for worker w's own,
\* were there before it.
LEMMA OthersKnown ==
  ASSUME TypeOK, TypeOK', OwnerInv, NEW w \in Worker,
         \A t \in Thread, u \in User : Known(t, u) => Known(t, u)',
         \A v \in Worker \ {w} :
           req'[v] = req[v] \/ req'[v].pc = "gone",
         req'[w].pc \in {"heal", "work"} => Known(req[w].t, req[w].u)'
  PROVE  \A v \in Worker : req'[v].pc \in {"heal", "work"} => Known(req[v].t, req[v].u)'
<1> SUFFICES ASSUME NEW v \in Worker, req'[v].pc \in {"heal", "work"}
             PROVE  Known(req[v].t, req[v].u)'
  OBVIOUS
<1>1. CASE v = w
  BY <1>1
<1>2. CASE v # w
  <2>1. req'[v] = req[v] /\ req[v] \in Request /\ req[v] # Idle
    BY <1>2, IdleSteps DEF TypeOK
  <2>2. Known(req[v].t, req[v].u)
    BY <2>1 DEF OwnerInv
  <2>3. Known(req[v].t, req[v].u)'
    BY <2>1, <2>2, RequestFields DEF Known
  <2> QED BY <2>1, <2>3 DEF Known
<1> QED BY <1>1, <1>2

\* add_thread_member never makes an owner; a healed row does so only for who
\* had lost a row or is a platform admin, for any number of users and threads.
THEOREM OwnersWereMade == Spec => []OwnerByCreationOrHealing
<1>1. Init => OwnerInv
  BY DEF Init, OwnerInv, OwnerByCreationOrHealing, Owners, Idle, NoRow
<1>2. TypeOK /\ TypeOK' /\ OwnerInv /\ [Next]_vars => OwnerInv'
  <2> SUFFICES ASSUME TypeOK, TypeOK', OwnerInv, [Next]_vars PROVE OwnerInv'
    OBVIOUS
  <2> USE IdleSteps DEF history, tables, open, At, Serves
  <2>1. CASE UNCHANGED vars
    BY <2>1 DEF vars, OwnerInv, OwnerByCreationOrHealing, Owners, Known
  <2>2. ASSUME NEW w \in Worker,
               UNCHANGED <<role, author, creator, removed>>,
               \A v \in Worker \ {w} : req'[v] = req[v],
               req'[w].pc \in {"heal", "work"} => Known(req[w].t, req[w].u)'
        PROVE  OwnerInv'
    <3>1. \A t \in Thread, u \in User : Known(t, u) => Known(t, u)'
      BY <2>2 DEF Known
    <3>2. \A v \in Worker : req'[v].pc \in {"heal", "work"} => Known(req[v].t, req[v].u)'
      BY <2>2, <3>1, OthersKnown
    <3> QED BY <2>2, <3>1, <3>2 DEF OwnerInv, OwnerByCreationOrHealing, Owners
  <2>3. ASSUME NEW w \in Worker, Crash(w) PROVE OwnerInv'
    BY <2>2, <2>3, Finishes DEF Crash, TypeOK
  <2> SUFFICES ASSUME NEW w \in Worker, NEW t \in Thread, NEW u \in User,
                      Arrive(w, t, u) \/ Proceed(w, t, u)
               PROVE  OwnerInv'
    BY <2>1, <2>3 DEF Next
  <2>4. "owner" \in Role /\ GrantableRole \subseteq Role /\ "owner" \notin GrantableRole
        /\ NoRow \notin Role
    BY DEF Role, GrantableRole, NoRow
  <2>5. CASE Arrive(w, t, u)
    <3>1. ASSUME NEW op, NEW pc, Enter(w, op, t, u, pc), Known(t, u)
          PROVE  OwnerInv'
      <4>1. req'[w].t = t /\ req'[w].u = u /\ \A v \in Worker \ {w} : req'[v] = req[v]
        BY <3>1 DEF Enter, TypeOK
      <4>2. UNCHANGED <<role, author, creator, removed>>
        BY <3>1 DEF Enter
      <4>3. Known(req[w].t, req[w].u)'
        BY <3>1, <4>1, <4>2 DEF Known
      <4> QED BY <2>2, <4>1, <4>2, <4>3
    <3>2. ASSUME NEW op, CreateThread(w, op, t, u) PROVE OwnerInv'
      <4>1. req'[w].pc = "own" /\ \A v \in Worker \ {w} : req'[v] = req[v]
        BY <3>2 DEF CreateThread, TypeOK
      <4> QED BY <2>2, <3>2, <4>1 DEF CreateThread
    <3>3. ASSUME NEW op \in Op, EnterAsMember(w, op, t, u) PROVE OwnerInv'
      BY <3>1, <3>3 DEF EnterAsMember, MayDo, Known
    <3>4. ASSUME NEW op \in Op, EnterAsAuthor(w, op, t, u) PROVE OwnerInv'
      BY <3>1, <3>4 DEF EnterAsAuthor, OwnerInv
    <3>5. ASSUME NEW op \in Op, EnterAsPlatformAdmin(w, op, t, u) PROVE OwnerInv'
      BY <3>1, <3>5 DEF EnterAsPlatformAdmin, BypassesAcl, Known
    <3> QED BY <2>5, <3>2, <3>3, <3>4, <3>5 DEF Arrive
  <2>6. ASSUME NEW x \in User, NEW r \in Role,
               role' = InsertRow(t, x, r),
               r = "owner" => x \in creator'[t] \cup removed[t] \cup PlatformAdmin
                              \/ role[t][x] # NoRow,
               \A s \in Thread : creator[s] \subseteq creator'[s],
               UNCHANGED <<author, removed>>,
               \A v \in Worker \ {w} : req'[v] = req[v],
               req'[w].pc \in {"heal", "work"}
                 => role'[t][x] # NoRow /\ req'[w].t = t /\ req'[w].u = x
        PROVE  OwnerInv'
    <3>1. \A s \in Thread, v \in User :
            role'[s][v] = IF s = t /\ v = x /\ role[s][v] = NoRow THEN r ELSE role[s][v]
      BY <2>6, Rows DEF TypeOK
    <3>2. \A s \in Thread, v \in User : Known(s, v) => Known(s, v)'
      BY <2>4, <2>6, <3>1 DEF Known
    <3>3. req'[w].pc \in {"heal", "work"} => Known(req[w].t, req[w].u)'
      BY <2>6 DEF Known
    <3>4. \A v \in Worker : req'[v].pc \in {"heal", "work"} => Known(req[v].t, req[v].u)'
      BY <2>6, <3>2, <3>3, OthersKnown
    <3>5. OwnerByCreationOrHealing'
      BY <2>6, <3>1 DEF OwnerInv, OwnerByCreationOrHealing, Owners, TypeOK
    <3> QED BY <2>6, <3>2, <3>4, <3>5 DEF OwnerInv
  <2>7. CASE EnsureOwner(w, t, u)
    <3>1. /\ \A v \in Worker \ {w} : req'[v] = req[v]
          /\ req'[w].pc \in {"heal", "work"} => req'[w].t = t /\ req'[w].u = u
      BY <2>7, Continues, Finishes DEF EnsureOwner, TypeOK
    <3>2. role'[t][u] # NoRow
      <4>1. role' = InsertRow(t, u, "owner")
        BY <2>7 DEF EnsureOwner
      <4> QED BY <2>4, <4>1 DEF InsertRow, TypeOK
    <3>3. u \in creator'[t] /\ \A s \in Thread : creator[s] \subseteq creator'[s]
      BY <2>7 DEF EnsureOwner, TypeOK
    <3> QED BY <2>4, <2>6, <2>7, <3>1, <3>2, <3>3 DEF EnsureOwner
  <2>8. CASE Heal(w, t, u)
    <3>1. /\ \A v \in Worker \ {w} : req'[v] = req[v]
          /\ req'[w].pc \in {"heal", "work"} => req'[w].t = t /\ req'[w].u = u
      BY <2>8, Continues, Finishes DEF Heal, TypeOK
    <3>2. role'[t][u] # NoRow
      BY <2>4, <2>8, Rows DEF Heal, TypeOK
    <3>3. Known(t, u)
      BY <2>8 DEF Heal, OwnerInv
    <3> QED BY <2>4, <2>6, <2>8, <3>1, <3>2, <3>3 DEF Heal, Known
  <2>9. ASSUME NEW x \in User, NEW r \in GrantableRole, AddMember(w, t, u, x, r)
        PROVE  OwnerInv'
    <3>1. req'[w] = Idle /\ \A v \in Worker \ {w} : req'[v] = req[v]
      BY <2>9, Finishes DEF AddMember, TypeOK
    <3> QED BY <2>4, <2>6, <2>9, <3>1 DEF AddMember
  <2>10. CASE PostMessage(w, t, u) \/ PostAnswer(w, t, u) \/ ReadMessages(w, t, u)
    <3>1. \A v \in Worker : req'[v].pc \in {"heal", "work"} => req'[v] = req[v]
      BY <2>10, Continues, Finishes DEF PostMessage, PostAnswer, ReadMessages, TypeOK
    <3>2. UNCHANGED <<role, creator, removed>>
      BY <2>10 DEF PostMessage, PostAnswer, ReadMessages
    <3>3. \A s \in Thread, v \in User :
            v \in author'[s] => v \in author[s] \/ (PostMessage(w, t, u) /\ s = t /\ v = u)
      BY <2>10, AssistantIsNoUser DEF PostMessage, PostAnswer, ReadMessages, StoreMessage, TypeOK
    <3>4. PostMessage(w, t, u) => Known(t, u)
      BY DEF PostMessage, OwnerInv
    <3> QED BY <3>1, <3>2, <3>3, <3>4 DEF OwnerInv, OwnerByCreationOrHealing, Owners, Known
  <2>11. ASSUME NEW x \in User, RemoveCheck(w, t, u, x) PROVE OwnerInv'
    <3>1. req'[w].pc \notin {"heal", "work"} /\ \A v \in Worker \ {w} : req'[v] = req[v]
      BY <2>11, RemovalChecked, Finishes DEF RemoveCheck, TypeOK
    <3> QED BY <2>2, <2>11, <3>1 DEF RemoveCheck
  <2>12. ASSUME NEW X \in SUBSET User, FinishDeleting(w, t, X),
                \A s \in Thread, v \in User :
                  role'[s][v] = role[s][v] \/ (/\ role'[s][v] = NoRow
                                               /\ role[s][v] # NoRow => v \in removed'[s]),
                \A s \in Thread : removed[s] \subseteq removed'[s],
                \A s \in Thread : author'[s] \subseteq author[s],
                UNCHANGED creator
         PROVE  OwnerInv'
    <3>1. \A s \in Thread, v \in User : Known(s, v) => Known(s, v)'
      BY <2>12 DEF Known
    <3>2. req'[w] = Idle /\ \A v \in Worker \ {w} : req'[v] = req[v] \/ req'[v].pc = "gone"
      BY <2>12, FinishesDeleting DEF TypeOK
    <3>3. \A v \in Worker : req'[v].pc \in {"heal", "work"} => Known(req[v].t, req[v].u)'
      BY <3>1, <3>2, OthersKnown
    <3>4. OwnerByCreationOrHealing'
      <4>1. \A s \in Thread : Owners(s)' \subseteq Owners(s)
        BY <2>4, <2>12 DEF Owners
      <4> QED BY <2>12, <4>1 DEF OwnerInv, OwnerByCreationOrHealing
    <3> QED BY <2>12, <3>1, <3>3, <3>4 DEF OwnerInv, TypeOK
  <2>13. CASE RemoveMember(w, t, u)
    <3>1. \A s \in Thread, v \in User :
            role'[s][v] = IF s = t /\ v \in {u} THEN NoRow ELSE role[s][v]
      BY <2>4, <2>13, Rows DEF RemoveMember, TypeOK
    <3>2. FinishDeleting(w, t, {u}) /\ UNCHANGED <<author, creator>>
      BY <2>13 DEF RemoveMember
    <3>3. \A s \in Thread : removed'[s] = removed[s] \cup IF s = t THEN {u} ELSE {}
      BY <2>13 DEF RemoveMember, TypeOK
    <3> QED BY <2>12, <3>1, <3>2, <3>3
  <2>14. CASE DeleteThread(w, t, u)
    <3>1. \A s \in Thread, v \in User :
            role'[s][v] = IF s = t /\ v \in dropped[w] THEN NoRow ELSE role[s][v]
      BY <2>14 DEF DeleteThread, TypeOK
    <3>2. \A s \in Thread : removed'[s] =
            removed[s] \cup IF s = t THEN dropped[w] ELSE {}
      BY <2>14 DEF DeleteThread, TypeOK
    <3>3. \A s \in Thread : author'[s] \subseteq author[s]
      BY <2>14 DEF DeleteThread, TypeOK
    <3>4. dropped[w] \in SUBSET User /\ FinishDeleting(w, t, dropped[w])
      BY <2>14 DEF DeleteThread, TypeOK
    <3> QED BY <2>12, <2>14, <3>1, <3>2, <3>3, <3>4 DEF DeleteThread
  <2>16. CASE DeleteMessages(w, t, u) \/ DeleteMembers(w, t, u)
    BY <2>2, <2>16, Continues DEF DeleteMessages, DeleteMembers, TypeOK
  <2>15. CASE RemoveNothing(w, t, u) \/ DeleteNothing(w, t, u)
    BY <2>2, <2>15, Finishes DEF RemoveNothing, DeleteNothing, TypeOK
  <2> QED
    BY <2>5, <2>7, <2>8, <2>9, <2>10, <2>11, <2>13, <2>14, <2>15, <2>16 DEF Proceed
<1>3. OwnerInv => OwnerByCreationOrHealing
  BY DEF OwnerInv
<1> QED BY <1>1, <1>2, <1>3, TypeCorrect, PTL DEF Spec

-----------------------------------------------------------------------------
(* A deleted thread stays empty: nobody has a row or a message to get in   *)
(* by, and nobody was past the check while its deletion went on.  A        *)
(* deletion that met no other request has seen all there is.               *)

GoneInv ==
  \A t \in deleted \ late :
    /\ author[t] = {}
    /\ \A u \in User : role[t][u] = NoRow
    /\ Pending(t) = {}

Alone(w, t) ==
  /\ Pending(t) = {w}
  /\ author[t] \subseteq doomed[w]
  /\ req[w].pc = "thread" => \A u \in User : role[t][u] # NoRow => u \in dropped[w]

AloneInv ==
  /\ \A t \in Thread : Pending(t) # {} => t \in exists \cup deleted
  /\ \A w \in Worker \ met, t \in Thread : Deleting(w, t) => Alone(w, t)

\* The other requests after a step are those before it, or removals that lost
\* their row, in the same thread.
OthersStay(w) ==
  \A v \in Worker \ {w} :
    \/ req'[v] = req[v]
    \/ /\ req[v].pc = "remove" /\ req'[v].pc = "gone"
       /\ req'[v].t = req[v].t /\ req'[v].u = req[v].u

\* A request that is past its check in t works on a thread that GoneInv says
\* nothing of.
LEMMA PendingStep ==
  ASSUME TypeOK, GoneInv, NEW w \in Worker, NEW t \in Thread,
         req[w].pc # "idle", req[w].t = t,
         deleted' \ late' \subseteq deleted \ late,
         \A s \in Thread \ {t} : role'[s] = role[s] /\ author'[s] = author[s],
         req'[w] = Idle \/ req'[w].t = t,
         OthersStay(w)
  PROVE  GoneInv'
<1> SUFFICES ASSUME NEW s \in deleted' \ late'
             PROVE  /\ author'[s] = {}
                    /\ \A u \in User : role'[s][u] = NoRow
                    /\ Pending(s)' = {}
  BY DEF GoneInv
<1>1. s \in deleted \ late /\ s \in Thread /\ Pending(s) = {}
  BY DEF TypeOK, GoneInv
<1>2. s # t
  BY <1>1 DEF Pending
<1>3. author'[s] = {} /\ \A u \in User : role'[s][u] = NoRow
  BY <1>1, <1>2 DEF GoneInv
<1>4. ASSUME NEW v \in Worker, req'[v].pc # "idle", req'[v].t = s PROVE FALSE
  <2>1. CASE v = w
    BY <1>2, <1>4, <2>1, IdleSteps
  <2>2. CASE v # w
    BY <1>1, <1>4, <2>2 DEF OthersStay, Pending
  <2> QED BY <2>1, <2>2
<1> QED BY <1>3, <1>4 DEF Pending

\* A new request in a thread that is not one of GoneInv's.
LEMMA ArrivalStep ==
  ASSUME TypeOK, GoneInv, NEW w \in Worker, NEW t \in Thread, t \notin deleted \ late',
         NEW r, req' = [req EXCEPT ![w] = r], r.t = t,
         UNCHANGED <<deleted, role, author>>, late \subseteq late'
  PROVE  GoneInv'
<1> SUFFICES ASSUME NEW s \in deleted' \ late'
             PROVE  /\ author'[s] = {}
                    /\ \A u \in User : role'[s][u] = NoRow
                    /\ Pending(s)' = {}
  BY DEF GoneInv
<1>1. s \in deleted \ late /\ s # t
  OBVIOUS
<1>2. \A v \in Worker : req'[v] = IF v = w THEN r ELSE req[v]
  BY DEF TypeOK
<1>3. Pending(s)' \subseteq Pending(s)
  BY <1>1, <1>2 DEF Pending
<1> QED BY <1>1, <1>3 DEF GoneInv

\* After the deletion of a thread by the only request in it, it is empty.
LEMMA DeleteStep ==
  ASSUME TypeOK, TypeOK', GoneInv, AloneInv, NEW w \in Worker, NEW t \in Thread, NEW u \in User,
         DeleteThread(w, t, u)
  PROVE  GoneInv'
<1>1. /\ req'[w] = Idle
      /\ OthersStay(w)
  BY FinishesDeleting DEF DeleteThread, OthersStay, TypeOK
<1>2. w \in Pending(t) /\ Idle.pc = "idle"
  BY IdleSteps DEF DeleteThread, At, Pending
<1> SUFFICES ASSUME NEW s \in deleted' \ late'
             PROVE  /\ author'[s] = {}
                    /\ \A x \in User : role'[s][x] = NoRow
                    /\ Pending(s)' = {}
  BY DEF GoneInv
<1>3. CASE s = t
  <2>0. w \notin met /\ Deleting(w, t) /\ req[w].pc = "thread"
    BY <1>3 DEF DeleteThread, At, Deleting
  <2>1. Pending(t) = {w} /\ Alone(w, t)
    BY <2>0 DEF AloneInv, Alone
  <2>2. \A v \in Worker \ {w} : req[v].pc = "idle" \/ req[v].t # t
    BY <2>1 DEF Pending
  <2>3. Pending(t)' = {}
    BY <1>1, <1>2, <2>2 DEF Pending, OthersStay
  <2>4. author'[t] = {}
    BY <2>1 DEF DeleteThread, TypeOK, Alone
  <2>5. \A x \in User : role'[t][x] = NoRow
    BY <2>0, <2>1 DEF DeleteThread, TypeOK, Alone
  <2> QED BY <1>3, <2>3, <2>4, <2>5
<1>4. CASE s # t
  <2>1. s \in deleted \ late /\ s \in Thread
    BY <1>4 DEF DeleteThread, TypeOK
  <2>2. author'[s] = author[s] /\ role'[s] = role[s]
    BY <1>4, <2>1 DEF DeleteThread, TypeOK
  <2>3. \A v \in Worker : req'[v].pc # "idle" /\ req'[v].t = s => v \in Pending(s)
    BY <1>1, <1>2 DEF Pending, OthersStay
  <2> QED BY <2>1, <2>2, <2>3 DEF GoneInv, Pending
<1> QED BY <1>3, <1>4

\* What a handler does to the requests, in the terms of the lemmas above.
LEMMA RequestsAfter ==
  ASSUME TypeOK, NEW w \in Worker, NEW t \in Thread, NEW u \in User,
         Proceed(w, t, u)
  PROVE  /\ req[w].pc # "idle" /\ req[w].t = t /\ req[w].op \in Op
         /\ req'[w] = Idle \/ (/\ req'[w].t = t /\ req'[w].op = req[w].op
                               /\ req'[w].pc \in {"work", "answer", "remove", "members",
                                                  "thread"})
         /\ OthersStay(w)
<1>0. req \in [Worker -> Request]
  BY DEF TypeOK
<1> USE IdleSteps DEF At, Serves, OthersStay
<1>1. ASSUME NEW pc \in {"work", "answer", "members", "thread"}, Continue(w, pc), req[w].pc # "idle", req[w].t = t
      PROVE  /\ req'[w].t = t /\ req'[w].op = req[w].op /\ req'[w].pc = pc
             /\ \A v \in Worker \ {w} : req'[v] = req[v]
  BY <1>0, <1>1, Continues
<1>2. ASSUME Finish(w)
      PROVE  req'[w] = Idle /\ \A v \in Worker \ {w} : req'[v] = req[v]
  BY <1>0, <1>2, Finishes
<1>3. ASSUME NEW X, FinishDeleting(w, t, X)
      PROVE  req'[w] = Idle /\ OthersStay(w)
  BY <1>0, <1>3, FinishesDeleting
<1>4. req[w].pc # "idle" /\ req[w].t = t
  BY DEF Proceed, EnsureOwner, Heal, PostMessage, PostAnswer, ReadMessages, AddMember,
         RemoveCheck, RemoveMember, RemoveNothing, DeleteMessages, DeleteMembers,
         DeleteThread, DeleteNothing
<1>5. req[w].op \in Op
  BY <1>0, <1>4, RequestFields
<1>6. CASE EnsureOwner(w, t, u) \/ Heal(w, t, u) \/ PostMessage(w, t, u)
  BY <1>1, <1>2, <1>4, <1>5, <1>6 DEF EnsureOwner, Heal, PostMessage
<1>7. CASE PostAnswer(w, t, u) \/ ReadMessages(w, t, u) \/ RemoveNothing(w, t, u)
             \/ DeleteNothing(w, t, u)
             \/ \E x \in User, r \in GrantableRole : AddMember(w, t, u, x, r)
  BY <1>2, <1>4, <1>5, <1>7 DEF PostAnswer, ReadMessages, RemoveNothing, DeleteNothing, AddMember
<1>8. CASE RemoveMember(w, t, u) \/ DeleteThread(w, t, u)
  BY <1>3, <1>4, <1>5, <1>8 DEF RemoveMember, DeleteThread
<1>9. ASSUME NEW x \in User, RemoveCheck(w, t, u, x)
      PROVE  /\ req'[w] = Idle \/ (/\ req'[w].t = t /\ req'[w].op = req[w].op
                                   /\ req'[w].pc = "remove")
             /\ OthersStay(w)
  BY <1>0, <1>2, <1>4, <1>9, RemovalChecked DEF RemoveCheck
<1>10. CASE DeleteMessages(w, t, u) \/ DeleteMembers(w, t, u)
  BY <1>1, <1>4, <1>5, <1>10 DEF DeleteMessages, DeleteMembers
<1> QED BY <1>4, <1>5, <1>6, <1>7, <1>8, <1>9, <1>10 DEF Proceed

\* A step of worker w in thread t leaves the deletions alone that w's request is
\* no part of: those that met no other are of other threads.
LEMMA OthersAlone ==
  ASSUME TypeOK, AloneInv, NEW w \in Worker, NEW t \in Thread,
         req[w].pc # "idle", req[w].t = t,
         req'[w] = Idle \/ req'[w].t = t,
         OthersStay(w),
         met \ {w} \subseteq met',
         exists \cup deleted \subseteq exists' \cup deleted',
         \A s \in Thread \ {t} : role'[s] = role[s] /\ author'[s] = author[s],
         \A v \in Worker \ {w} :
           ~ Deleting(v, t) => doomed'[v] = doomed[v] /\ dropped'[v] = dropped[v],
         w \notin met' /\ Deleting(w, t)' => Alone(w, t)'
  PROVE  AloneInv'
<1>1. \A s \in Thread : Pending(s)' \subseteq Pending(s)
  BY IdleSteps DEF Pending, OthersStay
<1>2. \A s \in Thread : Pending(s)' # {} => s \in exists' \cup deleted'
  BY <1>1 DEF AloneInv
<1> SUFFICES ASSUME NEW v \in Worker \ met', NEW s \in Thread, Deleting(v, s)'
             PROVE  Alone(v, s)'
  BY <1>2 DEF AloneInv
<1>3. CASE v = w
  <2>1. s = t
    BY <1>3, IdleSteps DEF Deleting
  <2> QED BY <1>3, <2>1
<1>4. CASE v # w
  <2>1. req'[v] = req[v] /\ Deleting(v, s) /\ v \notin met
    BY <1>4 DEF OthersStay, Deleting
  <2>2. Alone(v, s)
    BY <2>1 DEF AloneInv
  <2>3. s # t
    BY <1>4, <2>2 DEF Alone, Pending
  <2>4. ~ Deleting(v, t)
    BY <2>1, <2>3 DEF Deleting
  <2>5. Pending(s)' = {v}
    BY <1>1, <2>1, <2>2 DEF Alone, Pending
  <2>6. /\ doomed'[v] = doomed[v] /\ dropped'[v] = dropped[v]
        /\ role'[s] = role[s] /\ author'[s] = author[s]
    BY <1>4, <2>3, <2>4
  <2> QED BY <2>1, <2>2, <2>5, <2>6 DEF Alone
<1> QED BY <1>3, <1>4

\* A request that comes in marks the deletions it meets.
LEMMA ArrivalAlone ==
  ASSUME TypeOK, AloneInv, NEW w \in Worker, NEW t \in Thread,
         req[w] = Idle,
         NEW q, req' = [req EXCEPT ![w] = q], q.t = t, q.pc \notin {"members", "thread"},
         met' = met \cup {v \in Worker : Deleting(v, t)},
         t \in exists' \cup deleted',
         exists \cup deleted \subseteq exists' \cup deleted',
         UNCHANGED <<role, author, doomed, dropped>>
  PROVE  AloneInv'
<1>1. \A v \in Worker : req'[v] = IF v = w THEN q ELSE req[v]
  BY DEF TypeOK
<1>2. \A s \in Thread \ {t} : Pending(s)' = Pending(s)
  BY <1>1, IdleSteps DEF Pending
<1>3. \A s \in Thread : Pending(s)' # {} => s \in exists' \cup deleted'
  BY <1>2 DEF AloneInv
<1> SUFFICES ASSUME NEW v \in Worker \ met', NEW s \in Thread, Deleting(v, s)'
             PROVE  Alone(v, s)'
  BY <1>3 DEF AloneInv
<1>4. v # w /\ req'[v] = req[v] /\ Deleting(v, s) /\ v \notin met
  BY <1>1 DEF Deleting
<1>5. s # t
  BY <1>4
<1> QED BY <1>2, <1>4, <1>5 DEF AloneInv, Alone

\* The steps of a deletion: its DELETEs see what is there, and a deletion that
\* meets another request is marked from its first statement on.
LEMMA StepAlone ==
  ASSUME TypeOK, TypeOK', AloneInv, NEW w \in Worker, NEW t \in Thread, NEW u \in User,
         Proceed(w, t, u)
  PROVE  AloneInv'
<1>1. /\ req[w].pc # "idle" /\ req[w].t = t
      /\ req'[w] = Idle \/ req'[w].t = t
      /\ OthersStay(w)
  BY RequestsAfter
<1>2. \A s \in Thread \ {t} : role'[s] = role[s] /\ author'[s] = author[s]
  BY DEF Proceed, EnsureOwner, Heal, PostMessage, PostAnswer, ReadMessages, StoreMessage,
         AddMember, RemoveCheck, RemoveMember, RemoveNothing, DeleteMessages, DeleteMembers,
         DeleteThread, DeleteNothing, tables, history, InsertRow, DeleteRow, TypeOK
<1>3. /\ met \ {w} \subseteq met'
      /\ exists \cup deleted \subseteq exists' \cup deleted'
  BY DEF Proceed, EnsureOwner, Heal, PostMessage, PostAnswer, ReadMessages, AddMember,
         RemoveCheck, RemoveMember, RemoveNothing, DeleteMessages, DeleteMembers,
         DeleteThread, DeleteNothing, tables, history
<1>4. \A v \in Worker \ {w} : ~ Deleting(v, t) => doomed'[v] = doomed[v]
  BY DEF Proceed, EnsureOwner, Heal, PostMessage, PostAnswer, ReadMessages, StoreMessage,
         AddMember, RemoveCheck, RemoveMember, RemoveNothing, DeleteMessages, DeleteMembers,
         DeleteThread, DeleteNothing, tables, open, history, TypeOK
<1>5. \A v \in Worker \ {w} : ~ Deleting(v, t) => dropped'[v] = dropped[v]
  BY DEF Proceed, EnsureOwner, Heal, PostMessage, PostAnswer, ReadMessages, AddMember,
         RemoveCheck, RemoveMember, RemoveNothing, DeleteMessages, DeleteMembers,
         DeleteThread, DeleteNothing, FinishDeleting, tables, open, history, TypeOK
<1>6. ASSUME w \notin met', Deleting(w, t)' PROVE Alone(w, t)'
  <2>1. \A pc \in {"work", "answer", "members", "thread"} :
          Continue(w, pc) => req'[w].pc = pc
    BY <1>1, Continues, IdleSteps DEF TypeOK
  <2>2. req'[w].pc \in {"members", "thread"}
    BY <1>6 DEF Deleting
  <2>3. \A x \in User : ~ RemoveCheck(w, t, u, x)
    <3> SUFFICES ASSUME NEW x \in User, RemoveCheck(w, t, u, x) PROVE FALSE
      OBVIOUS
    <3> QED BY <1>1, <2>2, RemovalChecked, Finishes, IdleSteps DEF RemoveCheck, TypeOK
  <2>4. \A X : ~ FinishDeleting(w, t, X)
    BY <2>2, FinishesDeleting, IdleSteps DEF TypeOK
  <2>5. ~ Finish(w)
    BY <2>2, Finishes, IdleSteps DEF TypeOK
  <2>6. DeleteMessages(w, t, u) \/ DeleteMembers(w, t, u)
    BY <2>1, <2>2, <2>3, <2>4, <2>5 DEF Proceed, EnsureOwner, Heal, PostMessage, PostAnswer,
       ReadMessages, AddMember, RemoveMember, RemoveNothing, DeleteThread, DeleteNothing
  <2>7. \A v \in Worker \ {w} : req'[v] = req[v]
    BY <1>1, <2>6, Continues, IdleSteps DEF DeleteMessages, DeleteMembers, TypeOK
  <2>8. Pending(t)' = Pending(t)
    BY <1>1, <2>2, <1>6, <2>7 DEF Pending, Deleting
  <2>9. CASE DeleteMessages(w, t, u)
    <3>1. Pending(t) = {w} /\ req'[w].pc = "members"
      BY <1>6, <2>1, <2>9 DEF DeleteMessages
    <3>2. author'[t] = author[t] /\ doomed'[w] = author[t]
      BY <2>9 DEF DeleteMessages, tables, TypeOK
    <3> QED BY <2>8, <3>1, <3>2 DEF Alone
  <2>10. CASE DeleteMembers(w, t, u)
    <3>1. Alone(w, t)
      BY <1>6, <2>10 DEF DeleteMembers, AloneInv, Deleting, At, history
    <3>2. /\ author'[t] = author[t] /\ role'[t] = role[t] /\ doomed'[w] = doomed[w]
          /\ dropped'[w] = {x \in User : role[t][x] # NoRow}
      BY <2>10 DEF DeleteMembers, tables, TypeOK
    <3> QED BY <2>8, <3>1, <3>2 DEF Alone
  <2> QED BY <2>6, <2>9, <2>10
<1> QED BY <1>1, <1>2, <1>3, <1>4, <1>5, <1>6, OthersAlone

EmptyInv == GoneInv /\ AloneInv

\* Nothing is left in a deleted thread and nothing grows there, unless its
\* deletion met another request: for any number of users and requests.
THEOREM DeletedEmpty == Spec => []DeletedStaysEmpty
<1>1. Init => EmptyInv
  BY IdleSteps DEF Init, EmptyInv, GoneInv, AloneInv, Pending, Deleting
<1>2. TypeOK /\ TypeOK' /\ EmptyInv /\ [Next]_vars => EmptyInv'
  <2> SUFFICES ASSUME TypeOK, TypeOK', GoneInv, AloneInv, [Next]_vars
               PROVE  GoneInv' /\ AloneInv'
    BY DEF EmptyInv
  <2>1. CASE UNCHANGED vars
    BY <2>1 DEF vars, GoneInv, AloneInv, Alone, Deleting, Pending
  <2>2. ASSUME NEW w \in Worker, Crash(w) PROVE GoneInv' /\ AloneInv'
    <3>1. req'[w] = Idle /\ \A v \in Worker \ {w} : req'[v] = req[v]
      BY <2>2, Finishes DEF Crash, TypeOK
    <3>2. \A t \in Thread : Pending(t)' \subseteq Pending(t)
      BY <3>1, IdleSteps DEF Pending
    <3>3. GoneInv'
      BY <2>2, <3>2 DEF Crash, tables, history, GoneInv, TypeOK
    <3>4. req[w].pc # "idle" /\ req[w].t \in Thread
      BY <2>2, RequestFields, IdleSteps DEF Crash, TypeOK, Request, Idle
    <3>5. \A v \in Worker \ {w} : doomed'[v] = doomed[v] /\ dropped'[v] = dropped[v]
      BY <2>2 DEF Crash, TypeOK
    <3>6. OthersStay(w)
      BY <3>1 DEF OthersStay
    <3>7. met \ {w} \subseteq met' /\ UNCHANGED <<exists, deleted, role, author>>
      BY <2>2 DEF Crash, tables
    <3>8. AloneInv'
      <4>1. PICK t \in Thread : req[w].t = t
        BY <3>4
      <4>2. ~ Deleting(w, t)'
        <5>1. req'[w].pc = "idle"
          BY <3>1, IdleSteps
        <5> QED BY <5>1 DEF Deleting
      <4>3. /\ req'[w] = Idle /\ OthersStay(w) /\ met \ {w} \subseteq met'
            /\ exists \cup deleted \subseteq exists' \cup deleted'
            /\ \A s \in Thread \ {t} : role'[s] = role[s] /\ author'[s] = author[s]
            /\ \A v \in Worker \ {w} :
                 ~ Deleting(v, t) => doomed'[v] = doomed[v] /\ dropped'[v] = dropped[v]
        BY <3>1, <3>5, <3>6, <3>7
      <4> QED BY <3>4, <4>1, <4>2, <4>3, OthersAlone
    <3> QED BY <3>3, <3>8
  <2> SUFFICES ASSUME NEW w \in Worker, NEW t \in Thread, NEW u \in User,
                      Arrive(w, t, u) \/ Proceed(w, t, u)
               PROVE  GoneInv' /\ AloneInv'
    BY <2>1, <2>2 DEF Next
  <2>3. CASE Arrive(w, t, u)
    <3>1. ASSUME NEW op, CreateThread(w, op, t, u) PROVE GoneInv' /\ AloneInv'
      <4>1. GoneInv'
        BY <3>1, ArrivalStep DEF CreateThread, history
      <4>2. {v \in Worker : Deleting(v, t)} = {}
        BY <3>1 DEF CreateThread, AloneInv, Pending, Deleting
      <4>3. met' = met \cup {v \in Worker : Deleting(v, t)}
        BY <3>1, <4>2 DEF CreateThread, history
      <4>4. AloneInv'
        <5> DEFINE q == [pc |-> "own", op |-> op, t |-> t, u |-> u]
        <5>1. /\ req[w] = Idle /\ req' = [req EXCEPT ![w] = q]
              /\ q.t = t /\ q.pc \notin {"members", "thread"}
              /\ t \in exists' \cup deleted'
              /\ exists \cup deleted \subseteq exists' \cup deleted'
              /\ UNCHANGED <<role, author, doomed, dropped>>
          BY <3>1 DEF CreateThread, open
        <5> HIDE DEF q
        <5> QED BY <4>3, <5>1, ArrivalAlone
      <4> QED BY <4>1, <4>4
    <3>2. ASSUME NEW op, NEW pc \in {"work", "heal"}, Enter(w, op, t, u, pc),
                 t \notin deleted \ late', late \subseteq late'
          PROVE  GoneInv' /\ AloneInv'
      <4>1. GoneInv'
        BY <3>2, ArrivalStep DEF Enter, tables
      <4>2. AloneInv'
        <5> DEFINE q == [pc |-> pc, op |-> op, t |-> t, u |-> u]
        <5>1. /\ req[w] = Idle /\ req' = [req EXCEPT ![w] = q]
              /\ q.t = t /\ q.pc \notin {"members", "thread"}
              /\ met' = met \cup {v \in Worker : Deleting(v, t)}
              /\ t \in exists' \cup deleted'
              /\ exists \cup deleted \subseteq exists' \cup deleted'
              /\ UNCHANGED <<role, author, doomed, dropped>>
          BY <3>2 DEF Enter, tables, open
        <5> HIDE DEF q
        <5> QED BY <5>1, ArrivalAlone
      <4> QED BY <4>1, <4>2
    <3>3. ASSUME NEW op \in Op, EnterAsMember(w, op, t, u) PROVE GoneInv' /\ AloneInv'
      <4>1. t \notin deleted \ late
        BY <3>3 DEF EnterAsMember, MayDo, GoneInv
      <4> QED BY <3>2, <3>3, <4>1 DEF EnterAsMember
    <3>4. ASSUME NEW op \in Op, EnterAsAuthor(w, op, t, u) PROVE GoneInv' /\ AloneInv'
      <4>1. t \notin deleted \ late
        BY <3>4 DEF EnterAsAuthor, GoneInv
      <4> QED BY <3>2, <3>4, <4>1 DEF EnterAsAuthor
    <3>5. ASSUME NEW op \in Op, EnterAsPlatformAdmin(w, op, t, u)
          PROVE  GoneInv' /\ AloneInv'
      <4>1. t \notin deleted \ late' /\ late \subseteq late'
        BY <3>5 DEF EnterAsPlatformAdmin
      <4> QED BY <3>2, <3>5, <4>1 DEF EnterAsPlatformAdmin
    <3> QED BY <2>3, <3>1, <3>3, <3>4, <3>5 DEF Arrive
  <2>4. CASE DeleteThread(w, t, u)
    <3>1. Proceed(w, t, u)
      BY <2>4 DEF Proceed
    <3> QED BY <2>4, <3>1, DeleteStep, StepAlone
  <2>5. CASE Proceed(w, t, u) /\ ~ DeleteThread(w, t, u)
    <3>1. UNCHANGED <<deleted, late>>
      BY <2>5 DEF Proceed, EnsureOwner, Heal, PostMessage, PostAnswer, ReadMessages, AddMember,
                  RemoveCheck, RemoveMember, RemoveNothing, DeleteMessages, DeleteMembers,
                  DeleteNothing, tables, history
    <3>2. \A s \in Thread \ {t} : role'[s] = role[s] /\ author'[s] = author[s]
      BY <2>5 DEF Proceed, EnsureOwner, Heal, PostMessage, PostAnswer, ReadMessages,
                  StoreMessage, AddMember, RemoveCheck, RemoveMember, RemoveNothing,
                  DeleteMessages, DeleteMembers, DeleteNothing, tables, history,
                  InsertRow, DeleteRow, TypeOK
    <3>3. GoneInv'
      BY <2>5, <3>1, <3>2, RequestsAfter, PendingStep
    <3> QED BY <2>5, <3>3, StepAlone
  <2> QED BY <2>3, <2>4, <2>5
<1>3. EmptyInv => DeletedStaysEmpty
  BY DEF EmptyInv, GoneInv, DeletedStaysEmpty
<1> QED BY <1>1, <1>2, <1>3, TypeCorrect, PTL DEF Spec

-----------------------------------------------------------------------------
(* An owner remains.  A removal counts the owners before it deletes: what  *)
(* it counted still holds at the deletion, as long as no removal of        *)
(* another owner came in between.                                          *)

Used(t) == creator[t] # {} \/ \E u \in User : role[t][u] # NoRow
Calm(t) == t \in exists \ overlapped

\* Who adds members found an owner; a removal still has its row, and leaves an
\* owner; removals of owners are of the same one.
KeptInv ==
  /\ \A t \in Thread : Used(t) \/ Pending(t) # {} => t \in exists \cup deleted
  /\ \A t \in Thread : Calm(t) /\ Used(t) => Owners(t) # {}
  /\ \A w \in Worker, t \in Thread, u \in User :
       Calm(t) /\ Serves(w, "add", t, u) => Owners(t) # {}
  /\ \A w \in Worker, t \in Thread, x \in User :
       At(w, "remove", t, x) => role[t][x] # NoRow /\ (Calm(t) => Owners(t) # {x})
  /\ \A v, w \in Worker, t \in Thread, x, y \in User :
       /\ Calm(t) /\ {x, y} \subseteq Owners(t)
       /\ At(v, "remove", t, x) /\ At(w, "remove", t, y)
       => x = y

\* Rows that are added to, or stay, keep the owners and what removals loaded;
\* a new request neither removes nor adds without an owner.
LEMMA NoOwnerLost ==
  ASSUME TypeOK, KeptInv, NEW w \in Worker,
         \A s \in Thread, u \in User :
           role'[s][u] = role[s][u] \/ role[s][u] = NoRow,
         \A s \in Thread : Used(s)' => s \in (exists \cup deleted)' ,
         \A s \in Thread : Calm(s)' => Calm(s) \/ (~ Used(s)' /\ Pending(s) = {}),
         \A s \in Thread : Calm(s)' /\ Used(s)' => Used(s) \/ Owners(s)' # {},
         exists \cup deleted \subseteq exists' \cup deleted',
         \A v \in Worker \ {w} : req'[v] = req[v],
         req'[w].pc # "idle" => req'[w].t \in Thread /\ req'[w].t \in exists' \cup deleted',
         req'[w].pc # "remove",
         req'[w].pc = "work" /\ req'[w].op = "add" /\ Calm(req[w].t)' => Owners(req[w].t)' # {}
  PROVE  KeptInv'
<1>1. \A s \in Thread : Owners(s) \subseteq Owners(s)'
  BY DEF Owners, NoRow
<1>2. \A s \in Thread : Used(s)' \/ Pending(s)' # {} => s \in exists' \cup deleted'
  BY DEF KeptInv, Pending
<1>3. \A s \in Thread : Calm(s)' /\ Used(s)' => Owners(s)' # {}
  BY <1>1 DEF KeptInv
<1>4. \A v \in Worker, s \in Thread, u \in User :
        Calm(s)' /\ Serves(v, "add", s, u)' => Owners(s)' # {}
  <2> SUFFICES ASSUME NEW v \in Worker, NEW s \in Thread, NEW u \in User,
                      Calm(s)', Serves(v, "add", s, u)'
               PROVE  Owners(s)' # {}
    OBVIOUS
  <2>1. CASE v = w
    BY <2>1 DEF Serves, At
  <2>2. CASE v # w
    <3>1. Serves(v, "add", s, u) /\ Pending(s) # {}
      BY <2>2 DEF Serves, At, Pending
    <3> QED BY <1>1, <3>1 DEF KeptInv
  <2> QED BY <2>1, <2>2
<1>5. ASSUME NEW v \in Worker, NEW s \in Thread, NEW x \in User, At(v, "remove", s, x)'
      PROVE  /\ At(v, "remove", s, x)
             /\ role[s][x] # NoRow /\ role'[s][x] = role[s][x]
             /\ Calm(s)' => Calm(s) /\ Owners(s) # {x}
  <2>1. At(v, "remove", s, x) /\ Pending(s) # {}
    BY <1>5 DEF At, Pending
  <2> QED BY <2>1 DEF KeptInv
<1>6. \A v \in Worker, s \in Thread, x \in User :
        At(v, "remove", s, x)' => role'[s][x] # NoRow /\ (Calm(s)' => Owners(s)' # {x})
  <2> SUFFICES ASSUME NEW v \in Worker, NEW s \in Thread, NEW x \in User,
                      At(v, "remove", s, x)'
               PROVE  role'[s][x] # NoRow /\ (Calm(s)' => Owners(s)' # {x})
    OBVIOUS
  <2>1. CASE ~ Calm(s)'
    BY <1>5, <2>1
  <2>2. CASE Calm(s)'
    <3>1. Owners(s) # {x} /\ Owners(s) # {}
      BY <1>5, <2>2 DEF KeptInv, Used
    <3>2. PICK y \in Owners(s) : y # x
      BY <3>1
    <3> QED BY <1>1, <1>5, <3>2
  <2> QED BY <2>1, <2>2
<1>7. \A v, z \in Worker, s \in Thread, x, y \in User :
        /\ Calm(s)' /\ {x, y} \subseteq Owners(s)'
        /\ At(v, "remove", s, x)' /\ At(z, "remove", s, y)'
        => x = y
  <2> SUFFICES ASSUME NEW v \in Worker, NEW z \in Worker, NEW s \in Thread,
                      NEW x \in User, NEW y \in User,
                      Calm(s)', {x, y} \subseteq Owners(s)',
                      At(v, "remove", s, x)', At(z, "remove", s, y)'
               PROVE  x = y
    OBVIOUS
  <2>1. {x, y} \subseteq Owners(s) /\ Calm(s)
    BY <1>5 DEF Owners
  <2> QED BY <1>5, <2>1 DEF KeptInv
<1> QED BY <1>2, <1>3, <1>4, <1>6, <1>7 DEF KeptInv

\* The check of a removal: it loads a row that is not the last owner's, and
\* marks the thread when another owner's row is loaded already.
LEMMA CheckKeeps ==
  ASSUME TypeOK, KeptInv, NEW w \in Worker, NEW t \in Thread, NEW u \in User, NEW x \in User,
         RemoveCheck(w, t, u, x)
  PROVE  KeptInv'
<1>1. UNCHANGED <<exists, deleted, role, author, creator, granted, removed, late>>
  BY DEF RemoveCheck, tables
<1>2. /\ \A s \in Thread : Calm(s)' => Calm(s)
      /\ \A s \in Thread : Used(s)' = Used(s) /\ Owners(s)' = Owners(s)
  BY <1>1 DEF RemoveCheck, Calm, Used, Owners
<1>3. /\ req[w].pc = "work" /\ req[w].op = "remove" /\ req[w].t = t
      /\ \A v \in Worker \ {w} : req'[v] = req[v]
      /\ \/ req'[w] = Idle
         \/ /\ req'[w].pc = "remove" /\ req'[w].t = t /\ req'[w].u = x
            /\ role[t][x] # NoRow /\ Owners(t) # {x}
  BY RemovalChecked, Finishes, IdleSteps
  DEF RemoveCheck, Serves, At, TypeOK, LastOwner
<1>4. \A s \in Thread : Pending(s)' \subseteq Pending(s)
  BY <1>3, IdleSteps DEF Pending
<1>5. \A v \in Worker, s \in Thread, y \in User :
        Serves(v, "add", s, y)' => Serves(v, "add", s, y)
  BY <1>3, IdleSteps DEF Serves, At
<1>6. \A v \in Worker, s \in Thread, y \in User :
        At(v, "remove", s, y)' =>
          \/ v # w /\ At(v, "remove", s, y)
          \/ v = w /\ s = t /\ y = x /\ role[s][y] # NoRow /\ Owners(s) # {y}
  BY <1>3, IdleSteps DEF At
<1>7. \A v \in Worker, y \in User :
        v # w /\ At(v, "remove", t, y) /\ {x, y} \subseteq Owners(t) /\ Calm(t)' => x = y
  BY DEF RemoveCheck, Calm
<1>8. \A v \in Worker, s \in Thread, y \in User :
        At(v, "remove", s, y)' => role'[s][y] # NoRow /\ (Calm(s)' => Owners(s)' # {y})
  BY <1>1, <1>2, <1>6 DEF KeptInv
<1>9. \A v, z \in Worker, s \in Thread, a, b \in User :
        /\ Calm(s)' /\ {a, b} \subseteq Owners(s)'
        /\ At(v, "remove", s, a)' /\ At(z, "remove", s, b)'
        => a = b
  <2> SUFFICES ASSUME NEW v \in Worker, NEW z \in Worker, NEW s \in Thread,
                      NEW a \in User, NEW b \in User,
                      Calm(s)', {a, b} \subseteq Owners(s)',
                      At(v, "remove", s, a)', At(z, "remove", s, b)'
               PROVE  a = b
    OBVIOUS
  <2>1. Calm(s) /\ {a, b} \subseteq Owners(s)
    BY <1>2
  <2>2. CASE v = w /\ z = w
    BY <1>6, <2>2
  <2>3. CASE v = w /\ z # w
    BY <1>6, <1>7, <2>1, <2>3
  <2>4. CASE v # w /\ z = w
    BY <1>6, <1>7, <2>1, <2>4
  <2>5. CASE v # w /\ z # w
    BY <1>6, <2>1, <2>5 DEF KeptInv
  <2> QED BY <2>2, <2>3, <2>4, <2>5
<1>10. \A s \in Thread : Used(s)' \/ Pending(s)' # {} => s \in exists' \cup deleted'
  BY <1>1, <1>2, <1>4 DEF KeptInv
<1>11. \A s \in Thread : Calm(s)' /\ Used(s)' => Owners(s)' # {}
  BY <1>2 DEF KeptInv
<1>12. \A v \in Worker, s \in Thread, y \in User :
         Calm(s)' /\ Serves(v, "add", s, y)' => Owners(s)' # {}
  BY <1>2, <1>5 DEF KeptInv
<1> QED BY <1>8, <1>9, <1>10, <1>11, <1>12 DEF KeptInv

\* The deletion of one row, of an owner or not: another owner was counted, and
\* nobody else is about to delete that one.
LEMMA RemovalKeeps ==
  ASSUME TypeOK, KeptInv, NEW w \in Worker, NEW t \in Thread, NEW x \in User,
         RemoveMember(w, t, x)
  PROVE  KeptInv'
<1>1. UNCHANGED <<exists, deleted, creator, overlapped>> /\ At(w, "remove", t, x)
  BY DEF RemoveMember
<1>2. \A s \in Thread, u \in User :
        role'[s][u] = IF s = t /\ u = x THEN NoRow ELSE role[s][u]
  BY DEF RemoveMember, DeleteRow, TypeOK
<1>3. /\ req'[w] = Idle /\ OthersStay(w)
      /\ \A v \in Worker : req'[v].pc = "remove" => ~ (req'[v].t = t /\ req'[v].u = x)
  BY FinishesDeleting DEF RemoveMember, TypeOK, OthersStay
<1>4. /\ \A s \in Thread : Calm(s)' = Calm(s) /\ (Used(s)' => Used(s))
      /\ \A s \in Thread : Owners(s)' = IF s = t THEN Owners(s) \ {x} ELSE Owners(s)
  BY <1>1, <1>2 DEF Calm, Used, Owners, NoRow
<1>5. \A s \in Thread : Pending(s)' \subseteq Pending(s)
  BY <1>3, IdleSteps DEF Pending, OthersStay
<1>6. \A v \in Worker, s \in Thread, y \in User :
        At(v, "remove", s, y)' => v # w /\ At(v, "remove", s, y) /\ (s = t => y # x)
  BY <1>3, IdleSteps DEF At, OthersStay
<1>7. Calm(t) => Owners(t) \ {x} # {}
  <2>1. Calm(t) => Owners(t) # {} /\ Owners(t) # {x}
    BY <1>1 DEF KeptInv, Used
  <2> QED BY <2>1
<1>8. \A s \in Thread : Calm(s)' /\ Owners(s) # {} => Owners(s)' # {}
  BY <1>4, <1>7
<1>9. \A v \in Worker, s \in Thread, y \in User :
        Calm(s)' /\ Serves(v, "add", s, y)' => Owners(s)' # {}
  <2>1. \A v \in Worker, s \in Thread, y \in User :
          Serves(v, "add", s, y)' => Serves(v, "add", s, y)
    BY <1>3, IdleSteps DEF Serves, At, OthersStay
  <2> QED BY <1>4, <1>8, <2>1 DEF KeptInv
<1>10. \A v \in Worker, s \in Thread, y \in User :
         At(v, "remove", s, y)' => role'[s][y] # NoRow /\ (Calm(s)' => Owners(s)' # {y})
  <2> SUFFICES ASSUME NEW v \in Worker, NEW s \in Thread, NEW y \in User,
                      At(v, "remove", s, y)'
               PROVE  role'[s][y] # NoRow /\ (Calm(s)' => Owners(s)' # {y})
    OBVIOUS
  <2>1. v # w /\ At(v, "remove", s, y) /\ (s = t => y # x)
    BY <1>6
  <2>2. role'[s][y] # NoRow
    BY <1>2, <2>1 DEF KeptInv
  <2>3. CASE s # t
    BY <1>4, <2>1, <2>2, <2>3 DEF KeptInv
  <2>4. CASE s = t /\ x \in Owners(t)
    \* Then y is no owner: the removals of two owners would have overlapped.
    <3>1. Calm(t) => y \notin Owners(t)
      BY <1>1, <2>1, <2>4 DEF KeptInv
    <3> QED BY <1>4, <2>2, <2>4, <3>1
  <2>5. CASE s = t /\ x \notin Owners(t)
    BY <1>4, <2>1, <2>2, <2>5 DEF KeptInv
  <2> QED BY <2>3, <2>4, <2>5
<1>11. \A v, z \in Worker, s \in Thread, a, b \in User :
         /\ Calm(s)' /\ {a, b} \subseteq Owners(s)'
         /\ At(v, "remove", s, a)' /\ At(z, "remove", s, b)'
         => a = b
  <2> SUFFICES ASSUME NEW v \in Worker, NEW z \in Worker, NEW s \in Thread,
                      NEW a \in User, NEW b \in User,
                      Calm(s)', {a, b} \subseteq Owners(s)',
                      At(v, "remove", s, a)', At(z, "remove", s, b)'
               PROVE  a = b
    OBVIOUS
  <2>1. Calm(s) /\ {a, b} \subseteq Owners(s)
    BY <1>4
  <2>2. At(v, "remove", s, a) /\ At(z, "remove", s, b)
    BY <1>6
  <2> QED BY <2>1, <2>2 DEF KeptInv
<1>12. \A s \in Thread : Used(s)' \/ Pending(s)' # {} => s \in exists' \cup deleted'
  BY <1>1, <1>4, <1>5 DEF KeptInv
<1>13. \A s \in Thread : Calm(s)' /\ Used(s)' => Owners(s)' # {}
  BY <1>4, <1>8 DEF KeptInv
<1> QED BY <1>9, <1>10, <1>11, <1>12, <1>13 DEF KeptInv

\* The deletion of a thread: nothing is said of it any more.
LEMMA DeletionKeeps ==
  ASSUME TypeOK, KeptInv, NEW w \in Worker, NEW t \in Thread, NEW u \in User,
         DeleteThread(w, t, u)
  PROVE  KeptInv'
<1>1. /\ exists' = exists \ {t} /\ deleted' = deleted \cup {t}
      /\ UNCHANGED <<creator, overlapped>>
  BY DEF DeleteThread
<1>2. /\ \A s \in Thread \ {t} : role'[s] = role[s]
      /\ \A x \in User : role'[t][x] = IF x \in dropped[w] THEN NoRow ELSE role[t][x]
  BY DEF DeleteThread, TypeOK
<1>3. /\ req'[w] = Idle /\ OthersStay(w)
      /\ \A v \in Worker : req'[v].pc = "remove"
                           => ~ (req'[v].t = t /\ req'[v].u \in dropped[w])
  BY FinishesDeleting DEF DeleteThread, TypeOK, OthersStay
<1>4. \A s \in Thread : Calm(s)' => Calm(s) /\ s # t
  BY <1>1 DEF Calm
<1>5. \A s \in Thread \ {t} : Owners(s)' = Owners(s) /\ (Used(s)' => Used(s))
  BY <1>1, <1>2 DEF Owners, Used
<1>6. \A s \in Thread : Pending(s)' \subseteq Pending(s)
  BY <1>3, IdleSteps DEF Pending, OthersStay
<1>7. \A s \in Thread : Used(s)' \/ Pending(s)' # {} => s \in exists' \cup deleted'
  BY <1>1, <1>5, <1>6 DEF KeptInv
<1>8. \A v \in Worker, s \in Thread, y \in User :
        At(v, "remove", s, y)' => (s = t => y \notin dropped[w]) /\ At(v, "remove", s, y)
  BY <1>3, IdleSteps DEF At, OthersStay
<1>9. \A v \in Worker, s \in Thread, y \in User :
        Serves(v, "add", s, y)' => Serves(v, "add", s, y)
  BY <1>3, IdleSteps DEF Serves, At, OthersStay
<1>10. \A v \in Worker, s \in Thread, y \in User :
         At(v, "remove", s, y)' => role'[s][y] # NoRow /\ (Calm(s)' => Owners(s)' # {y})
  <2> SUFFICES ASSUME NEW v \in Worker, NEW s \in Thread, NEW y \in User,
                      At(v, "remove", s, y)'
               PROVE  role'[s][y] # NoRow /\ (Calm(s)' => Owners(s)' # {y})
    OBVIOUS
  <2>1. role[s][y] # NoRow /\ (Calm(s) => Owners(s) # {y})
    BY <1>8 DEF KeptInv
  <2> QED BY <1>2, <1>4, <1>5, <1>8, <2>1
<1>11. \A s \in Thread : Calm(s)' /\ Used(s)' => Owners(s)' # {}
  BY <1>4, <1>5 DEF KeptInv
<1>12. \A v \in Worker, s \in Thread, y \in User :
         Calm(s)' /\ Serves(v, "add", s, y)' => Owners(s)' # {}
  BY <1>4, <1>5, <1>9 DEF KeptInv
<1>13. \A v, z \in Worker, s \in Thread, a, b \in User :
         /\ Calm(s)' /\ {a, b} \subseteq Owners(s)'
         /\ At(v, "remove", s, a)' /\ At(z, "remove", s, b)'
         => a = b
  BY <1>4, <1>5, <1>8 DEF KeptInv
<1> QED BY <1>7, <1>10, <1>11, <1>12, <1>13 DEF KeptInv

\* A row that is inserted is an owner's, or finds an owner.
LEMMA InsertKeeps ==
  ASSUME TypeOK, KeptInv, NEW w \in Worker, NEW t \in Thread, NEW x \in User, NEW r \in Role,
         role' = InsertRow(t, x, r),
         r = "owner" \/ (Calm(t) => Owners(t) # {}),
         UNCHANGED <<exists, deleted, overlapped>>,
         \A s \in Thread \ {t} : creator'[s] = creator[s],
         t \in exists \cup deleted,
         \A v \in Worker \ {w} : req'[v] = req[v],
         req'[w] = Idle \/ (req'[w].pc \in {"work", "answer"} /\ req'[w].t = t)
  PROVE  KeptInv'
<1>1. \A s \in Thread, u \in User :
        role'[s][u] = IF s = t /\ u = x /\ role[s][u] = NoRow THEN r ELSE role[s][u]
  BY Rows DEF TypeOK
<1>2. NoRow \notin Role
  BY DEF Role, GrantableRole, NoRow
<1>3. \A s \in Thread : Calm(s)' = Calm(s)
  BY DEF Calm
<1>4. \A s \in Thread \ {t} : Used(s)' = Used(s) /\ Owners(s)' = Owners(s)
  BY <1>1 DEF Used, Owners
<1>5. Calm(t) => Owners(t)' # {}
  <2>1. CASE role[t][x] = NoRow /\ r = "owner"
    BY <1>1, <2>1 DEF Owners
  <2>2. CASE role[t][x] # NoRow
    <3>1. Calm(t) => Owners(t) # {}
      BY <2>2 DEF KeptInv, Used
    <3> QED BY <1>1, <1>2, <2>2, <3>1 DEF Owners, NoRow
  <2>3. CASE Calm(t) => Owners(t) # {}
    BY <1>1, <2>3 DEF Owners, NoRow
  <2> QED BY <2>1, <2>2, <2>3
<1>6. \A s \in Thread : Used(s)' => s \in (exists \cup deleted)'
  BY <1>4 DEF KeptInv
<1>7. \A s \in Thread : Calm(s)' /\ Used(s)' => Used(s) \/ Owners(s)' # {}
  BY <1>3, <1>4, <1>5
<1>8. req'[w].pc # "idle" => req'[w].t \in Thread /\ req'[w].t \in exists' \cup deleted'
  BY IdleSteps
<1>9. req'[w].pc # "remove"
  BY IdleSteps
<1>10. req'[w].pc = "work" /\ req'[w].op = "add" /\ Calm(req[w].t)' => Owners(req[w].t)' # {}
  <2>1. req'[w].pc = "work" => req'[w].t = t
    BY IdleSteps
  <2>2. Calm(t)' => Owners(t)' # {}
    BY <1>3, <1>5
  <2> QED BY <2>1, <2>2 DEF Calm, Owners
<1> QED BY <1>1, <1>3, <1>6, <1>7, <1>8, <1>9, <1>10, NoOwnerLost

\* remove_thread_member keeps an owner in every thread that got one, unless the
\* removals of two owners overlap: for any number of users and requests.
THEOREM OwnerRemains == Spec => []OwnerKept
<1>1. Init => KeptInv
  BY IdleSteps DEF Init, KeptInv, Used, Calm, Pending, Serves, At
<1>2. TypeOK /\ TypeOK' /\ KeptInv /\ [Next]_vars => KeptInv'
  <2> SUFFICES ASSUME TypeOK, TypeOK', KeptInv, [Next]_vars PROVE KeptInv'
    OBVIOUS
  <2>1. CASE UNCHANGED vars
    BY <2>1 DEF vars, KeptInv, Used, Calm, Pending, Serves, At, Owners
  <2>2. ASSUME NEW w \in Worker, UNCHANGED <<exists, deleted, role, creator, overlapped>>,
               \A v \in Worker \ {w} : req'[v] = req[v],
               req'[w] # Idle => /\ req'[w].t \in Thread /\ req'[w].t \in exists \cup deleted
                                 /\ req'[w].pc # "remove"
                                 /\ req'[w].pc = "work" /\ req'[w].op = "add"
                                    /\ Calm(req[w].t)' => Owners(req[w].t)' # {}
        PROVE  KeptInv'
    <3>1. \A s \in Thread : Calm(s)' = Calm(s) /\ Used(s)' = Used(s)
      BY <2>2 DEF Calm, Used
    <3>2. \A s \in Thread : Used(s)' => s \in (exists \cup deleted)'
      BY <2>2, <3>1 DEF KeptInv
    <3> QED BY <2>2, <3>1, <3>2, IdleSteps, NoOwnerLost
  <2>3. ASSUME NEW w \in Worker, Crash(w) PROVE KeptInv'
    BY <2>2, <2>3, Finishes DEF Crash, TypeOK, tables
  <2> SUFFICES ASSUME NEW w \in Worker, NEW t \in Thread, NEW u \in User,
                      Arrive(w, t, u) \/ Proceed(w, t, u)
               PROVE  KeptInv'
    BY <2>1, <2>3 DEF Next
  <2>4. CASE Arrive(w, t, u)
    <3>1. ASSUME NEW op, CreateThread(w, op, t, u) PROVE KeptInv'
      <4>1. /\ exists' = exists \cup {t} /\ t \notin exists \cup deleted
            /\ UNCHANGED <<deleted, role, creator, overlapped>>
            /\ req'[w].pc = "own" /\ req'[w].t = t /\ \A v \in Worker \ {w} : req'[v] = req[v]
        BY <3>1 DEF CreateThread, history, TypeOK
      <4>2. ~ Used(t) /\ Pending(t) = {}
        BY <4>1 DEF KeptInv
      <4>3. /\ \A s \in Thread : Used(s)' = Used(s)
            /\ \A s \in Thread \ {t} : Calm(s)' = Calm(s)
        BY <4>1 DEF Used, Calm
      <4>4. \A s \in Thread : Used(s)' => s \in (exists \cup deleted)'
        BY <4>1, <4>3 DEF KeptInv
      <4> QED BY <4>1, <4>2, <4>3, <4>4, NoOwnerLost
    <3>2. ASSUME NEW op, NEW pc \in {"work", "heal"}, Enter(w, op, t, u, pc),
                 pc = "work" /\ op = "add" => role[t][u] # NoRow
          PROVE  KeptInv'
      <4>1. /\ UNCHANGED <<exists, deleted, role, creator, overlapped>>
            /\ req'[w].pc = pc /\ req'[w].op = op /\ req'[w].t = t
            /\ \A v \in Worker \ {w} : req'[v] = req[v]
            /\ t \in exists \cup deleted
        BY <3>2 DEF Enter, tables, TypeOK
      <4>2. req'[w].pc = "work" /\ req'[w].op = "add" /\ Calm(t) => Owners(t) # {}
        BY <3>2, <4>1 DEF KeptInv, Used
      <4>3. req'[w].pc = "work" /\ req'[w].op = "add" /\ Calm(req[w].t)' => Owners(req[w].t)' # {}
        BY <4>1, <4>2 DEF Calm, Owners
      <4> QED BY <2>2, <4>1, <4>3
    <3>3. ASSUME NEW op \in Op,
                 EnterAsMember(w, op, t, u) \/ EnterAsAuthor(w, op, t, u)
                   \/ EnterAsPlatformAdmin(w, op, t, u)
          PROVE  KeptInv'
      BY <3>2, <3>3 DEF EnterAsMember, EnterAsAuthor, EnterAsPlatformAdmin, MayDo, BypassesAcl
    <3> QED BY <2>4, <3>1, <3>3 DEF Arrive
  <2>5. CASE Proceed(w, t, u)
    <3>1. req[w].t = t /\ t \in exists \cup deleted
      BY <2>5, RequestsAfter DEF KeptInv, Pending
    <3>2. CASE RemoveMember(w, t, u)
      BY <3>2, RemovalKeeps
    <3>3. CASE DeleteThread(w, t, u)
      BY <3>3, DeletionKeeps
    <3>4. CASE \E x \in User : RemoveCheck(w, t, u, x)
      BY <3>4, CheckKeeps
    <3>5. CASE EnsureOwner(w, t, u) \/ Heal(w, t, u)
      <4>1. /\ role' = InsertRow(t, u, "owner") /\ "owner" \in Role
            /\ UNCHANGED <<exists, deleted, overlapped>>
            /\ \A s \in Thread \ {t} : creator'[s] = creator[s]
        BY <3>5 DEF EnsureOwner, Heal, history, Role, TypeOK
      <4>2. /\ \A v \in Worker \ {w} : req'[v] = req[v]
            /\ req'[w] = Idle \/ (req'[w].pc = "work" /\ req'[w].t = t)
        BY <3>5, IdleSteps, Continues, Finishes DEF EnsureOwner, Heal, At, TypeOK
      <4> QED BY <3>1, <4>1, <4>2, InsertKeeps
    <3>6. CASE \E x \in User, r \in GrantableRole : AddMember(w, t, u, x, r)
      <4>1. PICK x \in User, r \in GrantableRole : AddMember(w, t, u, x, r)
        BY <3>6
      <4>2. /\ role' = InsertRow(t, x, r) /\ r \in Role
            /\ UNCHANGED <<exists, deleted, overlapped, creator>>
            /\ Calm(t) => Owners(t) # {}
        BY <4>1 DEF AddMember, Role, KeptInv
      <4>3. req'[w] = Idle /\ \A v \in Worker \ {w} : req'[v] = req[v]
        BY <4>1, Finishes DEF AddMember, TypeOK
      <4> QED BY <3>1, <4>2, <4>3, InsertKeeps
    <3>7. CASE PostMessage(w, t, u) \/ PostAnswer(w, t, u) \/ ReadMessages(w, t, u)
                 \/ RemoveNothing(w, t, u) \/ DeleteNothing(w, t, u)
                 \/ DeleteMessages(w, t, u) \/ DeleteMembers(w, t, u)
      <4>1. UNCHANGED <<exists, deleted, role, creator, overlapped>>
        BY <3>7 DEF PostMessage, PostAnswer, ReadMessages, RemoveNothing, DeleteNothing,
                    DeleteMessages, DeleteMembers, tables, history
      <4>2. /\ \A v \in Worker \ {w} : req'[v] = req[v]
            /\ req'[w] = Idle \/ (/\ req'[w].pc \in {"answer", "members", "thread"}
                                  /\ req'[w].t = t)
        BY <3>7, IdleSteps, Continues, Finishes
        DEF PostMessage, PostAnswer, ReadMessages, RemoveNothing, DeleteNothing,
            DeleteMessages, DeleteMembers, Serves, At, TypeOK
      <4> QED BY <2>2, <3>1, <4>1, <4>2
    <3> QED BY <2>5, <3>2, <3>3, <3>4, <3>5, <3>6, <3>7 DEF Proceed
  <2> QED BY <2>4, <2>5
<1>3. TypeOK => (KeptInv => OwnerKept)
  BY DEF KeptInv, OwnerKept, Calm, Used, TypeOK
<1> QED BY <1>1, <1>2, <1>3, TypeCorrect, PTL DEF Spec
=============================================================================

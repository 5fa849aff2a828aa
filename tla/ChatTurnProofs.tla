--------------------------- MODULE ChatTurnProofs ---------------------------
(* Proofs about ChatTurn, for every set of messages and workers and every  *)
(* number of agents, turns, attempts and restarts; and, after them, about  *)
(* TurnPlan, for every organization, every message and any number of turns *)
(* at a time.                                                              *)
EXTENDS ChatTurn, TurnPlan, FiniteSetTheorems, FunctionTheorems, SequenceTheorems,
        WellFoundedInduction, TLAPS

\* The turns taken and the turns left are no more than the guidance was set
\* to: taking one moves it from guidance to guided, setting and losing the
\* guidance lower the sum.
TurnsInv ==
  /\ guidance \in Nat
  /\ guided \in Nat
  /\ guided + guidance <= Turns

\* No more requests are guided than the guidance has turns, for any number of
\* overlapping requests and restarts.
THEOREM GuidanceBounded == Spec => []GuidanceIsBounded
<1> USE ChatConstants DEF TurnsInv
<1>1. Init => TurnsInv
  BY DEF Init
<1>2. TurnsInv /\ [Next]_vars => TurnsInv'
  <2> SUFFICES ASSUME TurnsInv, [Next]_vars PROVE TurnsInv'
    OBVIOUS
  <2>1. CASE UNCHANGED vars
    BY <2>1 DEF vars
  <2>2. ASSUME NEW w \in Worker, NEW m \in Msg, Begin(w, m) PROVE TurnsInv'
    BY <2>2 DEF Begin, Guide
  <2>3. ASSUME NEW w \in Worker, Step(w) PROVE TurnsInv'
    BY <2>3 DEF Step, InsertMessage, InsertFails, Execute, Ask, AskFails,
                SaveAnswer, SaveFails, TrackCost, Respond
  <2>4. CASE SetGuidance
    BY <2>4 DEF SetGuidance
  <2>5. CASE Restart
    BY <2>5 DEF Restart
  <2> QED BY <2>1, <2>2, <2>3, <2>4, <2>5 DEF Next
<1>3. TurnsInv => GuidanceIsBounded
  BY DEF GuidanceIsBounded
<1> QED BY <1>1, <1>2, <1>3, PTL DEF Spec

-----------------------------------------------------------------------------
(* The attempts and their answers.  A request under way serves an open     *)
(* attempt that no other request serves, and its counter says how many     *)
(* answers the attempt has.                                                *)

Busy(w) == req[w].pc # "idle"

Serves(w) ==
  /\ req[w].by \in DOMAIN out
  /\ out[req[w].by] = [of |-> req[w].m, is |-> "open"]
  /\ req[w].pc # "insert" => req[w].m \in asked
  /\ req[w].pc \in {"save", "cost"} => req[w].i \in Agent
  /\ Cardinality(AnswersOf(req[w].by)) =
       IF req[w].pc = "cost" THEN req[w].i ELSE req[w].i - 1
  /\ req[w].pc = "cost" =>
       \E k \in AnswersOf(req[w].by) : answers[k].agent = req[w].i

ReqInv ==
  /\ \A w \in Worker : Busy(w) => Serves(w)
  /\ \A v, w \in Worker : Busy(v) /\ Busy(w) /\ req[v].by = req[w].by => v = w

\* The answers of a up to row k.
UpTo(a, k) == {j \in AnswersOf(a) : j <= k}

RowsInv ==
  /\ \A k \in DOMAIN answers :
       /\ answers[k].by \in DOMAIN out
       /\ answers[k].of = out[answers[k].by].of
       /\ answers[k].of \in asked
       /\ answers[k].agent = Cardinality(UpTo(answers[k].by, k))
  /\ \A a \in DOMAIN out : out[a].is = "ok" => Cardinality(AnswersOf(a)) = NAgents

TurnInv == TypeOK /\ ReqInv /\ RowsInv

\* A worker's request, when it has one.
LEMMA BusyFields ==
  ASSUME TypeOK, NEW w \in Worker, Busy(w)
  PROVE  /\ req[w] \in [pc : {"insert", "agent", "save", "cost"}, m : Msg, by : Attempt,
                        i : 1 .. NAgents + 1, op : Report]
         /\ req[w].i \in Nat \ {0}
  BY ChatConstants DEF TypeOK, Request, Idle, Busy

\* The attempt a request serves is open, and is about the same message.
LEMMA Open ==
  ASSUME ReqInv, NEW w \in Worker, Busy(w)
  PROVE  /\ req[w].by \in DOMAIN out
         /\ out[req[w].by].is = "open" /\ out[req[w].by].of = req[w].m
<1>1. Serves(w)
  BY DEF ReqInv
<1> QED BY <1>1 DEF Serves

\* The answers of an attempt are finitely many, and so are those up to a row.
LEMMA AnswersFinite ==
  ASSUME TypeOK, NEW a, NEW S \in SUBSET AnswersOf(a)
  PROVE  /\ IsFiniteSet(S) /\ Cardinality(S) \in Nat
         /\ Cardinality(S) <= Cardinality(AnswersOf(a))
         /\ IsFiniteSet(AnswersOf(a)) /\ Cardinality(AnswersOf(a)) \in Nat
<1>1. DOMAIN answers = 1 .. Len(answers) /\ Len(answers) \in Nat
  BY LenProperties DEF TypeOK
<1>2. IsFiniteSet(1 .. Len(answers))
  BY <1>1, FS_Interval
<1>3. AnswersOf(a) \in SUBSET (1 .. Len(answers))
  BY <1>1 DEF AnswersOf
<1>4. IsFiniteSet(AnswersOf(a))
  BY <1>2, <1>3, FS_Subset
<1> QED BY <1>4, FS_Subset, FS_CardinalityType

\* No agent answers an attempt twice.
LEMMA OnePerAgent ==
  ASSUME TypeOK, RowsInv, NEW j \in DOMAIN answers, NEW k \in DOMAIN answers,
         answers[j].by = answers[k].by, answers[j].agent = answers[k].agent
  PROVE  j = k
<1>1. DOMAIN answers \subseteq Nat
  BY LenProperties DEF TypeOK
<1>2. ASSUME NEW x \in DOMAIN answers, NEW y \in DOMAIN answers, x < y,
             answers[x].by = answers[y].by, answers[x].agent = answers[y].agent
      PROVE  FALSE
  <2> DEFINE a == answers[y].by
  <2>1. y \in UpTo(a, y) /\ y \notin UpTo(a, x) /\ UpTo(a, x) \in SUBSET UpTo(a, y)
    BY <1>1, <1>2 DEF UpTo, AnswersOf
  <2>2. Cardinality(UpTo(a, x)) = Cardinality(UpTo(a, y))
    BY <1>2 DEF RowsInv
  <2>3. IsFiniteSet(UpTo(a, y))
    BY AnswersFinite DEF UpTo
  <2> HIDE DEF a
  <2>4. UpTo(a, y) = UpTo(a, x)
    BY <2>1, <2>2, <2>3, FS_Subset
  <2> QED BY <2>1, <2>4
<1> QED BY <1>1, <1>2

\* The row a request is about to account for is the one it stored last.
LEMMA MineIsThere ==
  ASSUME TypeOK, ReqInv, NEW w \in Worker, At(w, "cost")
  PROVE  /\ Mine(w) \in DOMAIN answers
         /\ answers[Mine(w)].by = req[w].by /\ answers[Mine(w)].agent = req[w].i
<1>1. \E k \in DOMAIN answers : answers[k].by = req[w].by /\ answers[k].agent = req[w].i
  BY DEF ReqInv, Serves, Busy, At, AnswersOf
<1> QED BY <1>1 DEF Mine

\* A request that ends closes its attempt and leaves the others alone.
LEMMA Ends ==
  ASSUME TypeOK, ReqInv, NEW w \in Worker, Busy(w),
         NEW is \in {"ok", "error", "died"}, End(w, is)
  PROVE  /\ out' \in Seq(Outcome) /\ Len(out') = Len(out) /\ DOMAIN out' = DOMAIN out
         /\ out'[req[w].by] = [of |-> req[w].m, is |-> is]
         /\ \A a \in DOMAIN out \ {req[w].by} : out'[a] = out[a]
         /\ req' \in [Worker -> Request] /\ req'[w] = Idle
         /\ \A v \in Worker \ {w} : req'[v] = req[v]
<1> DEFINE b == req[w].by
           e == [of |-> req[w].m, is |-> is]
<1>1. b \in DOMAIN out /\ out[b] = [of |-> req[w].m, is |-> "open"] /\ out \in Seq(Outcome)
  BY DEF ReqInv, Serves, TypeOK
<1>2. Len(out) \in Nat /\ DOMAIN out = 1 .. Len(out)
  BY <1>1, LenProperties
<1>3. e \in Outcome
  BY BusyFields DEF Outcome
<1>4. out' = [out EXCEPT ![b] = e]
  <2>1. [[of |-> req[w].m, is |-> "open"] EXCEPT !.is = is] = e
    OBVIOUS
  <2>2. out' = [out EXCEPT ![b] = [out[b] EXCEPT !.is = is]]
    BY DEF End
  <2> QED BY <1>1, <2>1, <2>2
<1>5. req' \in [Worker -> Request] /\ req'[w] = Idle
      /\ \A v \in Worker \ {w} : req'[v] = req[v]
  BY DEF End, TypeOK, Request
<1> HIDE DEF b, e
<1>6. /\ out' \in Seq(Outcome) /\ Len(out') = Len(out)
      /\ \A j \in 1 .. Len(out) : out'[j] = IF j = b THEN e ELSE out[j]
  BY <1>1, <1>2, <1>3, <1>4, ExceptSeq
<1>7. DOMAIN out' = DOMAIN out
  BY <1>4
<1> QED BY <1>1, <1>2, <1>5, <1>6, <1>7 DEF b, e

\* A step that leaves the rows, the attempts and the requests alone.
LEMMA Untouched ==
  ASSUME ReqInv, RowsInv, UNCHANGED <<tables, req, out>>
  PROVE  ReqInv' /\ RowsInv'
<1>1. \A a : AnswersOf(a)' = AnswersOf(a)
  BY DEF AnswersOf, tables
<1>2. RowsInv'
  BY <1>1 DEF RowsInv, UpTo, tables
<1>3. ReqInv'
  BY <1>1 DEF ReqInv, Serves, Busy, tables
<1> QED BY <1>2, <1>3

\* A request that moves on with the same answers keeps serving its attempt.
LEMMA MovesOn ==
  ASSUME TurnInv, NEW w \in Worker, Busy(w), UNCHANGED <<answers, out>>, asked \subseteq asked',
         \A v \in Worker \ {w} : req'[v] = req[v],
         req'[w].by = req[w].by, req'[w].m = req[w].m, req'[w].pc \in {"agent", "save"},
         req'[w].m \in asked',
         req'[w].pc = "save" => req'[w].i \in Agent,
         req'[w].i = IF req[w].pc = "cost" THEN req[w].i + 1 ELSE req[w].i
  PROVE  ReqInv' /\ RowsInv'
<1>1. \A a : AnswersOf(a)' = AnswersOf(a)
  BY DEF AnswersOf
<1>2. RowsInv'
  BY <1>1 DEF TurnInv, RowsInv, UpTo
<1>3. Serves(w)'
  <2>1. Serves(w) /\ req[w].i \in Nat
    BY BusyFields DEF TurnInv, ReqInv
  <2> QED BY <1>1, <2>1 DEF Serves
<1>4. ASSUME NEW v \in Worker, v # w, Busy(v)' PROVE Serves(v)'
  <2>1. Serves(v) /\ req'[v] = req[v]
    BY <1>4 DEF TurnInv, ReqInv, Busy
  <2> QED BY <1>1, <2>1 DEF Serves
<1>5. \A u, v \in Worker : Busy(u)' /\ Busy(v)' /\ req'[u].by = req'[v].by => u = v
  <2>1. \A v \in Worker : req'[v].by = req[v].by /\ (Busy(v)' => Busy(v))
    BY DEF Busy
  <2> QED BY <2>1 DEF TurnInv, ReqInv
<1> QED BY <1>2, <1>3, <1>4, <1>5 DEF ReqInv

\* A request that ends, in a 200 only when every agent has answered.
LEMMA EndsKeep ==
  ASSUME TurnInv, NEW w \in Worker, Busy(w), UNCHANGED <<asked, answers>>,
         NEW is \in {"ok", "error", "died"}, End(w, is),
         is = "ok" => Cardinality(AnswersOf(req[w].by)) = NAgents
  PROVE  ReqInv' /\ RowsInv'
<1>1. \A a : AnswersOf(a)' = AnswersOf(a)
  BY DEF AnswersOf
<1>2. /\ DOMAIN out' = DOMAIN out
      /\ out'[req[w].by] = [of |-> req[w].m, is |-> is]
      /\ \A a \in DOMAIN out \ {req[w].by} : out'[a] = out[a]
      /\ req'[w].pc = "idle"
      /\ \A v \in Worker \ {w} : req'[v] = req[v]
  <2>1. TypeOK /\ ReqInv
    BY DEF TurnInv
  <2>2. /\ DOMAIN out' = DOMAIN out
        /\ out'[req[w].by] = [of |-> req[w].m, is |-> is]
        /\ \A a \in DOMAIN out \ {req[w].by} : out'[a] = out[a]
        /\ req'[w] = Idle
        /\ \A v \in Worker \ {w} : req'[v] = req[v]
    BY ONLY <2>1, Busy(w), is \in {"ok", "error", "died"}, End(w, is), Ends
  <2> QED BY <2>2 DEF Idle
<1>3. Serves(w)
  BY DEF TurnInv, ReqInv
<1>4. \A a \in DOMAIN out : out'[a].of = out[a].of
  BY <1>2, <1>3 DEF Serves
<1>5. RowsInv'
  BY <1>1, <1>2, <1>4 DEF TurnInv, RowsInv, UpTo
<1>6. ASSUME NEW v \in Worker, Busy(v)' PROVE Busy(v) /\ Serves(v)' /\ req'[v] = req[v]
  <2>1. v # w /\ req'[v] = req[v]
    BY <1>2, <1>6 DEF Busy
  <2>2. Busy(v) /\ Serves(v) /\ req[v].by # req[w].by
    BY <1>6, <2>1 DEF TurnInv, ReqInv, Busy
  <2>3. out'[req[v].by] = out[req[v].by] /\ req[v].by \in DOMAIN out'
    BY <1>2, <2>2 DEF Serves
  <2> QED BY <1>1, <2>1, <2>2, <2>3 DEF Serves
<1>7. \A u, v \in Worker : Busy(u)' /\ Busy(v)' /\ req'[u].by = req'[v].by => u = v
  BY <1>6 DEF TurnInv, ReqInv
<1> QED BY <1>5, <1>6, <1>7 DEF ReqInv

\* A new attempt has no answer yet.
LEMMA BeginKeeps ==
  ASSUME TurnInv, NEW w \in Worker, NEW m \in Msg, Begin(w, m)
  PROVE  /\ out' \in Seq(Outcome) /\ Len(out') <= MaxAttempts
         /\ req' \in [Worker -> Request]
         /\ \A a \in DOMAIN out : a \in DOMAIN out' /\ out'[a] = out[a]
         /\ ReqInv' /\ RowsInv'
<1> DEFINE e == [of |-> m, is |-> "open"]
<1>0. PICK b : b = Len(out) + 1
  OBVIOUS
<1>1. out \in Seq(Outcome) /\ e \in Outcome /\ MaxAttempts \in Nat /\ NAgents \in Nat \ {0}
  BY ChatConstants DEF TurnInv, TypeOK, Outcome
<1>2. Len(out) \in Nat /\ DOMAIN out = 1 .. Len(out)
  BY <1>1, LenProperties
<1>3. /\ out' \in Seq(Outcome) /\ Len(out') = b
      /\ \A a \in 1 .. Len(out) : out'[a] = out[a]
      /\ out'[b] = e
  BY <1>0, <1>1, AppendProperties DEF Begin
<1>4. DOMAIN out' = 1 .. b /\ b \in 1 .. b /\ b \notin DOMAIN out /\ b \in Attempt
      /\ Len(out') <= MaxAttempts
  BY <1>0, <1>1, <1>2, <1>3, LenProperties DEF Begin, Attempt
<1> HIDE DEF e
<1>5. \A a \in DOMAIN out : a \in DOMAIN out' /\ out'[a] = out[a]
  BY <1>0, <1>2, <1>3, <1>4
<1>6. /\ \A a : AnswersOf(a)' = AnswersOf(a)
      /\ UNCHANGED <<asked, answers>>
  BY DEF Begin, tables, AnswersOf
<1>7. AnswersOf(b) = {}
  BY <1>4 DEF AnswersOf, TurnInv, RowsInv
<1>8. /\ req' \in [Worker -> Request]
      /\ req'[w].pc = (IF m \in asked THEN "agent" ELSE "insert")
      /\ req'[w].m = m /\ req'[w].by = b /\ req'[w].i = 1
      /\ \A v \in Worker \ {w} : req'[v] = req[v]
      /\ ~ Busy(w)
  <2>1. [pc |-> IF m \in asked THEN "agent" ELSE "insert",
         m |-> m, by |-> b, i |-> 1, op |-> "none"] \in Request
    BY <1>1, <1>4 DEF Request, Report
  <2> QED BY <1>0, <2>1 DEF Begin, TurnInv, TypeOK, Busy, At
<1>9. RowsInv'
  <2>1. \A a \in DOMAIN out' : out'[a].is = "ok" => a \in DOMAIN out
    BY <1>0, <1>2, <1>3, <1>4 DEF e
  <2> QED BY <1>5, <1>6, <2>1 DEF TurnInv, RowsInv, UpTo
<1>10. Serves(w)'
  <2>1. AnswersOf(b)' = {} /\ Cardinality({}) = 0
    BY <1>6, <1>7, FS_EmptySet
  <2>2. b \in DOMAIN out' /\ out'[b] = [of |-> m, is |-> "open"]
    BY <1>3, <1>4 DEF e
  <2> QED BY <1>6, <1>8, <2>1, <2>2 DEF Serves
<1>11. ASSUME NEW v \in Worker, v # w, Busy(v)'
       PROVE  Serves(v)' /\ Busy(v) /\ req'[v] = req[v] /\ req[v].by # b
  <2>1. Serves(v) /\ req'[v] = req[v] /\ Busy(v)
    BY <1>8, <1>11 DEF TurnInv, ReqInv, Busy
  <2> QED BY <1>4, <1>5, <1>6, <2>1 DEF Serves
<1>12. \A u, v \in Worker : Busy(u)' /\ Busy(v)' /\ req'[u].by = req'[v].by => u = v
  BY <1>8, <1>11 DEF TurnInv, ReqInv
<1>13. ReqInv'
  BY <1>10, <1>11, <1>12 DEF ReqInv
<1> QED BY <1>3, <1>4, <1>5, <1>8, <1>9, <1>13

\* An answer stored: it is the next one of its attempt.
LEMMA SaveKeeps ==
  ASSUME TurnInv, NEW w \in Worker, SaveAnswer(w)
  PROVE  /\ answers' \in Seq(AnswerRow)
         /\ Len(answers) \in Nat /\ DOMAIN answers = 1 .. Len(answers)
         /\ DOMAIN answers' = 1 .. Len(answers) + 1
         /\ \A k \in DOMAIN answers : answers'[k] = answers[k]
         /\ answers'[Len(answers) + 1] =
              [of |-> req[w].m, agent |-> req[w].i, by |-> req[w].by, op |-> req[w].op]
         /\ req' \in [Worker -> Request]
         /\ req'[w].pc = "cost" /\ req'[w].by = req[w].by /\ req'[w].i = req[w].i
         /\ \A v \in Worker \ {w} : req'[v] = req[v]
         /\ ReqInv' /\ RowsInv'
<1>0. PICK n, b, r :
        /\ n = Len(answers) + 1 /\ b = req[w].by
        /\ r = [of |-> req[w].m, agent |-> req[w].i, by |-> b, op |-> req[w].op]
  OBVIOUS
<1>1. Busy(w) /\ Serves(w) /\ req[w].pc = "save"
  BY DEF SaveAnswer, At, Busy, TurnInv, ReqInv
<1>2. answers \in Seq(AnswerRow) /\ r \in AnswerRow
  BY <1>0, <1>1, BusyFields DEF Serves, TurnInv, TypeOK, AnswerRow
<1>3. Len(answers) \in Nat /\ DOMAIN answers = 1 .. Len(answers)
  BY <1>2, LenProperties
<1>4. /\ answers' \in Seq(AnswerRow) /\ Len(answers') = n
      /\ \A k \in 1 .. Len(answers) : answers'[k] = answers[k]
      /\ answers'[n] = r
  BY <1>0, <1>2, AppendProperties DEF SaveAnswer
<1>5. DOMAIN answers' = 1 .. n /\ n \notin DOMAIN answers
      /\ 1 .. n = (1 .. Len(answers)) \cup {n} /\ \A k \in 1 .. Len(answers) : k < n
  BY <1>0, <1>3, <1>4, LenProperties
<1>6. /\ req' \in [Worker -> Request]
      /\ req'[w].pc = "cost" /\ req'[w].by = b /\ req'[w].i = req[w].i /\ req'[w].m = req[w].m
      /\ \A v \in Worker \ {w} : req'[v] = req[v]
      /\ UNCHANGED <<out, asked>>
  BY <1>0, <1>1, BusyFields DEF SaveAnswer, Goto, TurnInv, TypeOK, Request
<1>7. /\ AnswersOf(b)' = AnswersOf(b) \cup {n}
      /\ \A a : a # b => AnswersOf(a)' = AnswersOf(a)
      /\ n \notin AnswersOf(b)
  <2>1. r.by = b
    BY <1>0
  <2> QED BY <1>3, <1>4, <1>5, <2>1 DEF AnswersOf
<1>8. /\ Cardinality(AnswersOf(b)) = req[w].i - 1
      /\ Cardinality(AnswersOf(b)') = req[w].i
  <2>1. Cardinality(AnswersOf(b)) = req[w].i - 1 /\ req[w].i \in Nat
    BY <1>0, <1>1, BusyFields DEF Serves, TurnInv
  <2>2. IsFiniteSet(AnswersOf(b))
    BY AnswersFinite DEF TurnInv
  <2>3. Cardinality(AnswersOf(b) \cup {n}) = Cardinality(AnswersOf(b)) + 1
    BY <1>7, <2>2, FS_AddElement
  <2> QED BY <1>7, <2>1, <2>3
<1>9. RowsInv'
  <2>1. \A a : \A k \in DOMAIN answers : UpTo(a, k)' = UpTo(a, k)
    <3>1. \A k \in DOMAIN answers : k < n /\ ~ (n <= k)
      BY <1>3, <1>5
    <3> QED BY <1>7, <3>1 DEF UpTo
  <2>2. UpTo(b, n)' = AnswersOf(b)'
    <3>1. \A j \in 1 .. n : j <= n
      BY <1>3
    <3> QED BY <1>5, <3>1 DEF UpTo, AnswersOf
  <2>3. \A k \in DOMAIN answers :
          /\ answers'[k].by \in DOMAIN out'
          /\ answers'[k].of = out'[answers'[k].by].of
          /\ answers'[k].of \in asked'
          /\ answers'[k].agent = Cardinality(UpTo(answers[k].by, k))'
    BY <1>3, <1>4, <1>6, <2>1 DEF TurnInv, RowsInv
  <2>4. /\ r.by \in DOMAIN out'
        /\ r.of = out'[r.by].of
        /\ r.of \in asked'
        /\ r.agent = Cardinality(UpTo(b, n)') /\ r.by = b
    BY <1>0, <1>1, <1>6, <1>8, <2>2 DEF Serves
  <2>5. ASSUME NEW a \in DOMAIN out', out'[a].is = "ok"
        PROVE  Cardinality(AnswersOf(a)') = NAgents
    <3>1. a # b
      BY <1>0, <1>1, <1>6, <2>5 DEF Serves
    <3> QED BY <1>6, <1>7, <2>5, <3>1 DEF TurnInv, RowsInv
  <2> QED BY <1>3, <1>4, <1>5, <2>3, <2>4, <2>5 DEF RowsInv
<1>10. Serves(w)'
  <2>1. n \in AnswersOf(b)' /\ answers'[n].agent = req[w].i
    BY <1>0, <1>4, <1>7
  <2> QED BY <1>0, <1>1, <1>6, <1>8, <2>1 DEF Serves
<1>11. ASSUME NEW v \in Worker, v # w, Busy(v)'
       PROVE  Serves(v)' /\ Busy(v) /\ req'[v] = req[v] /\ req[v].by # b
  <2>1. Serves(v) /\ req'[v] = req[v] /\ Busy(v) /\ req[v].by # b
    BY <1>0, <1>1, <1>6, <1>11 DEF TurnInv, ReqInv, Busy
  <2>2. AnswersOf(req[v].by)' = AnswersOf(req[v].by)
    BY <1>7, <2>1
  <2>3. \A k \in AnswersOf(req[v].by) : answers'[k] = answers[k]
    BY <1>3, <1>4 DEF AnswersOf
  <2> QED BY <1>6, <2>1, <2>2, <2>3 DEF Serves
<1>12. \A u, v \in Worker : Busy(u)' /\ Busy(v)' /\ req'[u].by = req'[v].by => u = v
  BY <1>6, <1>11 DEF TurnInv, ReqInv
<1>13. ReqInv'
  BY <1>10, <1>11, <1>12 DEF ReqInv
<1> QED BY <1>0, <1>3, <1>4, <1>5, <1>6, <1>9, <1>13

\* A restart leaves no request, and closes the attempts they served.
LEMMA RestartKeeps ==
  ASSUME TurnInv, Restart
  PROVE  /\ out' \in Seq(Outcome) /\ Len(out') = Len(out) /\ DOMAIN out' = DOMAIN out
         /\ \A a \in DOMAIN out :
              /\ out'[a].of = out[a].of
              /\ out'[a].is = IF out[a].is = "open" THEN "died" ELSE out[a].is
         /\ \A w \in Worker : req'[w] = Idle
         /\ ReqInv' /\ RowsInv'
<1>1. out \in Seq(Outcome) /\ Len(out) \in Nat /\ DOMAIN out = 1 .. Len(out)
  BY LenProperties DEF TurnInv, TypeOK
<1>2. /\ DOMAIN out' = DOMAIN out
      /\ \A a \in DOMAIN out :
           /\ out'[a] \in Outcome /\ out'[a].of = out[a].of
           /\ out'[a].is = IF out[a].is = "open" THEN "died" ELSE out[a].is
  <2> SUFFICES ASSUME NEW a \in DOMAIN out
               PROVE  LET e == IF out[a].is = "open" THEN [out[a] EXCEPT !.is = "died"]
                               ELSE out[a]
                      IN  /\ e \in Outcome /\ e.of = out[a].of
                          /\ e.is = IF out[a].is = "open" THEN "died" ELSE out[a].is
    BY DEF Restart
  <2>1. out[a] \in Outcome
    BY <1>1, ElementOfSeq
  <2> QED BY <2>1 DEF Outcome
<1>3. out' \in Seq(Outcome) /\ Len(out') = Len(out)
  <2>1. out' = [a \in 1 .. Len(out) |-> out'[a]]
    BY <1>1 DEF Restart
  <2>2. out' \in [1 .. Len(out) -> Outcome]
    BY <1>1, <1>2, <2>1
  <2>3. out' \in Seq(Outcome)
    BY <1>1, <2>2, SeqDef
  <2> QED BY <1>1, <1>2, <2>3, LenProperties
<1>4. \A w \in Worker : req'[w] = Idle /\ ~ Busy(w)'
  BY DEF Restart, Idle, Busy
<1>5. /\ \A a : AnswersOf(a)' = AnswersOf(a)
      /\ UNCHANGED <<asked, answers>>
  BY DEF Restart, tables, AnswersOf
<1>6. RowsInv'
  BY <1>2, <1>5 DEF TurnInv, RowsInv, UpTo
<1>7. ReqInv'
  BY <1>4 DEF ReqInv
<1> QED BY <1>2, <1>3, <1>4, <1>6, <1>7

\* The steps of a request that has its attempt go on, and those that end it.
LEMMA StepsMove ==
  ASSUME TurnInv, NEW w \in Worker,
         InsertMessage(w) \/ Execute(w) \/ Ask(w) \/ TrackCost(w)
  PROVE  /\ Busy(w) /\ UNCHANGED <<answers, out>> /\ asked \subseteq asked'
         /\ req' \in [Worker -> Request]
         /\ req'[w].by = req[w].by /\ req'[w].m = req[w].m
         /\ req'[w].pc \in {"agent", "save"}
         /\ \A v \in Worker \ {w} : req'[v] = req[v]
         /\ ReqInv' /\ RowsInv'
<1>1. Busy(w)
  BY DEF InsertMessage, Execute, Ask, TrackCost, At, Busy
<1>2. TypeOK /\ Serves(w)
  BY <1>1 DEF TurnInv, ReqInv
<1>3. /\ req[w] \in [pc : {"insert", "agent", "save", "cost"}, m : Msg, by : Attempt,
                     i : 1 .. NAgents + 1, op : Report]
      /\ req \in [Worker -> Request] /\ NAgents \in Nat
  BY <1>1, <1>2, BusyFields, ChatConstants DEF TypeOK
<1>4. /\ UNCHANGED <<answers, out>> /\ asked \subseteq asked'
      /\ \A v \in Worker \ {w} : req'[v] = req[v]
      /\ req'[w].by = req[w].by /\ req'[w].m = req[w].m /\ req'[w].pc \in {"agent", "save"}
      /\ req'[w].m \in asked'
      /\ req'[w].pc = "save" => req'[w].i \in Agent
      /\ req'[w].i = IF req[w].pc = "cost" THEN req[w].i + 1 ELSE req[w].i
      /\ req' \in [Worker -> Request]
  <2>1. CASE InsertMessage(w)
    BY <1>3, <2>1 DEF InsertMessage, Goto, At, Request
  <2>2. CASE Execute(w)
    <3>1. PICK op \in Report : req' = [req EXCEPT ![w].pc = "save", ![w].op = op]
      BY <2>2 DEF Execute
    <3>2. [req[w] EXCEPT !.pc = "save", !.op = op] \in Request
      BY <1>3 DEF Request
    <3> QED BY <1>2, <1>3, <2>2, <3>1, <3>2 DEF Execute, At, Serves, tables
  <2>3. CASE Ask(w)
    BY <1>2, <1>3, <2>3 DEF Ask, At, Serves, tables, Request, Report
  <2>4. CASE TrackCost(w)
    <3>1. req[w].pc = "cost" /\ req[w].i + 1 \in 1 .. NAgents + 1 /\ req[w].m \in asked
      BY <1>2, <1>3, <2>4 DEF TrackCost, At, Serves, Agent
    <3>2. [req[w] EXCEPT !.pc = "agent", !.i = @ + 1] \in Request
      BY <1>3, <3>1 DEF Request
    <3> QED BY <1>3, <2>4, <3>1, <3>2 DEF TrackCost
  <2> QED BY <2>1, <2>2, <2>3, <2>4
<1> QED BY <1>1, <1>4, MovesOn

LEMMA StepsEnd ==
  ASSUME TurnInv, NEW w \in Worker,
         InsertFails(w) \/ AskFails(w) \/ SaveFails(w) \/ Respond(w)
  PROVE  \E is \in {"ok", "error"} :
           /\ Busy(w) /\ End(w, is) /\ UNCHANGED <<asked, answers>>
           /\ is = "ok" => req[w].pc = "agent"
           /\ ReqInv' /\ RowsInv'
<1>1. Busy(w) /\ UNCHANGED <<asked, answers>>
  BY DEF InsertFails, AskFails, SaveFails, Respond, At, Busy, tables
<1>2. CASE InsertFails(w) \/ AskFails(w) \/ SaveFails(w)
  <2>1. End(w, "error")
    BY <1>2 DEF InsertFails, AskFails, SaveFails
  <2> QED BY <1>1, <2>1, EndsKeep
<1>3. CASE Respond(w)
  <2>1. End(w, "ok") /\ req[w].pc = "agent" /\ req[w].i > NAgents
    BY <1>3 DEF Respond, At
  <2>2. Cardinality(AnswersOf(req[w].by)) = req[w].i - 1
    BY <1>1, <2>1 DEF TurnInv, ReqInv, Serves
  <2>3. req[w].i \in 1 .. NAgents + 1 /\ NAgents \in Nat
    BY <1>1, BusyFields, ChatConstants DEF TurnInv
  <2>4. Cardinality(AnswersOf(req[w].by)) = NAgents
    BY <2>1, <2>2, <2>3
  <2> QED BY <1>1, <2>1, <2>4, EndsKeep
<1> QED BY <1>2, <1>3

\* What chat() keeps in step: the requests, the attempts and their rows.
THEOREM TurnsCorrect == Spec => []TurnInv
<1>1. Init => TurnInv
  <2> SUFFICES ASSUME Init PROVE TurnInv
    OBVIOUS
  <2>1. << >> \in Seq(AnswerRow) /\ << >> \in Seq(Outcome) /\ DOMAIN << >> = {}
    OBVIOUS
  <2>2. TypeOK
    BY <2>1, ChatConstants DEF Init, TypeOK, Request
  <2> QED BY <2>1, <2>2 DEF Init, TurnInv, ReqInv, RowsInv, Busy, Idle
<1>2. TurnInv /\ [Next]_vars => TurnInv'
  <2> SUFFICES ASSUME TurnInv, [Next]_vars PROVE TurnInv'
    OBVIOUS
  <2>0. TypeOK
    BY DEF TurnInv
  <2>1. CASE UNCHANGED vars
    <3>1. TypeOK'
      BY <2>0, <2>1 DEF vars, tables, TypeOK
    <3> QED BY <2>1, <3>1, Untouched DEF vars, TurnInv
  <2>2. ASSUME NEW w \in Worker, NEW m \in Msg, Begin(w, m) PROVE TurnInv'
    <3>1. TypeOK'
      <4>1. guidance' \in 0 .. Turns /\ guided' \in Nat
        BY <2>0, <2>2, ChatConstants DEF Begin, Guide, TypeOK
      <4>2. UNCHANGED <<tables, commits, uncosted, crashes>>
        BY <2>2 DEF Begin
      <4>3. /\ out' \in Seq(Outcome) /\ Len(out') <= MaxAttempts
            /\ req' \in [Worker -> Request]
        BY <2>2, BeginKeeps
      <4> QED BY <2>0, <4>1, <4>2, <4>3 DEF tables, TypeOK
    <3> QED BY <2>2, <3>1, BeginKeeps DEF TurnInv
  <2>3. ASSUME NEW w \in Worker, InsertMessage(w) \/ Execute(w) \/ Ask(w) \/ TrackCost(w)
        PROVE  TurnInv'
    <3>1. /\ UNCHANGED <<answers, out, guidance, guided, crashes>>
          /\ req' \in [Worker -> Request] /\ ReqInv' /\ RowsInv' /\ Busy(w)
      BY <2>3, StepsMove DEF InsertMessage, Execute, Ask, TrackCost, tables
    <3>2. asked' \subseteq Msg
      BY <2>0, <2>3, <3>1, BusyFields DEF InsertMessage, Execute, Ask, TrackCost, tables, TypeOK
    <3>3. commits' \in [Msg -> Nat]
      BY <2>0, <2>3, <3>1, BusyFields DEF InsertMessage, Execute, Ask, TrackCost, tables, TypeOK
    <3>4. costs' \cup uncosted' \subseteq DOMAIN answers
      <4>1. CASE TrackCost(w)
        <5>1. Mine(w) \in DOMAIN answers
          BY <2>0, <4>1, MineIsThere DEF TurnInv, TrackCost
        <5> QED BY <2>0, <4>1, <5>1 DEF TrackCost, TypeOK
      <4>2. CASE InsertMessage(w) \/ Execute(w) \/ Ask(w)
        BY <2>0, <4>2 DEF InsertMessage, Execute, Ask, tables, TypeOK
      <4> QED BY <2>3, <4>1, <4>2
    <3> QED BY <2>0, <3>1, <3>2, <3>3, <3>4 DEF TurnInv, TypeOK
  <2>4. ASSUME NEW w \in Worker, InsertFails(w) \/ AskFails(w) \/ SaveFails(w) \/ Respond(w)
        PROVE  TurnInv'
    <3>1. PICK is \in {"ok", "error"} : Busy(w) /\ End(w, is) /\ ReqInv' /\ RowsInv'
      BY <2>4, StepsEnd
    <3>2. out' \in Seq(Outcome) /\ Len(out') = Len(out) /\ req' \in [Worker -> Request]
      BY <2>0, <3>1, Ends DEF TurnInv
    <3>3. UNCHANGED <<tables, commits, guidance, uncosted, guided, crashes>>
      BY <2>4 DEF InsertFails, AskFails, SaveFails, Respond
    <3> QED BY <2>0, <3>1, <3>2, <3>3 DEF TurnInv, TypeOK, tables
  <2>5. ASSUME NEW w \in Worker, SaveAnswer(w) PROVE TurnInv'
    <3>1. UNCHANGED <<asked, costs, commits, guidance, out, uncosted, guided, crashes>>
      BY <2>5 DEF SaveAnswer
    <3>2. answers' \in Seq(AnswerRow) /\ DOMAIN answers \subseteq DOMAIN answers'
      <4>1. /\ answers' \in Seq(AnswerRow)
            /\ Len(answers) \in Nat /\ DOMAIN answers = 1 .. Len(answers)
            /\ DOMAIN answers' = 1 .. Len(answers) + 1
        BY <2>5, SaveKeeps
      <4> QED BY <4>1
    <3> QED BY <2>0, <2>5, <3>1, <3>2, SaveKeeps DEF TurnInv, TypeOK
  <2>6. CASE SetGuidance
    <3>1. UNCHANGED <<tables, req, out, commits, uncosted, crashes>>
          /\ guidance' \in 0 .. Turns /\ guided' \in Nat
      BY <2>6, ChatConstants DEF SetGuidance
    <3>2. TypeOK'
      BY <2>0, <3>1 DEF tables, TypeOK
    <3> QED BY <3>1, <3>2, Untouched DEF TurnInv
  <2>7. CASE Restart
    <3>1. req' \in [Worker -> Request] /\ guidance' \in 0 .. Turns /\ crashes' \in 0 .. MaxCrashes
          /\ UNCHANGED <<tables, commits, uncosted, guided>>
      BY <2>0, <2>7, ChatConstants DEF Restart, Request, TypeOK
    <3> QED BY <2>0, <2>7, <3>1, RestartKeeps DEF TurnInv, TypeOK, tables
  <2> QED BY <2>1, <2>2, <2>3, <2>4, <2>5, <2>6, <2>7 DEF Next, Step
<1> QED BY <1>1, <1>2, PTL DEF Spec

\* Every request, attempt and row of the thread is what chat() says it is.
THEOREM TypeCorrect == Spec => []TypeOK
<1>1. TurnInv => TypeOK
  BY DEF TurnInv
<1> QED BY <1>1, TurnsCorrect, PTL

\* chat() answers for its target agents one after the other and commits each
\* answer: an attempt that fails or dies leaves the first of them, a 200 all.
THEOREM AnswersInOrder == Spec => []AnswersAreAPrefix
<1>1. TurnInv => AnswersAreAPrefix
  BY DEF TurnInv, RowsInv, UpTo, AnswersAreAPrefix, AnswersOf
<1> QED BY <1>1, TurnsCorrect, PTL

-----------------------------------------------------------------------------
(* The costs.  An answer without its cost is the last one of a request     *)
(* under way, or of an attempt that failed or died.                        *)

Cut(a) == out[a].is \in {"error", "died"}
CostComes(k) == \E w \in Worker :
  /\ req[w].pc = "cost"
  /\ req[w].by = answers[k].by /\ req[w].i = answers[k].agent

CostInv ==
  \A k \in DOMAIN answers :
    k \in costs \cup uncosted \/ Cut(answers[k].by) \/ CostComes(k)

\* A step that stores no answer and forgets no cost, and by which a request
\* about to store a cost stays so, has stored it or fails.
LEMMA CostsStay ==
  ASSUME CostInv, UNCHANGED answers,
         costs \cup uncosted \subseteq costs' \cup uncosted',
         \A k \in DOMAIN answers : Cut(answers[k].by) =>
              out'[answers[k].by].is \in {"error", "died"},
         \A w \in Worker : req[w].pc = "cost" =>
           \/ req'[w].pc = "cost" /\ req'[w].by = req[w].by /\ req'[w].i = req[w].i
           \/ \A k \in DOMAIN answers :
                answers[k].by = req[w].by /\ answers[k].agent = req[w].i =>
                  \/ k \in costs' \cup uncosted'
                  \/ out'[answers[k].by].is \in {"error", "died"}
  PROVE  CostInv'
  BY DEF CostInv, Cut, CostComes

\* What chat() knows of the costs of its answers, from each commit to the next.
THEOREM CostsCorrect == Spec => []CostInv
<1>1. Init => CostInv
  BY DEF Init, CostInv
<1>2. TurnInv /\ CostInv /\ [Next]_vars => CostInv'
  <2> SUFFICES ASSUME TurnInv, CostInv, [Next]_vars PROVE CostInv'
    OBVIOUS
  <2>0. TypeOK /\ ReqInv /\ RowsInv
    BY DEF TurnInv
  <2>1. CASE UNCHANGED vars
    BY <2>1, CostsStay DEF vars, tables, Cut
  <2>2. ASSUME NEW w \in Worker, NEW m \in Msg, Begin(w, m) PROVE CostInv'
    <3>1. \A a \in DOMAIN out : out'[a] = out[a]
      BY <2>2, BeginKeeps
    <3>2. req[w].pc = "idle" /\ \A v \in Worker \ {w} : req'[v] = req[v]
      BY <2>2 DEF Begin, At, TurnInv, TypeOK
    <3>3. UNCHANGED <<tables, uncosted>>
      BY <2>2 DEF Begin
    <3> QED BY <2>0, <3>1, <3>2, <3>3, CostsStay DEF tables, Cut, RowsInv
  <2>3. ASSUME NEW w \in Worker, InsertMessage(w) \/ Execute(w) \/ Ask(w) PROVE CostInv'
    <3>1. UNCHANGED <<answers, out>> /\ \A v \in Worker \ {w} : req'[v] = req[v]
      BY <2>3, StepsMove
    <3>2. req[w].pc # "cost" /\ UNCHANGED <<costs, uncosted>>
      BY <2>3 DEF InsertMessage, Execute, Ask, At, tables
    <3> QED BY <3>1, <3>2, CostsStay DEF Cut
  <2>4. ASSUME NEW w \in Worker, TrackCost(w) PROVE CostInv'
    <3>1. UNCHANGED <<answers, out>> /\ \A v \in Worker \ {w} : req'[v] = req[v]
      BY <2>4, StepsMove
    <3>2. At(w, "cost") /\ costs' \cup uncosted' = costs \cup uncosted \cup {Mine(w)}
      BY <2>4 DEF TrackCost
    <3>3. \A k \in DOMAIN answers :
            answers[k].by = req[w].by /\ answers[k].agent = req[w].i => k = Mine(w)
      BY <2>0, <3>2, MineIsThere, OnePerAgent
    <3> QED BY <3>1, <3>2, <3>3, CostsStay DEF Cut
  <2>5. ASSUME NEW w \in Worker, InsertFails(w) \/ AskFails(w) \/ SaveFails(w) \/ Respond(w)
        PROVE  CostInv'
    <3>1. PICK is \in {"ok", "error"} : Busy(w) /\ End(w, is) /\ UNCHANGED answers
      BY <2>5, StepsEnd
    <3>2. /\ \A a \in DOMAIN out \ {req[w].by} : out'[a] = out[a]
          /\ \A v \in Worker \ {w} : req'[v] = req[v]
      BY <2>0, <3>1, Ends
    <3>3. req[w].pc # "cost" /\ UNCHANGED <<costs, uncosted>>
      BY <2>5 DEF InsertFails, AskFails, SaveFails, Respond, At, tables
    <3>4. ~ Cut(req[w].by)
      <4>1. out[req[w].by].is = "open"
        BY <2>0, <3>1, Open
      <4> QED BY <4>1 DEF Cut
    <3>5. \A k \in DOMAIN answers : Cut(answers[k].by) => out'[answers[k].by] = out[answers[k].by]
      BY <2>0, <3>2, <3>4 DEF RowsInv
    <3> QED BY <3>1, <3>2, <3>3, <3>5, CostsStay DEF Cut
  <2>6. ASSUME NEW w \in Worker, SaveAnswer(w) PROVE CostInv'
    <3>1. PICK n : n = Len(answers) + 1
      OBVIOUS
    <3>2. /\ DOMAIN answers' = DOMAIN answers \cup {n}
          /\ \A k \in DOMAIN answers : answers'[k] = answers[k]
          /\ answers'[n].by = req'[w].by /\ answers'[n].agent = req'[w].i
          /\ req'[w].pc = "cost"
          /\ \A v \in Worker \ {w} : req'[v] = req[v]
      <4>1. /\ answers'[n] = [of |-> req[w].m, agent |-> req[w].i,
                              by |-> req[w].by, op |-> req[w].op]
            /\ req'[w].pc = "cost" /\ req'[w].by = req[w].by /\ req'[w].i = req[w].i
            /\ \A v \in Worker \ {w} : req'[v] = req[v]
            /\ \A k \in DOMAIN answers : answers'[k] = answers[k]
        BY <2>6, <3>1, SaveKeeps
      <4>2. Len(answers) \in Nat /\ DOMAIN answers = 1 .. Len(answers)
            /\ DOMAIN answers' = 1 .. Len(answers) + 1
        BY <2>6, SaveKeeps
      <4>3. DOMAIN answers' = DOMAIN answers \cup {n}
        BY <3>1, <4>2
      <4> QED BY <4>1, <4>3
    <3>3. UNCHANGED <<costs, out, uncosted>> /\ req[w].pc # "cost"
      BY <2>6 DEF SaveAnswer, At
    <3>4. CostComes(n)'
      BY <3>2 DEF CostComes
    <3>5. \A k \in DOMAIN answers : CostComes(k) => CostComes(k)'
      BY <3>2, <3>3 DEF CostComes
    <3> QED BY <3>2, <3>3, <3>4, <3>5 DEF CostInv, Cut
  <2>7. CASE SetGuidance
    BY <2>7, CostsStay DEF SetGuidance, tables, Cut
  <2>8. CASE Restart
    <3>1. /\ UNCHANGED <<answers, costs, uncosted>>
          /\ \A a \in DOMAIN out :
               out'[a].is = IF out[a].is = "open" THEN "died" ELSE out[a].is
      BY <2>8, RestartKeeps DEF Restart, tables
    <3>2. \A k \in DOMAIN answers :
            /\ Cut(answers[k].by) => out'[answers[k].by].is \in {"error", "died"}
            /\ \A v \in Worker : req[v].pc = "cost" /\ req[v].by = answers[k].by
                 => out'[answers[k].by].is = "died"
      <4>1. \A v \in Worker : req[v].pc = "cost" =>
              req[v].by \in DOMAIN out /\ out[req[v].by].is = "open"
        BY <2>0, Open DEF Busy
      <4>2. \A k \in DOMAIN answers : answers[k].by \in DOMAIN out
        BY <2>0 DEF RowsInv
      <4> QED BY <3>1, <4>1, <4>2 DEF Cut
    <3> QED BY <3>1, <3>2, CostsStay
  <2> QED BY <2>1, <2>2, <2>3, <2>4, <2>5, <2>6, <2>7, <2>8 DEF Next, Step
<1> QED BY <1>1, <1>2, TurnsCorrect, PTL DEF Spec

\* _track_cost runs after each answer's commit: a 200 leaves every answer with
\* its cost, but for those the database refused.
THEOREM CostsAreThere == Spec => []AnswersAreCosted
<1>1. TurnInv /\ CostInv => AnswersAreCosted
  <2> SUFFICES ASSUME TurnInv, CostInv, NEW k \in DOMAIN answers,
                      Ended(answers[k].by, {"ok"})
               PROVE  k \in costs \cup uncosted
    BY DEF AnswersAreCosted
  <2>1. out[answers[k].by].is = "ok"
    BY DEF Ended
  <2>2. ~ CostComes(k) /\ ~ Cut(answers[k].by)
    <3>1. \A w \in Worker : req[w].pc = "cost" => out[req[w].by].is = "open"
      BY Open DEF TurnInv, Busy
    <3> QED BY <2>1, <3>1 DEF CostComes, Cut
  <2> QED BY <2>2 DEF CostInv
<1> QED BY <1>1, TurnsCorrect, CostsCorrect, PTL

-----------------------------------------------------------------------------
(* The commits.  Each one has its answer, or is about to have it from a     *)
(* request under way, or was made by an attempt that failed or died: at     *)
(* most one each, because a request stores what it did before it does more. *)

Told(m) == {k \in DOMAIN answers : answers[k].of = m /\ answers[k].op # "none"}
Unsaved(m) == {a \in DOMAIN out : \E w \in Worker :
  req[w].pc = "save" /\ req[w].op # "none" /\ req[w].by = a /\ req[w].m = m}
Failed(m) == {a \in DOMAIN out : out[a].of = m /\ Cut(a)}

CommitInv ==
  \A m \in Msg :
    LET sure == Cardinality(Told(m)) + Cardinality(Unsaved(m))
    IN  sure <= commits[m] /\ commits[m] <= sure + Cardinality(Failed(m))

LEMMA CountsFinite ==
  ASSUME TypeOK, NEW m
  PROVE  /\ IsFiniteSet(Told(m)) /\ IsFiniteSet(Unsaved(m)) /\ IsFiniteSet(Failed(m))
         /\ Cardinality(Told(m)) \in Nat /\ Cardinality(Unsaved(m)) \in Nat
         /\ Cardinality(Failed(m)) \in Nat
<1>1. /\ DOMAIN answers = 1 .. Len(answers) /\ Len(answers) \in Nat
      /\ DOMAIN out = 1 .. Len(out) /\ Len(out) \in Nat
  BY LenProperties DEF TypeOK
<1>2. IsFiniteSet(DOMAIN answers) /\ IsFiniteSet(DOMAIN out)
  BY <1>1, FS_Interval
<1>3. /\ Told(m) \in SUBSET DOMAIN answers
      /\ Unsaved(m) \in SUBSET DOMAIN out /\ Failed(m) \in SUBSET DOMAIN out
  BY DEF Told, Unsaved, Failed
<1>4. IsFiniteSet(Told(m)) /\ IsFiniteSet(Unsaved(m)) /\ IsFiniteSet(Failed(m))
  BY <1>2, <1>3, FS_Subset
<1> QED BY <1>4, FS_CardinalityType

\* A step that changes neither the commits nor what accounts for them.
LEMMA CountsStay ==
  ASSUME CommitInv, UNCHANGED commits,
         \A m \in Msg : /\ Told(m)' = Told(m)
                        /\ Unsaved(m)' = Unsaved(m) /\ Failed(m)' = Failed(m)
  PROVE  CommitInv'
  BY DEF CommitInv

\* Whether the attempt of a request is one that has yet to store what it did.
LEMMA UnsavedIs ==
  ASSUME ReqInv, NEW w \in Worker, Busy(w), NEW m
  PROVE  req[w].by \in Unsaved(m) <=> req[w].pc = "save" /\ req[w].op # "none" /\ req[w].m = m
<1>1. \A v \in Worker : req[v].pc = "save" /\ req[v].by = req[w].by => v = w
  BY DEF ReqInv, Busy
<1>2. req[w].by \in DOMAIN out
  BY Open
<1> QED BY <1>1, <1>2 DEF Unsaved

\* Attempts with an operation yet to store are open: none has failed.
LEMMA UnsavedAreOpen ==
  ASSUME ReqInv, NEW m
  PROVE  \A a \in Unsaved(m) : a \in DOMAIN out /\ out[a].of = m /\ out[a].is = "open"
<1>1. \A w \in Worker : req[w].pc = "save" =>
        out[req[w].by].is = "open" /\ out[req[w].by].of = req[w].m
  BY Open DEF Busy
<1> QED BY <1>1 DEF Unsaved

\* The operation is executed: one commit more, of an attempt under way.
LEMMA ExecuteCounts ==
  ASSUME TurnInv, CommitInv, NEW w \in Worker, Execute(w)
  PROVE  CommitInv'
<1>0. TypeOK /\ ReqInv /\ Busy(w) /\ req[w].pc = "agent"
  BY DEF TurnInv, Execute, At, Busy
<1>1. PICK op \in Report :
        /\ req' = [req EXCEPT ![w].pc = "save", ![w].op = op]
        /\ commits' = [commits EXCEPT ![req[w].m] = IF op = "none" THEN @ ELSE @ + 1]
  BY DEF Execute
<1>2. UNCHANGED <<answers, out>> /\ \A v \in Worker \ {w} : req'[v] = req[v]
  BY StepsMove
<1>3. PICK b, n : b = req[w].by /\ n = req[w].m
  OBVIOUS
<1>4. /\ req'[w].pc = "save" /\ req'[w].op = op /\ req'[w].by = b /\ req'[w].m = n
      /\ b \in DOMAIN out /\ n \in Msg
  BY <1>0, <1>1, <1>3, BusyFields, Open DEF TypeOK
<1>5. \A m : Told(m)' = Told(m) /\ Failed(m)' = Failed(m)
  BY <1>2 DEF Told, Failed, Cut
<1>6. \A m : m # n \/ op = "none" => Unsaved(m)' = Unsaved(m)
  BY <1>0, <1>2, <1>4 DEF Unsaved
<1>7. op # "none" => Unsaved(n)' = Unsaved(n) \cup {b}
  <2>1. Unsaved(n) \subseteq Unsaved(n)'
    BY <1>0, <1>2 DEF Unsaved
  <2>2. op # "none" => b \in Unsaved(n)'
    BY <1>2, <1>4 DEF Unsaved
  <2>3. Unsaved(n)' \subseteq Unsaved(n) \cup {b}
    BY <1>2, <1>4 DEF Unsaved
  <2> QED BY <2>1, <2>2, <2>3
<1>8. b \notin Unsaved(n)
  BY <1>0, <1>3, UnsavedIs
<1>9. Cardinality(Unsaved(n) \cup {b}) = Cardinality(Unsaved(n)) + 1
  BY <1>0, <1>8, CountsFinite, FS_AddElement
<1>10. \A m \in Msg : commits'[m] = IF op # "none" /\ m = n THEN commits[m] + 1 ELSE commits[m]
  BY <1>0, <1>1, <1>3 DEF TypeOK
<1>11. \A m \in Msg \ {n} :
         LET sure == Cardinality(Told(m)') + Cardinality(Unsaved(m)')
         IN  sure <= commits'[m] /\ commits'[m] <= sure + Cardinality(Failed(m)')
  BY <1>5, <1>6, <1>10 DEF CommitInv
<1>12. LET sure == Cardinality(Told(n)') + Cardinality(Unsaved(n)')
       IN  sure <= commits'[n] /\ commits'[n] <= sure + Cardinality(Failed(n)')
  <2>1. /\ Cardinality(Told(n)) \in Nat /\ Cardinality(Unsaved(n)) \in Nat
        /\ Cardinality(Failed(n)) \in Nat /\ commits[n] \in Nat
    BY <1>0, <1>4, CountsFinite DEF TypeOK
  <2>2. LET sure == Cardinality(Told(n)) + Cardinality(Unsaved(n))
        IN  sure <= commits[n] /\ commits[n] <= sure + Cardinality(Failed(n))
    BY <1>4 DEF CommitInv
  <2>3. CASE op # "none"
    <3>1. /\ Cardinality(Unsaved(n)') = Cardinality(Unsaved(n)) + 1
          /\ Cardinality(Told(n)') = Cardinality(Told(n))
          /\ Cardinality(Failed(n)') = Cardinality(Failed(n))
      BY <1>5, <1>7, <1>9, <2>3
    <3>2. commits'[n] = commits[n] + 1
      BY <1>4, <1>10, <2>3
    <3> QED BY <2>1, <2>2, <3>1, <3>2
  <2>4. CASE op = "none"
    BY <1>4, <1>5, <1>6, <1>10, <2>2, <2>4
  <2> QED BY <2>3, <2>4
<1> QED BY <1>11, <1>12 DEF CommitInv

\* The answer is stored: what was about to be reported is.
LEMMA SaveCounts ==
  ASSUME TurnInv, CommitInv, NEW w \in Worker, SaveAnswer(w)
  PROVE  CommitInv'
<1>0. TypeOK /\ ReqInv /\ Busy(w) /\ req[w].pc = "save" /\ UNCHANGED <<out, commits>>
  BY DEF TurnInv, SaveAnswer, At, Busy
<1>1. PICK b, n, x, op :
        b = req[w].by /\ n = req[w].m /\ x = Len(answers) + 1 /\ op = req[w].op
  OBVIOUS
<1>2. /\ Len(answers) \in Nat /\ DOMAIN answers = 1 .. Len(answers)
      /\ DOMAIN answers' = 1 .. x
      /\ \A k \in DOMAIN answers : answers'[k] = answers[k]
      /\ answers'[x] = [of |-> n, agent |-> req[w].i, by |-> b, op |-> op]
      /\ req'[w].pc = "cost"
      /\ \A v \in Worker \ {w} : req'[v] = req[v]
  BY <1>1, SaveKeeps
<1>3. DOMAIN answers' = DOMAIN answers \cup {x} /\ x \notin DOMAIN answers
  BY <1>1, <1>2
<1>4. answers'[x].of = n /\ answers'[x].op = op /\ n \in Msg /\ op \in Report
  BY <1>0, <1>1, <1>2, BusyFields
<1>5. \A m : Failed(m)' = Failed(m)
  BY <1>0 DEF Failed, Cut
<1>6. \A m : m # n \/ op = "none" => Told(m)' = Told(m)
  BY <1>2, <1>3, <1>4 DEF Told
<1>7. op # "none" => Told(n)' = Told(n) \cup {x}
  BY <1>2, <1>3, <1>4 DEF Told
<1>8. \A m : Unsaved(m)' = Unsaved(m) \ {b}
  <2>1. \A v \in Worker : req[v].pc = "save" /\ req[v].by = b => v = w
    BY <1>0, <1>1 DEF ReqInv, Busy
  <2> QED BY <1>0, <1>1, <1>2, <2>1 DEF Unsaved
<1>9. \A m : b \in Unsaved(m) <=> op # "none" /\ m = n
  BY <1>0, <1>1, UnsavedIs
<1>10. \A m \in Msg :
         /\ m # n \/ op = "none" => Unsaved(m)' = Unsaved(m)
         /\ m = n /\ op # "none" => Cardinality(Unsaved(m)') = Cardinality(Unsaved(m)) - 1
  <2> SUFFICES ASSUME NEW m \in Msg
               PROVE  /\ m # n \/ op = "none" => Unsaved(m)' = Unsaved(m)
                      /\ m = n /\ op # "none" =>
                           Cardinality(Unsaved(m)') = Cardinality(Unsaved(m)) - 1
    OBVIOUS
  <2>1. b \in Unsaved(m) => Cardinality(Unsaved(m) \ {b}) = Cardinality(Unsaved(m)) - 1
    BY <1>0, CountsFinite, FS_RemoveElement
  <2> QED BY <1>8, <1>9, <2>1
<1>11. Cardinality(Told(n) \cup {x}) = Cardinality(Told(n)) + 1
  <2>1. x \notin Told(n)
    BY <1>3 DEF Told
  <2> QED BY <1>0, <2>1, CountsFinite, FS_AddElement
<1>12. \A m \in Msg :
         Cardinality(Told(m)') + Cardinality(Unsaved(m)')
           = Cardinality(Told(m)) + Cardinality(Unsaved(m))
  <2> SUFFICES ASSUME NEW m \in Msg
               PROVE  Cardinality(Told(m)') + Cardinality(Unsaved(m)')
                        = Cardinality(Told(m)) + Cardinality(Unsaved(m))
    OBVIOUS
  <2>1. Cardinality(Told(m)) \in Nat /\ Cardinality(Unsaved(m)) \in Nat
    BY <1>0, CountsFinite
  <2>2. CASE m = n /\ op # "none"
    <3>1. /\ Cardinality(Unsaved(m)') = Cardinality(Unsaved(m)) - 1
          /\ Cardinality(Told(m)') = Cardinality(Told(m)) + 1
      BY <1>7, <1>10, <1>11, <2>2
    <3> QED BY <2>1, <3>1
  <2>3. CASE m # n \/ op = "none"
    BY <1>6, <1>10, <2>3
  <2> QED BY <2>2, <2>3
<1> QED BY <1>0, <1>5, <1>12 DEF CommitInv

\* A request that ends: what it had yet to store counts as its failure.
LEMMA EndCounts ==
  ASSUME TurnInv, CommitInv, NEW w \in Worker,
         InsertFails(w) \/ AskFails(w) \/ SaveFails(w) \/ Respond(w)
  PROVE  CommitInv'
<1>0. TypeOK /\ ReqInv /\ UNCHANGED commits
  BY DEF TurnInv, InsertFails, AskFails, SaveFails, Respond
<1>1. PICK is \in {"ok", "error"} :
        /\ Busy(w) /\ End(w, is) /\ UNCHANGED answers
        /\ is = "ok" => req[w].pc = "agent"
  BY StepsEnd
<1>2. PICK b, n : b = req[w].by /\ n = req[w].m
  OBVIOUS
<1>3. /\ DOMAIN out' = DOMAIN out /\ out'[b] = [of |-> n, is |-> is]
      /\ \A a \in DOMAIN out \ {b} : out'[a] = out[a]
      /\ req'[w] = Idle /\ \A v \in Worker \ {w} : req'[v] = req[v]
  BY <1>0, <1>1, <1>2, Ends
<1>4. b \in DOMAIN out /\ out[b].is = "open" /\ out'[b].of = n /\ out'[b].is = is
      /\ req'[w].pc = "idle" /\ n \in Msg
  BY <1>0, <1>1, <1>2, <1>3, Open, BusyFields DEF Idle
<1>5. \A m : Told(m)' = Told(m)
  BY <1>1 DEF Told
<1>6. \A m : Unsaved(m)' = Unsaved(m) \ {b}
  <2>1. \A v \in Worker : req[v].pc = "save" /\ req[v].by = b => v = w
    BY <1>0, <1>1, <1>2 DEF ReqInv, Busy
  <2> QED BY <1>2, <1>3, <1>4, <2>1 DEF Unsaved
<1>7. \A m : /\ b \in Unsaved(m) => m = n /\ is = "error"
             /\ b \notin Failed(m)
  <2>1. \A m : b \in Unsaved(m) => m = n /\ is = "error"
    BY <1>0, <1>1, <1>2, UnsavedIs
  <2> QED BY <1>4, <2>1 DEF Failed, Cut
<1>8. \A m : Failed(m)' = IF m = n /\ is = "error" THEN Failed(m) \cup {b} ELSE Failed(m)
  BY <1>3, <1>4 DEF Failed, Cut
<1>9. ASSUME NEW m \in Msg
      PROVE  LET sure == Cardinality(Told(m)') + Cardinality(Unsaved(m)')
             IN  sure <= commits'[m] /\ commits'[m] <= sure + Cardinality(Failed(m)')
  <2>1. /\ Cardinality(Told(m)) \in Nat /\ Cardinality(Unsaved(m)) \in Nat
        /\ Cardinality(Failed(m)) \in Nat /\ commits[m] \in Nat
        /\ IsFiniteSet(Unsaved(m)) /\ IsFiniteSet(Failed(m))
    BY <1>0, CountsFinite DEF TypeOK
  <2>2. LET sure == Cardinality(Told(m)) + Cardinality(Unsaved(m))
        IN  sure <= commits[m] /\ commits[m] <= sure + Cardinality(Failed(m))
    BY DEF CommitInv
  <2>3. Cardinality(Unsaved(m) \ {b}) =
          IF b \in Unsaved(m) THEN Cardinality(Unsaved(m)) - 1 ELSE Cardinality(Unsaved(m))
    BY <2>1, FS_RemoveElement
  <2>4. Cardinality(Failed(m) \cup {b}) = Cardinality(Failed(m)) + 1
    BY <1>7, <2>1, FS_AddElement
  <2>5. CASE m = n /\ is = "error"
    <3>1. /\ Cardinality(Told(m)') = Cardinality(Told(m))
          /\ Cardinality(Failed(m)') = Cardinality(Failed(m)) + 1
          /\ commits'[m] = commits[m]
      BY <1>0, <1>5, <1>8, <2>4, <2>5
    <3>2. \/ Cardinality(Unsaved(m)') = Cardinality(Unsaved(m)) - 1
          \/ Cardinality(Unsaved(m)') = Cardinality(Unsaved(m))
      BY <1>6, <2>3
    <3> QED BY <2>1, <2>2, <3>1, <3>2
  <2>6. CASE ~ (m = n /\ is = "error")
    BY <1>0, <1>5, <1>6, <1>7, <1>8, <2>2, <2>3, <2>6
  <2> QED BY <2>5, <2>6
<1> QED BY <1>9 DEF CommitInv

\* A restart: what was yet to be stored is lost with the attempts that died.
LEMMA RestartCounts ==
  ASSUME TurnInv, CommitInv, Restart
  PROVE  CommitInv'
<1>0. TypeOK /\ ReqInv /\ UNCHANGED <<answers, commits>>
  BY DEF TurnInv, Restart, tables
<1>1. /\ DOMAIN out' = DOMAIN out
      /\ \A a \in DOMAIN out :
           /\ out'[a].of = out[a].of
           /\ out'[a].is = IF out[a].is = "open" THEN "died" ELSE out[a].is
      /\ \A w \in Worker : req'[w] = Idle
  BY RestartKeeps
<1>2. IsFiniteSet(DOMAIN out)
  <2>1. DOMAIN out = 1 .. Len(out) /\ Len(out) \in Nat
    BY <1>0, LenProperties DEF TypeOK
  <2> QED BY <2>1, FS_Interval
<1>3. \A m : Told(m)' = Told(m) /\ Unsaved(m)' = {}
  BY <1>0, <1>1 DEF Told, Unsaved, Idle
<1>4. \A m : Failed(m) \cup Unsaved(m) \in SUBSET Failed(m)'
  BY <1>0, <1>1, UnsavedAreOpen DEF Failed, Cut
<1>5. \A m : Failed(m) \cap Unsaved(m) = {}
  BY <1>0, UnsavedAreOpen DEF Failed, Cut
<1>6. ASSUME NEW m \in Msg
      PROVE  LET sure == Cardinality(Told(m)') + Cardinality(Unsaved(m)')
             IN  sure <= commits'[m] /\ commits'[m] <= sure + Cardinality(Failed(m)')
  <2>1. /\ Cardinality(Told(m)) \in Nat /\ Cardinality(Unsaved(m)) \in Nat
        /\ Cardinality(Failed(m)) \in Nat /\ commits[m] \in Nat
        /\ IsFiniteSet(Unsaved(m)) /\ IsFiniteSet(Failed(m))
    BY <1>0, CountsFinite DEF TypeOK
  <2>2. LET sure == Cardinality(Told(m)) + Cardinality(Unsaved(m))
        IN  sure <= commits[m] /\ commits[m] <= sure + Cardinality(Failed(m))
    BY DEF CommitInv
  <2>3. IsFiniteSet(Failed(m)') /\ Cardinality(Failed(m)') \in Nat
    <3>1. Failed(m)' \in SUBSET DOMAIN out
      BY <1>1 DEF Failed
    <3> QED BY <1>2, <3>1, FS_Subset, FS_CardinalityType
  <2>4. Cardinality(Failed(m) \cup Unsaved(m)) = Cardinality(Failed(m)) + Cardinality(Unsaved(m))
    <3>1. Cardinality(Failed(m) \cap Unsaved(m)) = 0
      BY <1>5, FS_EmptySet
    <3>2. Cardinality(Failed(m) \cup Unsaved(m)) = Cardinality(Failed(m))
            + Cardinality(Unsaved(m)) - Cardinality(Failed(m) \cap Unsaved(m))
      BY <2>1, FS_Union
    <3> QED BY <2>1, <3>1, <3>2
  <2>5. Cardinality(Failed(m) \cup Unsaved(m)) <= Cardinality(Failed(m)')
    BY <1>4, <2>3, FS_Subset
  <2>6. Cardinality({}) = 0
    BY FS_EmptySet
  <2>7. /\ Cardinality(Told(m)') = Cardinality(Told(m))
        /\ Cardinality(Unsaved(m)') = 0 /\ commits'[m] = commits[m]
    BY <1>0, <1>3, <2>6
  <2> QED BY <2>1, <2>2, <2>3, <2>4, <2>5, <2>7
<1> QED BY <1>6 DEF CommitInv

\* What chat() knows of the repository's commits that nobody was told of yet.
THEOREM CommitsCorrect == Spec => []CommitInv
<1>1. Init => CommitInv
  <2> SUFFICES ASSUME Init, NEW m \in Msg
               PROVE  LET sure == Cardinality(Told(m)) + Cardinality(Unsaved(m))
                      IN  sure <= commits[m] /\ commits[m] <= sure + Cardinality(Failed(m))
    BY DEF CommitInv
  <2>1. Told(m) = {} /\ Unsaved(m) = {} /\ Failed(m) = {} /\ commits[m] = 0
    BY DEF Init, Told, Unsaved, Failed
  <2> QED BY <2>1, FS_EmptySet
<1>2. TurnInv /\ CommitInv /\ [Next]_vars => CommitInv'
  <2> SUFFICES ASSUME TurnInv, CommitInv, [Next]_vars PROVE CommitInv'
    OBVIOUS
  <2>1. CASE UNCHANGED vars
    BY <2>1, CountsStay DEF vars, tables, Told, Unsaved, Failed, Cut
  <2>2. ASSUME NEW w \in Worker, NEW m \in Msg, Begin(w, m) PROVE CommitInv'
    <3>1. /\ UNCHANGED <<answers, commits>>
          /\ req[w].pc = "idle" /\ req'[w].pc \in {"insert", "agent"}
          /\ \A v \in Worker \ {w} : req'[v] = req[v]
      BY <2>2 DEF Begin, At, tables, TurnInv, TypeOK
    <3>2. PICK b : /\ DOMAIN out' = DOMAIN out \cup {b}
                   /\ b \notin DOMAIN out /\ out'[b].is = "open"
                   /\ \A a \in DOMAIN out : out'[a] = out[a]
      <4>1. /\ out \in Seq(Outcome) /\ [of |-> m, is |-> "open"] \in Outcome
            /\ out' = Append(out, [of |-> m, is |-> "open"])
        BY <2>2 DEF Begin, TurnInv, TypeOK, Outcome
      <4>2. /\ Len(out) \in Nat /\ DOMAIN out = 1 .. Len(out)
            /\ DOMAIN out' = 1 .. Len(out) + 1
            /\ out'[Len(out) + 1] = [of |-> m, is |-> "open"]
            /\ \A a \in 1 .. Len(out) : out'[a] = out[a]
        BY <4>1, LenProperties, AppendProperties
      <4> QED BY <4>2
    <3>3. \A v \in Worker : req[v].pc = "save" => req[v].by \in DOMAIN out
      BY Open DEF TurnInv, Busy
    <3>4. \A n : Unsaved(n)' = Unsaved(n)
      BY <3>1, <3>2, <3>3 DEF Unsaved
    <3>5. \A n : Failed(n)' = Failed(n) /\ Told(n)' = Told(n)
      BY <3>1, <3>2 DEF Failed, Cut, Told
    <3> QED BY <3>1, <3>4, <3>5, CountsStay
  <2>3. ASSUME NEW w \in Worker, InsertMessage(w) \/ Ask(w) \/ TrackCost(w) PROVE CommitInv'
    <3>1. UNCHANGED <<answers, out, commits>> /\ \A v \in Worker \ {w} : req'[v] = req[v]
      BY <2>3, StepsMove DEF InsertMessage, Ask, TrackCost
    <3>2. req[w].pc # "save" /\ ~ (req'[w].pc = "save" /\ req'[w].op # "none")
      <4>1. req \in [Worker -> Request] /\ Busy(w)
        BY <2>3, StepsMove DEF TurnInv, TypeOK
      <4>2. CASE InsertMessage(w)
        BY <4>1, <4>2 DEF InsertMessage, At, Goto
      <4>3. CASE Ask(w)
        <5>1. req[w] \in [pc : {"insert", "agent", "save", "cost"}, m : Msg, by : Attempt,
                          i : 1 .. NAgents + 1, op : Report]
          BY <4>1, BusyFields DEF TurnInv
        <5> QED BY <4>1, <4>3, <5>1 DEF Ask, At
      <4>4. CASE TrackCost(w)
        <5>1. req[w] \in [pc : {"insert", "agent", "save", "cost"}, m : Msg, by : Attempt,
                          i : 1 .. NAgents + 1, op : Report]
          BY <4>1, BusyFields DEF TurnInv
        <5> QED BY <4>1, <4>4, <5>1 DEF TrackCost, At
      <4> QED BY <2>3, <4>2, <4>3, <4>4
    <3>3. \A n : Unsaved(n)' = Unsaved(n)
      BY <3>1, <3>2 DEF Unsaved
    <3> QED BY <3>1, <3>3, CountsStay DEF Failed, Cut, Told
  <2>4. ASSUME NEW w \in Worker, Execute(w) PROVE CommitInv'
    BY <2>4, ExecuteCounts
  <2>5. ASSUME NEW w \in Worker, SaveAnswer(w) PROVE CommitInv'
    BY <2>5, SaveCounts
  <2>6. ASSUME NEW w \in Worker, InsertFails(w) \/ AskFails(w) \/ SaveFails(w) \/ Respond(w)
        PROVE  CommitInv'
    BY <2>6, EndCounts
  <2>7. CASE SetGuidance
    BY <2>7, CountsStay DEF SetGuidance, tables, Told, Unsaved, Failed, Cut
  <2>8. CASE Restart
    BY <2>8, RestartCounts
  <2> QED BY <2>1, <2>2, <2>3, <2>4, <2>5, <2>6, <2>7, <2>8 DEF Next, Step
<1> QED BY <1>1, <1>2, TurnsCorrect, PTL DEF Spec

\* _execute_capability_if_authorized commits before chat() stores the answer
\* about it, and one that says a commit was made is right: no more go without
\* an answer than there are attempts without a 200.
THEOREM CommitsAreToldOf == Spec => []CommitsAreReported
<1>1. TurnInv /\ CommitInv => CommitsAreReported
  <2> SUFFICES ASSUME TurnInv, CommitInv, NEW m \in Ops
               PROVE  commits[m] \in Cardinality(Reports(m, {"done"}))
                        .. Cardinality(Reports(m, Report)) + Cardinality(NotOk(m))
    BY DEF CommitsAreReported
  <2>1. m \in Msg /\ TypeOK /\ ReqInv
    BY ChatConstants DEF TurnInv
  <2>2. /\ Cardinality(Told(m)) \in Nat /\ Cardinality(Unsaved(m)) \in Nat
        /\ Cardinality(Failed(m)) \in Nat /\ commits[m] \in Nat
        /\ IsFiniteSet(Told(m)) /\ IsFiniteSet(Unsaved(m)) /\ IsFiniteSet(Failed(m))
    BY <2>1, CountsFinite DEF TypeOK
  <2>3. LET sure == Cardinality(Told(m)) + Cardinality(Unsaved(m))
        IN  sure <= commits[m] /\ commits[m] <= sure + Cardinality(Failed(m))
    BY <2>1 DEF CommitInv
  <2>4. Failed(m) \cup Unsaved(m) \in SUBSET NotOk(m) /\ Failed(m) \cap Unsaved(m) = {}
    BY <2>1, UnsavedAreOpen DEF Failed, Cut, NotOk
  <2>5. /\ IsFiniteSet(NotOk(m)) /\ Cardinality(NotOk(m)) \in Nat
        /\ IsFiniteSet(Reports(m, Report)) /\ Cardinality(Reports(m, Report)) \in Nat
    <3>1. /\ DOMAIN out = 1 .. Len(out) /\ Len(out) \in Nat
          /\ DOMAIN answers = 1 .. Len(answers) /\ Len(answers) \in Nat
      BY <2>1, LenProperties DEF TypeOK
    <3>2. IsFiniteSet(DOMAIN out) /\ IsFiniteSet(DOMAIN answers)
      BY <3>1, FS_Interval
    <3>3. NotOk(m) \in SUBSET DOMAIN out /\ Reports(m, Report) \in SUBSET DOMAIN answers
      BY DEF NotOk, Reports
    <3> QED BY <3>2, <3>3, FS_Subset, FS_CardinalityType
  <2>6. Cardinality(Failed(m) \cup Unsaved(m)) = Cardinality(Failed(m)) + Cardinality(Unsaved(m))
    <3>1. Cardinality(Failed(m) \cap Unsaved(m)) = 0
      BY <2>4, FS_EmptySet
    <3>2. Cardinality(Failed(m) \cup Unsaved(m)) = Cardinality(Failed(m))
            + Cardinality(Unsaved(m)) - Cardinality(Failed(m) \cap Unsaved(m))
      BY <2>2, FS_Union
    <3> QED BY <2>2, <3>1, <3>2
  <2>7. Cardinality(Failed(m) \cup Unsaved(m)) <= Cardinality(NotOk(m))
    BY <2>4, <2>5, FS_Subset
  <2>8. /\ Cardinality(Reports(m, {"done"})) <= Cardinality(Told(m))
        /\ Cardinality(Told(m)) <= Cardinality(Reports(m, Report))
    <3>1. Reports(m, {"done"}) \in SUBSET Told(m)
      BY DEF Reports, Told
    <3>2. Told(m) \in SUBSET Reports(m, Report)
      <4>1. \A k \in DOMAIN answers : answers[k].op \in Report
        <5> SUFFICES ASSUME NEW k \in DOMAIN answers PROVE answers[k].op \in Report
          OBVIOUS
        <5>1. answers[k] \in AnswerRow
          BY <2>1, ElementOfSeq, LenProperties DEF TypeOK
        <5> QED BY <5>1 DEF AnswerRow
      <4> QED BY <4>1 DEF Reports, Told
    <3> QED BY <2>2, <2>5, <3>1, <3>2, FS_Subset
  <2>9. Cardinality(Reports(m, {"done"})) \in Nat
    <3>1. Reports(m, {"done"}) \in SUBSET Told(m)
      BY DEF Reports, Told
    <3> QED BY <2>2, <3>1, FS_Subset, FS_CardinalityType
  <2> QED BY <2>2, <2>3, <2>5, <2>6, <2>7, <2>8, <2>9
<1> QED BY <1>1, TurnsCorrect, CommitsCorrect, PTL

-----------------------------------------------------------------------------
(* TurnPlan, to the end.  First what is kept of a sequence.                 *)

Below(ps, i) == {j \in ps : j < i}

\* The positions at[1], at[2], ... are those of ps in their order.
Lists(at, ps, k) ==
  /\ at \in [1 .. k -> ps]
  /\ \A m, n \in 1 .. k : m < n => at[m] < at[n]
  /\ \A i \in ps : \E n \in 1 .. k : at[n] = i

LEMMA BelowType ==
  ASSUME NEW ps \in SUBSET Nat, IsFiniteSet(ps), NEW i \in ps
  PROVE  /\ Cardinality(Below(ps, i)) \in Nat
         /\ Cardinality(Below(ps, i)) + 1 <= Cardinality(ps)
         /\ \A j \in ps : i < j => Cardinality(Below(ps, i)) < Cardinality(Below(ps, j))
<1>1. \A T \in SUBSET ps : IsFiniteSet(T) /\ Cardinality(T) \in Nat /\ Cardinality(T) <= Cardinality(ps)
  BY FS_Subset, FS_CardinalityType
<1>2. Below(ps, i) \in SUBSET ps /\ i \notin Below(ps, i) /\ Below(ps, i) \cup {i} \in SUBSET ps
  BY DEF Below
<1>3. Cardinality(Below(ps, i) \cup {i}) = Cardinality(Below(ps, i)) + 1
  BY <1>1, <1>2, FS_AddElement
<1>4. ASSUME NEW j \in ps, i < j
      PROVE  Cardinality(Below(ps, i)) < Cardinality(Below(ps, j))
  <2>1. Below(ps, i) \cup {i} \in SUBSET Below(ps, j) /\ Below(ps, j) \in SUBSET ps
    <3>1. Below(ps, j) \in SUBSET ps /\ i \in Below(ps, j)
      BY <1>4 DEF Below
    <3>2. \A x \in Below(ps, i) : x \in Below(ps, j)
      <4> SUFFICES ASSUME NEW x \in ps, x < i PROVE x < j
        BY DEF Below
      <4>1. x \in Nat /\ i \in Nat /\ j \in Nat
        BY <1>4
      <4> QED BY <1>4, <4>1
    <3> QED BY <3>1, <3>2
  <2>2. Cardinality(Below(ps, i) \cup {i}) <= Cardinality(Below(ps, j))
    BY <1>1, <2>1, FS_Subset
  <2> QED BY <1>1, <1>2, <1>3, <2>1, <2>2
<1> QED BY <1>1, <1>2, <1>3, <1>4

LEMMA KeptIs ==
  ASSUME NEW s, NEW ps \in SUBSET Nat, IsFiniteSet(ps)
  PROVE  /\ Cardinality(ps) \in Nat
         /\ \E at : /\ Lists(at, ps, Cardinality(ps))
                    /\ Kept(s, ps) = [n \in 1 .. Cardinality(ps) |-> s[at[n]]]
<1> PICK k \in Nat : k = Cardinality(ps)
  BY FS_CardinalityType
<1> DEFINE rank == [i \in ps |-> Cardinality(Below(ps, i)) + 1]
<1>1. \A i \in ps : rank[i] \in 1 .. k /\ \A j \in ps : i < j => rank[i] < rank[j]
  BY BelowType
<1>2. rank \in Injection(ps, 1 .. k)
  <2>1. rank \in [ps -> 1 .. k]
    BY <1>1
  <2>2. \A i, j \in ps : rank[i] = rank[j] => i = j
    <3> TAKE i, j \in ps
    <3>1. i < j \/ j < i \/ i = j
      OBVIOUS
    <3> HIDE DEF rank
    <3> QED BY <1>1, <3>1
  <2> HIDE DEF rank
  <2> QED BY <2>1, <2>2, Fun_IsInj
<1>3. IsFiniteSet(1 .. k) /\ Cardinality(1 .. k) = k
  BY FS_Interval
<1>4. rank \in Surjection(ps, 1 .. k)
  <2> HIDE DEF rank
  <2> QED BY <1>2, <1>3, FS_Injection
<1>5. \A n \in 1 .. k : \E i \in ps : rank[i] = n
  <2> HIDE DEF rank
  <2> QED BY ONLY <1>4, Fun_SurjectionProperties
<1> DEFINE at == [n \in 1 .. k |-> CHOOSE i \in ps : Cardinality(Below(ps, i)) = n - 1]
<1>6. \A n \in 1 .. k : at[n] \in ps /\ Cardinality(Below(ps, at[n])) = n - 1
  <2> TAKE n \in 1 .. k
  <2>1. \E i \in ps : Cardinality(Below(ps, i)) = n - 1
    BY <1>5, BelowType
  <2> QED BY <2>1
<1>7. Kept(s, ps) = [n \in 1 .. k |-> s[at[n]]]
  BY DEF Kept, Below
<1> HIDE DEF at
<1>8. at \in [1 .. k -> ps]
  BY <1>6 DEF at
<1>9. \A m, n \in 1 .. k : m < n => at[m] < at[n]
  <2> SUFFICES ASSUME NEW m \in 1 .. k, NEW n \in 1 .. k, m < n PROVE at[m] < at[n]
    OBVIOUS
  <2>1. at[m] \in ps /\ at[n] \in ps /\ rank[at[m]] = m /\ rank[at[n]] = n
    BY <1>6
  <2> HIDE DEF rank
  <2>2. at[m] \in Nat /\ at[n] \in Nat
    BY <2>1
  <2>3. ~(at[n] < at[m])
    <3>1. at[n] < at[m] => rank[at[n]] < rank[at[m]]
      BY <1>1, <2>1
    <3> QED BY <2>1, <3>1
  <2>4. at[n] # at[m]
    BY <2>1
  <2> QED BY ONLY <2>2, <2>3, <2>4
<1>10. \A i \in ps : \E n \in 1 .. k : at[n] = i
  <2> SUFFICES ASSUME NEW i \in ps PROVE \E n \in 1 .. k : at[n] = i
    OBVIOUS
  <2>1. at[rank[i]] \in ps /\ rank[at[rank[i]]] = rank[i] /\ rank[i] \in 1 .. k
    BY <1>1, <1>6
  <2> HIDE DEF rank
  <2>2. \A a, b \in ps : rank[a] = rank[b] => a = b
    BY <1>2, Fun_InjectionProperties
  <2> QED BY <2>1, <2>2
<1> QED BY <1>7, <1>8, <1>9, <1>10 DEF Lists

\* There is one way to list positions in their order.
LEMMA KeptAlong ==
  ASSUME NEW s, NEW ps \in SUBSET Nat, NEW k \in Nat, NEW at, Lists(at, ps, k)
  PROVE  Kept(s, ps) = [n \in 1 .. k |-> s[at[n]]]
<1>1. /\ at \in [1 .. k -> ps] /\ \A n \in 1 .. k : at[n] \in Nat
      /\ \A m, n \in 1 .. k : (at[m] = at[n] => m = n) /\ (at[m] < at[n] <=> m < n)
      /\ \A i \in ps : \E n \in 1 .. k : at[n] = i
  <2>1. at \in [1 .. k -> ps] /\ \A n \in 1 .. k : at[n] \in Nat
    BY DEF Lists
  <2>2. ASSUME NEW m \in 1 .. k, NEW n \in 1 .. k
        PROVE  (at[m] = at[n] => m = n) /\ (at[m] < at[n] <=> m < n)
    BY <2>1 DEF Lists
  <2> QED BY <2>1, <2>2 DEF Lists
<1>2. Cardinality(ps) = k
  <2>1. at \in Bijection(1 .. k, ps)
    BY <1>1, Fun_IsBij
  <2> QED BY <2>1, FS_CountingElements DEF ExistsBijection
<1>3. ASSUME NEW n \in 1 .. k
      PROVE  Cardinality(Below(ps, at[n])) = n - 1
  <2> DEFINE f == [m \in 1 .. n - 1 |-> at[m]]
  <2>1. \A m \in 1 .. n - 1 : m \in 1 .. k /\ f[m] = at[m]
    OBVIOUS
  <2>2. \A m \in 1 .. n - 1 : f[m] \in Below(ps, at[n])
    BY <1>1, <2>1 DEF Below
  <2>3. \A i \in Below(ps, at[n]) : \E m \in 1 .. n - 1 : f[m] = i
    <3> SUFFICES ASSUME NEW i \in ps, i < at[n] PROVE \E m \in 1 .. n - 1 : f[m] = i
      BY DEF Below
    <3>1. PICK m \in 1 .. k : at[m] = i
      BY <1>1
    <3>2. m < n
      BY <1>1, <3>1
    <3> QED BY <3>1, <3>2
  <2>4. f \in [1 .. n - 1 -> Below(ps, at[n])] /\ \A a, b \in 1 .. n - 1 : f[a] = f[b] => a = b
    BY <1>1, <2>1, <2>2
  <2> HIDE DEF f
  <2>5. f \in Bijection(1 .. n - 1, Below(ps, at[n]))
    BY <2>3, <2>4, Fun_IsBij
  <2> QED BY <2>5, FS_CountingElements DEF ExistsBijection
<1>4. ASSUME NEW n \in 1 .. k
      PROVE  (CHOOSE i \in ps : Cardinality(Below(ps, i)) = n - 1) = at[n]
  <2>1. \E i \in ps : Cardinality(Below(ps, i)) = n - 1
    BY <1>1, <1>3
  <2>2. ASSUME NEW i \in ps, Cardinality(Below(ps, i)) = n - 1
        PROVE  i = at[n]
    <3>1. PICK m \in 1 .. k : at[m] = i
      BY <1>1
    <3>2. n - 1 = m - 1
      BY <1>3, <2>2, <3>1
    <3> QED BY <3>1, <3>2
  <2> QED BY <2>1, <2>2
<1>5. Kept(s, ps) = [n \in 1 .. k |->
                      s[CHOOSE i \in ps : Cardinality(Below(ps, i)) = n - 1]]
  BY <1>2 DEF Kept, Below
<1> QED BY <1>4, <1>5

\* What is kept of a sequence, and in which order.
LEMMA KeptSeq ==
  ASSUME NEW S, NEW s \in Seq(S), NEW ps \in SUBSET DOMAIN s
  PROVE  /\ IsFiniteSet(ps) /\ Cardinality(ps) \in Nat
         /\ Kept(s, ps) \in Seq(S)
         /\ Len(Kept(s, ps)) = Cardinality(ps)
         /\ ToSet(Kept(s, ps)) = {s[i] : i \in ps}
         /\ Kept(s, ps) = <<>> <=> ps = {}
         /\ (\A i, j \in ps : s[i] = s[j] => i = j) => IsInjective(Kept(s, ps))
         /\ ps # {} => \E i \in ps : Kept(s, ps)[1] = s[i] /\ \A j \in ps : i <= j
<1>1. Len(s) \in Nat /\ DOMAIN s = 1 .. Len(s) /\ \A i \in 1 .. Len(s) : s[i] \in S
  BY LenProperties, ElementOfSeq
<1>2. ps \in SUBSET Nat /\ IsFiniteSet(ps)
  <2>1. IsFiniteSet(1 .. Len(s)) /\ 1 .. Len(s) \in SUBSET Nat
    BY <1>1, FS_Interval
  <2> QED BY <1>1, <2>1, FS_Subset
<1> PICK k \in Nat : k = Cardinality(ps)
  BY <1>2, FS_CardinalityType
<1>3. PICK at : Lists(at, ps, k) /\ Kept(s, ps) = [n \in 1 .. k |-> s[at[n]]]
  BY <1>2, KeptIs
<1>4. \A n \in 1 .. k : at[n] \in ps /\ s[at[n]] \in S
  BY <1>1, <1>3 DEF Lists
<1>5. Kept(s, ps) \in Seq(S) /\ Len(Kept(s, ps)) = k /\ DOMAIN Kept(s, ps) = 1 .. k
  BY <1>3, <1>4, SeqDef, LenProperties
<1>6. \A n \in 1 .. k : Kept(s, ps)[n] = s[at[n]]
  BY <1>3
<1>7. ToSet(Kept(s, ps)) = {s[i] : i \in ps}
  <2>1. ASSUME NEW x \in ToSet(Kept(s, ps)) PROVE x \in {s[i] : i \in ps}
    BY <1>4, <1>5, <1>6 DEF ToSet
  <2>2. ASSUME NEW i \in ps PROVE s[i] \in ToSet(Kept(s, ps))
    <3>1. PICK n \in 1 .. k : at[n] = i
      BY <1>3 DEF Lists
    <3> QED BY <1>5, <1>6, <3>1 DEF ToSet
  <2> QED BY <2>1, <2>2
<1>8. Kept(s, ps) = <<>> <=> ps = {}
  <2>1. k = 0 <=> ps = {}
    BY <1>2, FS_EmptySet
  <2>2. Kept(s, ps) = <<>> <=> k = 0
    BY <1>5, EmptySeq
  <2> QED BY <2>1, <2>2
<1>9. ASSUME \A i, j \in ps : s[i] = s[j] => i = j
      PROVE  IsInjective(Kept(s, ps))
  <2> SUFFICES ASSUME NEW m \in 1 .. k, NEW n \in 1 .. k, s[at[m]] = s[at[n]]
               PROVE  m = n
    BY <1>5, <1>6 DEF IsInjective
  <2>1. at[m] = at[n] /\ at[m] \in Nat
    BY <1>2, <1>4, <1>9
  <2>2. ~(m < n) /\ ~(n < m)
    BY <1>3, <2>1 DEF Lists
  <2> QED BY <2>2
<1>10. ASSUME ps # {}
       PROVE  \E i \in ps : Kept(s, ps)[1] = s[i] /\ \A j \in ps : i <= j
  <2>1. 1 \in 1 .. k
    BY <1>2, <1>10, FS_EmptySet
  <2>2. at[1] \in ps /\ Kept(s, ps)[1] = s[at[1]]
    BY <1>4, <1>6, <2>1
  <2>3. ASSUME NEW j \in ps PROVE at[1] <= j
    <3>1. PICK n \in 1 .. k : at[n] = j
      BY <1>3 DEF Lists
    <3>2. n = 1 \/ at[1] < at[n]
      BY <1>3, <2>1 DEF Lists
    <3>3. at[1] \in Nat /\ j \in Nat
      BY <1>2, <2>2
    <3> QED BY <3>1, <3>2, <3>3
  <2> QED BY <2>2, <2>3
<1> QED BY <1>2, <1>5, <1>7, <1>8, <1>9, <1>10

LEMMA KeptWhole ==
  ASSUME NEW S, NEW s \in Seq(S)
  PROVE  Kept(s, DOMAIN s) = s
<1>1. Len(s) \in Nat /\ DOMAIN s = 1 .. Len(s) /\ s \in [1 .. Len(s) -> S]
  BY LenProperties
<1> DEFINE at == [n \in 1 .. Len(s) |-> n]
<1>2. Lists(at, 1 .. Len(s), Len(s))
  BY <1>1 DEF Lists
<1>3. \A n \in 1 .. Len(s) : at[n] = n
  OBVIOUS
<1> HIDE DEF at
<1>4. 1 .. Len(s) \in SUBSET Nat
  BY <1>1
<1>5. Kept(s, 1 .. Len(s)) = [n \in 1 .. Len(s) |-> s[at[n]]]
  BY <1>1, <1>2, <1>4, KeptAlong
<1>6. [n \in 1 .. Len(s) |-> s[at[n]]] = s
  BY <1>1, <1>3
<1> QED BY <1>1, <1>5, <1>6

LEMMA Joined ==
  ASSUME NEW S, NEW s \in Seq(S), NEW t \in Seq(S)
  PROVE  /\ s \o t \in Seq(S)
         /\ ToSet(s \o t) = ToSet(s) \cup ToSet(t)
         /\ s # <<>> => (s \o t)[1] = s[1]
         /\ s \o t = <<>> <=> s = <<>> /\ t = <<>>
         /\ IsInjective(s) /\ IsInjective(t) /\ ToSet(s) \cap ToSet(t) = {}
              => IsInjective(s \o t)
<1>1. PICK r : r = s \o t
  OBVIOUS
<1>2. /\ Len(s) \in Nat /\ DOMAIN s = 1 .. Len(s) /\ Len(t) \in Nat /\ DOMAIN t = 1 .. Len(t)
      /\ r \in Seq(S) /\ Len(r) = Len(s) + Len(t) /\ DOMAIN r = 1 .. Len(s) + Len(t)
      /\ \A i \in 1 .. Len(s) + Len(t) : r[i] = IF i <= Len(s) THEN s[i] ELSE t[i - Len(s)]
  BY <1>1, ConcatProperties, LenProperties
<1>3. \A i \in 1 .. Len(s) : i \in DOMAIN r /\ r[i] = s[i]
  BY <1>2
<1>4. \A i \in 1 .. Len(t) : Len(s) + i \in DOMAIN r /\ r[Len(s) + i] = t[i]
  <2> SUFFICES ASSUME NEW i \in 1 .. Len(t)
               PROVE  Len(s) + i \in DOMAIN r /\ r[Len(s) + i] = t[i]
    OBVIOUS
  <2>1. Len(s) + i \in 1 .. Len(s) + Len(t) /\ ~(Len(s) + i <= Len(s)) /\ (Len(s) + i) - Len(s) = i
    BY <1>2
  <2> QED BY <1>2, <2>1
<1>5. \A n \in DOMAIN r : \/ n \in 1 .. Len(s)
                          \/ \E i \in 1 .. Len(t) : n = Len(s) + i
  <2> SUFFICES ASSUME NEW n \in DOMAIN r, n \notin 1 .. Len(s)
               PROVE  \E i \in 1 .. Len(t) : n = Len(s) + i
    OBVIOUS
  <2>1. n - Len(s) \in 1 .. Len(t) /\ n = Len(s) + (n - Len(s))
    BY <1>2
  <2> QED BY <2>1
<1>6. ToSet(r) = ToSet(s) \cup ToSet(t)
  <2>1. ASSUME NEW n \in DOMAIN r PROVE r[n] \in ToSet(s) \cup ToSet(t)
    <3>1. CASE n \in 1 .. Len(s)
      BY <1>2, <1>3, <3>1 DEF ToSet
    <3>2. ASSUME NEW i \in 1 .. Len(t), n = Len(s) + i PROVE r[n] \in ToSet(t)
      BY <1>2, <1>4, <3>2 DEF ToSet
    <3> QED BY <1>5, <3>1, <3>2
  <2>2. \A i \in DOMAIN s : s[i] \in ToSet(r)
    BY <1>2, <1>3 DEF ToSet
  <2>3. \A i \in DOMAIN t : t[i] \in ToSet(r)
    BY <1>2, <1>4 DEF ToSet
  <2> QED BY <2>1, <2>2, <2>3 DEF ToSet
<1>7. s # <<>> => r[1] = s[1]
  <2>1. s # <<>> => 1 \in 1 .. Len(s)
    BY <1>2, EmptySeq
  <2> QED BY <1>3, <2>1
<1>8. ASSUME IsInjective(s), IsInjective(t), ToSet(s) \cap ToSet(t) = {}
      PROVE  IsInjective(r)
  <2> SUFFICES ASSUME NEW a \in DOMAIN r, NEW b \in DOMAIN r, r[a] = r[b] PROVE a = b
    BY DEF IsInjective
  <2>1. CASE a \in 1 .. Len(s) /\ b \in 1 .. Len(s)
    BY <1>2, <1>3, <1>8, <2>1 DEF IsInjective
  <2>2. ASSUME a \in 1 .. Len(s), NEW i \in 1 .. Len(t), b = Len(s) + i PROVE FALSE
    BY <1>2, <1>3, <1>4, <1>8, <2>2 DEF ToSet
  <2>3. ASSUME b \in 1 .. Len(s), NEW i \in 1 .. Len(t), a = Len(s) + i PROVE FALSE
    BY <1>2, <1>3, <1>4, <1>8, <2>3 DEF ToSet
  <2>4. ASSUME NEW i \in 1 .. Len(t), NEW j \in 1 .. Len(t), a = Len(s) + i, b = Len(s) + j
        PROVE  a = b
    BY <1>2, <1>4, <1>8, <2>4 DEF IsInjective
  <2> QED BY <1>5, <2>1, <2>2, <2>3, <2>4
<1>9. r = <<>> <=> s = <<>> /\ t = <<>>
  BY <1>1, ConcatEqualIffEmpty
<1> QED BY <1>1, <1>2, <1>6, <1>7, <1>8, <1>9

-----------------------------------------------------------------------------
(* Finding agents by names.                                                 *)

LEMMA Smallest ==
  ASSUME NEW T \in SUBSET Nat, T # {}
  PROVE  Min(T) \in T /\ \A i \in T : Min(T) <= i
<1>1. PICK x \in T : \A y \in T : <<y, x>> \notin OpToRel(<, Nat)
  BY NatLessThanWellFounded, WFMin
<1>2. \A y \in T : x <= y
  <2> SUFFICES ASSUME NEW y \in T PROVE x <= y
    OBVIOUS
  <2>1. x \in Nat /\ y \in Nat /\ ~ (y < x)
    BY <1>1 DEF OpToRel
  <2> QED BY <2>1
<1> QED BY <1>2 DEF Min

LEMMA Largest ==
  ASSUME NEW T \in SUBSET Nat, T # {}, NEW k \in Nat, \A i \in T : i <= k
  PROVE  Max(T) \in T /\ \A i \in T : i <= Max(T)
<1> DEFINE U == {k - i : i \in T}
<1>1. U \in SUBSET Nat /\ U # {}
  <2>1. ASSUME NEW i \in T PROVE k - i \in Nat
    <3>1. i \in Nat /\ i <= k
      OBVIOUS
    <3> QED BY <3>1
  <2> QED BY <2>1
<1>2. Min(U) \in U /\ \A u \in U : Min(U) <= u
  <2> HIDE DEF U
  <2> QED BY <1>1, Smallest
<1>3. PICK x \in T : Min(U) = k - x
  BY <1>2
<1>4. \A y \in T : x >= y
  <2> SUFFICES ASSUME NEW y \in T PROVE x >= y
    OBVIOUS
  <2>1. k - x <= k - y
    BY <1>2, <1>3
  <2> QED BY <2>1
<1>5. Max(T) \in T /\ \A y \in T : Max(T) >= y
  BY <1>4 DEF Max
<1> QED BY <1>5

LEMMA NoRepeatsIs ==
  ASSUME NEW S, NEW s \in Seq(S)
  PROVE  /\ NoRepeats(s) \in Seq(S) /\ IsInjective(NoRepeats(s))
         /\ ToSet(NoRepeats(s)) = ToSet(s)
         /\ NoRepeats(s) = <<>> <=> s = <<>>
         /\ s # <<>> => NoRepeats(s)[1] = s[1]
         /\ IsInjective(s) => NoRepeats(s) = s
<1> DEFINE ps == {i \in DOMAIN s : \A j \in 1 .. (i - 1) : s[j] # s[i]}
<1>1. Len(s) \in Nat /\ DOMAIN s = 1 .. Len(s) /\ ps \in SUBSET DOMAIN s /\ ps \in SUBSET Nat
  BY LenProperties
<1>2. \A i \in DOMAIN s : \E j \in ps : s[j] = s[i]
  <2> SUFFICES ASSUME NEW i \in DOMAIN s PROVE \E j \in ps : s[j] = s[i]
    OBVIOUS
  <2> DEFINE T == {j \in DOMAIN s : s[j] = s[i]}
  <2>1. T \in SUBSET Nat /\ T # {}
    BY <1>1
  <2>2. Min(T) \in T /\ \A j \in T : Min(T) <= j
    <3> HIDE DEF T
    <3> QED BY <2>1, Smallest
  <2>3. ASSUME NEW j \in 1 .. (Min(T) - 1) PROVE s[j] # s[Min(T)]
    <3>1. j \in DOMAIN s /\ ~(Min(T) <= j)
      BY <1>1, <2>1, <2>2
    <3> QED BY <2>2, <3>1
  <2> QED BY <1>1, <2>2, <2>3
<1>3. \A i, j \in ps : s[i] = s[j] => i = j
  <2> SUFFICES ASSUME NEW i \in ps, NEW j \in ps, s[i] = s[j] PROVE i = j
    OBVIOUS
  <2>1. i \in Nat /\ j \in Nat /\ i >= 1 /\ j >= 1
    BY <1>1
  <2>2. ~(i < j)
    <3>1. i < j => i \in 1 .. (j - 1)
      BY <2>1
    <3> QED BY <3>1
  <2>3. ~(j < i)
    <3>1. j < i => j \in 1 .. (i - 1)
      BY <2>1
    <3> QED BY <3>1
  <2> QED BY <2>1, <2>2, <2>3
<1>4. NoRepeats(s) = Kept(s, ps)
  BY DEF NoRepeats
<1>5. IsInjective(s) => ps = DOMAIN s
  <2> SUFFICES ASSUME IsInjective(s), NEW i \in DOMAIN s, NEW j \in 1 .. (i - 1) PROVE s[j] # s[i]
    BY <1>1
  <2>1. j \in DOMAIN s /\ i # j
    BY <1>1
  <2> QED BY <2>1 DEF IsInjective
<1>6. s = <<>> <=> ps = {}
  BY <1>1, <1>2, EmptySeq
<1>7. s # <<>> => 1 \in ps
  BY <1>1, EmptySeq
<1> HIDE DEF ps
<1>8. ToSet(s) = {s[i] : i \in ps}
  BY <1>1, <1>2 DEF ToSet
<1>9. s # <<>> => NoRepeats(s)[1] = s[1]
  <2> SUFFICES ASSUME s # <<>> PROVE Kept(s, ps)[1] = s[1]
    BY <1>4
  <2>1. PICK i \in ps : Kept(s, ps)[1] = s[i] /\ \A j \in ps : i <= j
    BY <1>1, <1>7, KeptSeq
  <2>2. i <= 1 /\ i \in 1 .. Len(s)
    BY <1>1, <1>7, <2>1
  <2> QED BY <1>1, <2>1, <2>2
<1> QED BY <1>1, <1>3, <1>4, <1>5, <1>6, <1>8, <1>9, KeptSeq, KeptWhole

\* The first one again in front of a sequence without repetitions adds nothing.
LEMMA NoRepeatsOfFirst ==
  ASSUME NEW S, NEW s \in Seq(S), IsInjective(s), s # <<>>
  PROVE  NoRepeats(<<s[1]>> \o s) = s
<1> DEFINE r == <<s[1]>> \o s
           ps == {i \in DOMAIN r : \A j \in 1 .. (i - 1) : r[j] # r[i]}
           at == [n \in 1 .. Len(s) |-> IF n = 1 THEN 1 ELSE n + 1]
<1>1. /\ Len(s) \in Nat /\ Len(s) >= 1 /\ DOMAIN s = 1 .. Len(s) /\ s \in [1 .. Len(s) -> S]
      /\ s[1] \in S
  <2>1. Len(s) \in Nat /\ Len(s) >= 1 /\ DOMAIN s = 1 .. Len(s) /\ s \in [1 .. Len(s) -> S]
    BY LenProperties, EmptySeq
  <2> QED BY <2>1
<1>2. /\ r \in Seq(S) /\ DOMAIN r = 1 .. Len(s) + 1
      /\ r[1] = s[1] /\ \A i \in 2 .. Len(s) + 1 : r[i] = s[i - 1]
  <2>1. <<s[1]>> \in Seq(S) /\ Len(<<s[1]>>) = 1 /\ <<s[1]>>[1] = s[1]
    BY <1>1
  <2>2. /\ r \in Seq(S) /\ Len(r) = 1 + Len(s)
        /\ \A i \in 1 .. 1 + Len(s) : r[i] = IF i <= 1 THEN <<s[1]>>[i] ELSE s[i - 1]
    BY <2>1, ConcatProperties
  <2>3. DOMAIN r = 1 .. Len(r)
    <3> HIDE DEF r
    <3> QED BY <2>2, LenProperties
  <2> HIDE DEF r
  <2> QED BY <1>1, <2>1, <2>2, <2>3
<1>3. ps = {1} \cup 3 .. Len(s) + 1
  <2>1. 1 \in ps
    BY <1>1, <1>2
  <2>2. 2 \notin ps
    <3>1. 1 \in 1 .. (2 - 1)
      OBVIOUS
    <3>2. r[2] = s[1]
      BY <1>1, <1>2
    <3> QED BY <1>2, <3>1, <3>2
  <2>3. ASSUME NEW i \in 3 .. Len(s) + 1 PROVE i \in ps
    <3> SUFFICES ASSUME NEW j \in 1 .. (i - 1) PROVE r[j] # r[i]
      BY <1>1, <1>2
    <3>1. r[i] = s[i - 1] /\ i - 1 \in DOMAIN s /\ i - 1 # 1
      BY <1>1, <1>2
    <3>2. CASE j = 1
      BY <1>1, <1>2, <3>1, <3>2 DEF IsInjective
    <3>3. CASE j # 1
      <4>1. r[j] = s[j - 1] /\ j - 1 \in DOMAIN s /\ j - 1 # i - 1
        BY <1>1, <1>2, <3>3
      <4> QED BY <3>1, <4>1 DEF IsInjective
    <3> QED BY <3>2, <3>3
  <2> QED BY <1>1, <1>2, <2>1, <2>2, <2>3
<1>4. NoRepeats(r) = Kept(r, ps)
  BY DEF NoRepeats
<1>5. \A n \in 1 .. Len(s) : at[n] = IF n = 1 THEN 1 ELSE n + 1
  OBVIOUS
<1>6. \A n \in 1 .. Len(s) : r[at[n]] = s[n]
  <2> SUFFICES ASSUME NEW n \in 1 .. Len(s) PROVE r[at[n]] = s[n]
    OBVIOUS
  <2> HIDE DEF r, at
  <2>1. CASE n = 1
    BY <1>1, <1>2, <1>5, <2>1
  <2>2. CASE n # 1
    <3>1. at[n] = n + 1 /\ n + 1 \in 2 .. Len(s) + 1 /\ (n + 1) - 1 = n
      BY <1>1, <1>5, <2>2
    <3> QED BY <1>2, <3>1
  <2> QED BY <2>1, <2>2
<1>7. Lists(at, ps, Len(s)) /\ ps \in SUBSET Nat
  <2>1. at \in [1 .. Len(s) -> ps]
    BY <1>1, <1>3
  <2> HIDE DEF ps, at
  <2>2. \A m, n \in 1 .. Len(s) : m < n => at[m] < at[n]
    BY <1>1, <1>5
  <2>3. ASSUME NEW i \in ps PROVE \E n \in 1 .. Len(s) : at[n] = i
    <3>1. CASE i = 1
      BY <1>1, <1>5, <3>1
    <3>2. CASE i \in 3 .. Len(s) + 1
      <4>1. i - 1 \in 1 .. Len(s) /\ at[i - 1] = i
        BY <1>1, <1>5, <3>2
      <4> QED BY <4>1
    <3> QED BY <1>3, <3>1, <3>2
  <2> QED BY <1>1, <1>3, <2>1, <2>2, <2>3 DEF Lists
<1> HIDE DEF ps, at, r
<1>8. Kept(r, ps) = [n \in 1 .. Len(s) |-> r[at[n]]]
  BY <1>1, <1>7, KeptAlong
<1>9. [n \in 1 .. Len(s) |-> r[at[n]]] = s
  BY <1>1, <1>6
<1> QED BY <1>4, <1>8, <1>9 DEF r

LEMMA BearingIs ==
  ASSUME NEW a \in AgentId
  PROVE  /\ Called[a] \in First \X BOOLEAN /\ Called[a][1] \in First
         /\ \A f : Bearing(a, Plain(f)) <=> Called[a][1] = f
         /\ \A key : Called[a] = key => Bearing(a, key)
         /\ \A key : Bearing(a, key) => key[1] = Called[a][1]
<1>1. Called[a] \in First \X BOOLEAN
  BY NamesAssumption
<1>2. PICK f \in First, b \in BOOLEAN : Called[a] = <<f, b>>
  BY <1>1
<1>3. Called[a][1] = f /\ FirstOf(a) = <<f, FALSE>>
  BY <1>2 DEF FirstOf, Plain
<1>4. ASSUME NEW g
      PROVE  Bearing(a, Plain(g)) <=> f = g
  <2>1. Plain(g) = <<f, b>> => f = g
    BY DEF Plain
  <2>2. Plain(g) = <<f, FALSE>> <=> f = g
    BY DEF Plain
  <2> QED BY <1>2, <1>3, <2>1, <2>2 DEF Bearing
<1>5. ASSUME NEW key, Bearing(a, key)
      PROVE  key[1] = f
  <2>1. key = <<f, b>> \/ key = <<f, FALSE>>
    BY <1>2, <1>3, <1>5 DEF Bearing
  <2>2. <<f, b>>[1] = f /\ <<f, FALSE>>[1] = f
    OBVIOUS
  <2>3. CASE key = <<f, b>>
    BY <2>2, <2>3, Zenon
  <2>4. CASE key = <<f, FALSE>>
    BY <2>2, <2>4, Zenon
  <2> QED BY <2>1, <2>3, <2>4
<1> QED BY <1>1, <1>2, <1>3, <1>4, <1>5 DEF Bearing

\* Nobody, or one of A.
OneOf(A) == {<<>>} \cup {<<a>> : a \in A}

LEMMA OneOfIs ==
  ASSUME NEW A, NEW p \in OneOf(A), p # <<>>
  PROVE  p[1] \in A /\ p = <<p[1]>>
BY DEF OneOf

LEMMA PickedIs ==
  ASSUME NEW s \in Seq(AgentId), NEW key
  PROVE  /\ Picked(key, s) \in OneOf(ToSet(s))
         /\ Picked(key, s) = <<>> <=> \A a \in ToSet(s) : ~Bearing(a, key)
         /\ Picked(key, s) # <<>> => Bearing(Picked(key, s)[1], key)
         /\ \A i \in DOMAIN s :
              Bearing(s[i], key) /\ (\A j \in 1 .. i - 1 : ~Bearing(s[j], key))
                => Picked(key, s) = <<s[i]>>
<1> DEFINE at == {i \in DOMAIN s : Bearing(s[i], key)}
<1>1. Len(s) \in Nat /\ DOMAIN s = 1 .. Len(s) /\ at \in SUBSET Nat
  BY LenProperties
<1>2. at # {} => Min(at) \in at /\ \A i \in at : Min(at) <= i
  <2> HIDE DEF at
  <2> QED BY <1>1, Smallest
<1>3. Picked(key, s) = IF at = {} THEN <<>> ELSE <<s[Min(at)]>>
  BY DEF Picked
<1>4. at = {} <=> \A a \in ToSet(s) : ~Bearing(a, key)
  BY DEF ToSet
<1>5. ASSUME NEW i \in DOMAIN s, Bearing(s[i], key), \A j \in 1 .. i - 1 : ~Bearing(s[j], key)
      PROVE  Picked(key, s) = <<s[i]>>
  <2>1. i \in at
    BY <1>5
  <2>2. Min(at) \in Nat /\ i \in Nat /\ Min(at) <= i /\ Min(at) >= 1
    BY <1>1, <1>2, <2>1
  <2>3. Min(at) \notin 1 .. i - 1
    BY <1>2, <1>5, <2>1
  <2>4. Min(at) = i
    <3> HIDE DEF at
    <3> QED BY <2>2, <2>3
  <2> QED BY <1>3, <2>1, <2>4
<1>6. at # {} => Bearing(s[Min(at)], key) /\ s[Min(at)] \in ToSet(s)
  BY <1>2 DEF ToSet
<1> HIDE DEF at
<1> QED BY <1>3, <1>4, <1>5, <1>6 DEF OneOf

LEMMA AliasedIs ==
  ASSUME NEW s \in Seq(AgentId), NEW key
  PROVE  /\ Aliased(key, s) \in OneOf(ToSet(s))
         /\ Aliased(key, s) = <<>> <=> \A a \in ToSet(s) : ~Bearing(a, key)
         /\ Aliased(key, s) # <<>> => Bearing(Aliased(key, s)[1], key)
<1> DEFINE at == {i \in DOMAIN s : Called[s[i]] = key}
<1>1. Len(s) \in Nat /\ DOMAIN s = 1 .. Len(s) /\ at \in SUBSET Nat /\ \A i \in at : i <= Len(s)
  BY LenProperties
<1>2. at # {} => Max(at) \in at
  <2> HIDE DEF at
  <2> QED BY <1>1, Largest
<1>3. Aliased(key, s) = IF at = {} THEN Picked(key, s) ELSE <<s[Max(at)]>>
  BY DEF Aliased
<1>4. at # {} => Bearing(s[Max(at)], key) /\ s[Max(at)] \in ToSet(s)
  <2> SUFFICES ASSUME at # {} PROVE Bearing(s[Max(at)], key) /\ s[Max(at)] \in ToSet(s)
    OBVIOUS
  <2>1. Max(at) \in DOMAIN s /\ Called[s[Max(at)]] = key
    BY <1>2
  <2>2. s[Max(at)] \in AgentId
    BY <1>1, <2>1, ElementOfSeq
  <2> HIDE DEF at
  <2> QED BY <2>1, <2>2, BearingIs DEF ToSet
<1> HIDE DEF at
<1>5. CASE at = {}
  BY <1>3, <1>5, PickedIs
<1>6. CASE at # {}
  BY <1>3, <1>4, <1>6 DEF OneOf
<1> QED BY <1>5, <1>6

LEMMA FoundIs ==
  ASSUME NEW A, NEW picks \in Seq(OneOf(A))
  PROVE  /\ Found(picks) \in Seq(A)
         /\ \A a : a \in ToSet(Found(picks)) <=> \E i \in DOMAIN picks : picks[i] = <<a>>
         /\ Found(picks) = <<>> <=> \A i \in DOMAIN picks : picks[i] = <<>>
         /\ picks # <<>> /\ picks[1] # <<>> => Found(picks) # <<>> /\ Found(picks)[1] = picks[1][1]
<1> DEFINE ps == {i \in DOMAIN picks : picks[i] # <<>>}
           some == Kept(picks, ps)
<1>1. Len(picks) \in Nat /\ DOMAIN picks = 1 .. Len(picks) /\ ps \in SUBSET DOMAIN picks
  BY LenProperties
<1>2. \A i \in ps : picks[i] \in OneOf(A) /\ picks[i] # <<>>
  BY <1>1, ElementOfSeq
<1>3. \A i \in ps : picks[i][1] \in A /\ picks[i] = <<picks[i][1]>>
  <2> HIDE DEF ps
  <2> QED BY <1>2, OneOfIs
<1>4. /\ some \in Seq(OneOf(A)) /\ ToSet(some) = {picks[i] : i \in ps}
      /\ some = <<>> <=> ps = {}
      /\ ps # {} => \E i \in ps : some[1] = picks[i] /\ \A j \in ps : i <= j
  <2> HIDE DEF ps
  <2> QED BY <1>1, KeptSeq
<1>5. Found(picks) = [n \in DOMAIN some |-> some[n][1]]
  BY DEF Found
<1>6. ps = {} <=> \A i \in DOMAIN picks : picks[i] = <<>>
  OBVIOUS
<1>7. picks # <<>> /\ picks[1] # <<>> => 1 \in ps
  BY <1>1, EmptySeq
<1>8. \A i \in DOMAIN picks : \A a : picks[i] = <<a>> => i \in ps
  <2> SUFFICES ASSUME NEW i \in DOMAIN picks, NEW a, picks[i] = <<a>> PROVE picks[i] # <<>>
    OBVIOUS
  <2>1. <<a>> # <<>>
    OBVIOUS
  <2> QED BY <2>1
<1> HIDE DEF ps, some
<1>9. Len(some) \in Nat /\ DOMAIN some = 1 .. Len(some)
  BY <1>4, LenProperties
<1>10. \A n \in 1 .. Len(some) : \E i \in ps : some[n] = picks[i]
  BY <1>4, <1>9 DEF ToSet
<1>11. Found(picks) \in [1 .. Len(some) -> A]
  BY <1>3, <1>5, <1>9, <1>10
<1>12. Found(picks) \in Seq(A) /\ DOMAIN Found(picks) = 1 .. Len(some)
  BY <1>9, <1>11, SeqDef
<1>13. \A n \in 1 .. Len(some) : Found(picks)[n] = some[n][1]
  BY <1>5, <1>9
<1>14. ASSUME NEW a
       PROVE  a \in ToSet(Found(picks)) <=> \E i \in DOMAIN picks : picks[i] = <<a>>
  <2>1. ASSUME a \in ToSet(Found(picks)) PROVE \E i \in DOMAIN picks : picks[i] = <<a>>
    <3>1. PICK n \in 1 .. Len(some) : a = some[n][1]
      BY <1>12, <1>13, <2>1 DEF ToSet
    <3>2. PICK i \in ps : some[n] = picks[i]
      BY <1>10
    <3> QED BY <1>1, <1>3, <3>1, <3>2
  <2>2. ASSUME NEW i \in DOMAIN picks, picks[i] = <<a>> PROVE a \in ToSet(Found(picks))
    <3>1. picks[i] \in ToSet(some)
      BY <1>4, <1>8, <2>2
    <3>2. PICK n \in 1 .. Len(some) : picks[i] = some[n]
      BY <1>9, <3>1 DEF ToSet
    <3>3. Found(picks)[n] = a
      BY <1>13, <2>2, <3>2
    <3> QED BY <1>12, <3>3 DEF ToSet
  <2> QED BY <2>1, <2>2
<1>15. Found(picks) = <<>> <=> ps = {}
  <2>1. some = <<>> <=> Len(some) = 0
    BY <1>4, EmptySeq
  <2>2. Found(picks) = <<>> <=> Len(some) = 0
    BY <1>9, <1>11, <1>12, EmptySeq, LenProperties
  <2> QED BY <1>4, <2>1, <2>2
<1>16. ASSUME picks # <<>> /\ picks[1] # <<>>
       PROVE  Found(picks) # <<>> /\ Found(picks)[1] = picks[1][1]
  <2>1. PICK i \in ps : some[1] = picks[i] /\ \A j \in ps : i <= j
    BY <1>4, <1>7, <1>16
  <2>2. i = 1
    BY <1>1, <1>7, <1>16, <2>1
  <2>3. 1 \in 1 .. Len(some)
    BY <1>4, <1>7, <1>9, <1>16, EmptySeq
  <2> QED BY <1>7, <1>13, <1>15, <1>16, <2>1, <2>2, <2>3
<1> QED BY <1>6, <1>12, <1>14, <1>15, <1>16

-----------------------------------------------------------------------------
(* Whom a message names.                                                    *)

\* The strings, of which the provers do not know that these are three.
Word == STRING \cup {"orkio", "chris", "orion"}

LEMMA RequestedIs ==
  ASSUME NEW m \in Message
  PROVE  /\ m.mentions \in Seq(Word)
         /\ Requested(m) \in Seq(Word) /\ IsInjective(Requested(m))
         /\ ToSet(Requested(m)) \in SUBSET {"orkio", "chris", "orion"}
         /\ "orkio" \in ToSet(m.mentions) => "orkio" \in ToSet(Requested(m))
         /\ "orkio" \in ToSet(Requested(m)) => Requested(m)[1] = "orkio"
<1>1. /\ m.mentions \in Seq(Word)
      /\ Core \in Seq(Word) /\ DOMAIN Core = 1 .. 3
      /\ Core[1] = "orkio" /\ Core[2] = "chris" /\ Core[3] = "orion"
  <2>1. m.mentions \in Seq(Word)
    <3>1. m.mentions \in Seq(STRING) /\ STRING \subseteq Word
      BY MessageAssumption DEF MessageType, Word
    <3> QED BY <3>1, SeqMonotonic
  <2>2. /\ DOMAIN Core = 1 .. 3
        /\ Core[1] = "orkio" /\ Core[2] = "chris" /\ Core[3] = "orion"
    BY DEF Core
  <2>3. "orkio" \in Word /\ "chris" \in Word /\ "orion" \in Word
    BY DEF Word
  <2>4. Core = [i \in 1 .. 3 |-> Core[i]]
    BY DEF Core
  <2>5. \A i \in 1 .. 3 : Core[i] \in Word
    BY <2>2, <2>3
  <2>6. Core \in [1 .. 3 -> Word]
    BY <2>4, <2>5
  <2> QED BY <2>1, <2>2, <2>6, SeqDef
<1> DEFINE named == {i \in DOMAIN Core : Core[i] \in m.words \cup ToSet(m.mentions)}
           rest == {2, 3} \ named
           everybody == m.board \/ "team" \in ToSet(m.mentions)
           one == Kept(Core, named)
           two == IF everybody THEN Kept(Core, rest) ELSE <<>>
<1>2. named \in SUBSET (1 .. 3) /\ rest \in SUBSET {2, 3} /\ named \cap rest = {}
  BY <1>1
<1>3. Requested(m) = one \o two
  BY DEF Requested
<1>4. "orkio" \in ToSet(m.mentions) => 1 \in named
  BY <1>1
<1> HIDE DEF named, rest, everybody
<1>5. \A i, j \in 1 .. 3 : Core[i] = Core[j] => i = j
  BY <1>1
<1>6. \A ps \in SUBSET (1 .. 3) :
        /\ Kept(Core, ps) \in Seq(Word) /\ IsInjective(Kept(Core, ps))
        /\ ToSet(Kept(Core, ps)) = {Core[i] : i \in ps}
        /\ 1 \in ps => Kept(Core, ps) # <<>> /\ Kept(Core, ps)[1] = "orkio"
  <2> SUFFICES ASSUME NEW ps \in SUBSET (1 .. 3)
               PROVE  /\ Kept(Core, ps) \in Seq(Word) /\ IsInjective(Kept(Core, ps))
                      /\ ToSet(Kept(Core, ps)) = {Core[i] : i \in ps}
                      /\ 1 \in ps => Kept(Core, ps) # <<>> /\ Kept(Core, ps)[1] = "orkio"
    OBVIOUS
  <2>1. ps \in SUBSET DOMAIN Core /\ \A i, j \in ps : Core[i] = Core[j] => i = j
    BY <1>1, <1>5
  <2>2. /\ Kept(Core, ps) \in Seq(Word) /\ IsInjective(Kept(Core, ps))
        /\ ToSet(Kept(Core, ps)) = {Core[i] : i \in ps}
        /\ Kept(Core, ps) = <<>> <=> ps = {}
        /\ ps # {} => \E i \in ps : Kept(Core, ps)[1] = Core[i] /\ \A j \in ps : i <= j
    <3>1. Core \in Seq(Word) /\ ps \in SUBSET DOMAIN Core
      BY <1>1
    <3> QED BY ONLY <2>1, <3>1, KeptSeq
  <2>3. ASSUME 1 \in ps PROVE Kept(Core, ps)[1] = "orkio"
    <3>1. PICK i \in ps : Kept(Core, ps)[1] = Core[i] /\ \A j \in ps : i <= j
      BY <2>2, <2>3
    <3>2. i \in 1 .. 3 /\ i <= 1
      BY <2>3, <3>1
    <3>3. i = 1
      BY <3>2
    <3> QED BY <1>1, <3>1, <3>3
  <2> QED BY <2>2, <2>3
<1>7. /\ one \in Seq(Word) /\ IsInjective(one)
      /\ ToSet(one) = {Core[i] : i \in named}
      /\ 1 \in named => one # <<>> /\ one[1] = "orkio"
  BY <1>2, <1>6
<1>8. /\ two \in Seq(Word) /\ IsInjective(two)
      /\ ToSet(two) \in SUBSET {Core[i] : i \in rest}
  <2>1. CASE everybody
    <3>1. rest \in SUBSET (1 .. 3)
      BY <1>2
    <3> QED BY <1>6, <2>1, <3>1
  <2>2. CASE ~everybody
    BY <2>2 DEF IsInjective, ToSet
  <2> QED BY <2>1, <2>2
<1> HIDE DEF one, two
<1>9. ToSet(one) \cap ToSet(two) = {}
  BY <1>2, <1>5, <1>7, <1>8
<1>10. /\ one \o two \in Seq(Word) /\ IsInjective(one \o two)
       /\ ToSet(one \o two) = ToSet(one) \cup ToSet(two)
       /\ one # <<>> => (one \o two)[1] = one[1]
  BY <1>7, <1>8, <1>9, Joined
<1>11. "orkio" \in ToSet(one \o two) => 1 \in named
  BY <1>1, <1>2, <1>7, <1>8, <1>10
<1>12. ToSet(one \o two) \in SUBSET {"orkio", "chris", "orion"}
  BY <1>1, <1>2, <1>7, <1>8, <1>10
<1>13. 1 \in named => "orkio" \in ToSet(one)
  BY <1>1, <1>7
<1> QED BY <1>1, <1>3, <1>4, <1>7, <1>10, <1>11, <1>12, <1>13

\* A key for each agent that is requested; and when orkio is not, a key of that
\* name is the first of the team's.
LEMMA KeysIs ==
  ASSUME NEW m \in Message
  PROVE  /\ \E n \in Nat : DOMAIN Keys(m) = 1 .. n
         /\ \A f \in ToSet(Requested(m)) : \E i \in DOMAIN Keys(m) : Keys(m)[i] = Plain(f)
         /\ \A i \in DOMAIN Keys(m) :
              Keys(m)[i][1] = "orkio" /\ "orkio" \notin ToSet(Requested(m))
                => 1 \in DOMAIN Keys(m) /\ Keys(m)[1] = Plain("orkio")
<1>1. CASE HasTeam(m)
  <2>1. Keys(m) = TeamOrder /\ DOMAIN TeamOrder = 1 .. 18
    BY <1>1 DEF Keys, TeamOrder
  <2>2. /\ TeamOrder[1] = <<Team[1], FALSE>> /\ TeamOrder[3] = <<Team[2], FALSE>>
        /\ TeamOrder[5] = <<Team[3], FALSE>>
    <3>1. \A i \in 1 .. 18 : TeamOrder[i] = <<Team[(i + 1) \div 2], i % 2 = 0>>
      BY DEF TeamOrder
    <3>2. ASSUME NEW i \in {1, 3, 5}
          PROVE  i \in 1 .. 18 /\ (i % 2 = 0) = FALSE
      OBVIOUS
    <3>3. (1 + 1) \div 2 = 1 /\ (3 + 1) \div 2 = 2 /\ (5 + 1) \div 2 = 3
      OBVIOUS
    <3>4. \A i \in {1, 3, 5} : TeamOrder[i] = <<Team[(i + 1) \div 2], FALSE>>
      BY <3>1, <3>2, Zenon
    <3> QED BY <3>3, <3>4
  <2>3. Team[1] = "orkio" /\ Team[2] = "chris" /\ Team[3] = "orion"
    BY DEF Team
  <2>4. ToSet(Requested(m)) \in SUBSET {"orkio", "chris", "orion"}
    BY RequestedIs
  <2>5. 1 \in 1 .. 18 /\ 3 \in 1 .. 18 /\ 5 \in 1 .. 18
    OBVIOUS
  <2>6. ASSUME NEW f \in ToSet(Requested(m))
        PROVE  \E i \in DOMAIN Keys(m) : Keys(m)[i] = Plain(f)
    <3>1. f = "orkio" \/ f = "chris" \/ f = "orion"
      BY <2>4
    <3> QED BY <2>1, <2>2, <2>3, <2>5, <3>1 DEF Plain
  <2> QED BY <2>1, <2>2, <2>3, <2>5, <2>6 DEF Plain
<1>2. CASE ~HasTeam(m)
  <2> DEFINE R == Requested(m)
             M == m.mentions
  <2>1. M \in Seq(Word) /\ R \in Seq(Word) /\ ("orkio" \in ToSet(M) => "orkio" \in ToSet(R))
    BY RequestedIs
  <2>2. M \o R \in Seq(Word) /\ ToSet(M \o R) = ToSet(M) \cup ToSet(R)
    <3> HIDE DEF M, R
    <3> QED BY <2>1, Joined
  <2>3. Tokens(m) = NoRepeats(M \o R)
    BY DEF Tokens
  <2>4. Tokens(m) \in Seq(Word) /\ ToSet(Tokens(m)) = ToSet(M) \cup ToSet(R)
    <3> HIDE DEF M, R
    <3> QED BY <2>2, <2>3, NoRepeatsIs
  <2>5. Len(Tokens(m)) \in Nat /\ DOMAIN Tokens(m) = 1 .. Len(Tokens(m))
    BY <2>4, LenProperties
  <2>6. Keys(m) = [i \in DOMAIN Tokens(m) |-> Plain(Tokens(m)[i])]
    BY <1>2 DEF Keys
  <2>7. DOMAIN Keys(m) = DOMAIN Tokens(m) /\ \A i \in DOMAIN Tokens(m) : Keys(m)[i] = Plain(Tokens(m)[i])
    BY <2>6
  <2>8. ASSUME NEW f \in ToSet(R) PROVE \E i \in DOMAIN Keys(m) : Keys(m)[i] = Plain(f)
    <3>1. PICK i \in DOMAIN Tokens(m) : Tokens(m)[i] = f
      BY <2>4 DEF ToSet
    <3> QED BY <2>7, <3>1
  <2>9. ASSUME NEW i \in DOMAIN Keys(m), Keys(m)[i][1] = "orkio" PROVE "orkio" \in ToSet(R)
    <3>1. Tokens(m)[i] = "orkio" /\ i \in DOMAIN Tokens(m)
      <4>1. i \in DOMAIN Tokens(m) /\ Keys(m)[i] = Plain(Tokens(m)[i])
        BY <2>7
      <4>2. Plain(Tokens(m)[i])[1] = Tokens(m)[i]
        BY DEF Plain
      <4> QED BY <2>9, <4>1, <4>2
    <3>2. "orkio" \in ToSet(Tokens(m))
      BY <3>1 DEF ToSet
    <3> QED BY <2>1, <2>4, <3>2
  <2> QED BY <2>5, <2>7, <2>8, <2>9
<1> QED BY <1>1, <1>2

-----------------------------------------------------------------------------
(* The agents that are selected.                                            *)

\* Somebody of s has that first name.
Bears(s, f) == \E a \in ToSet(s) : Called[a][1] = f

\* Nobody is put before orkio by putting orkio first.
OrkioLeads(s) == Bears(s, "orkio") => Called[s[1]][1] = "orkio"

LEMMA Members ==
  ASSUME NEW s \in Seq(AgentId)
  PROVE  ToSet(s) \in SUBSET AgentId /\ (s # <<>> => s[1] \in ToSet(s)) /\ s \in Seq(ToSet(s))
<1>1. Len(s) \in Nat /\ DOMAIN s = 1 .. Len(s) /\ s \in [1 .. Len(s) -> AgentId]
  BY LenProperties
<1>2. s # <<>> => 1 \in 1 .. Len(s)
  BY <1>1, EmptySeq
<1>3. s \in [1 .. Len(s) -> ToSet(s)]
  BY <1>1 DEF ToSet
<1> QED BY <1>1, <1>2, <1>3, SeqDef DEF ToSet

LEMMA ByAliasIs ==
  ASSUME NEW m \in Message, NEW s \in Seq(AgentId)
  PROVE  /\ ByAlias(Keys(m), s) \in Seq(AgentId) /\ IsInjective(ByAlias(Keys(m), s))
         /\ ToSet(ByAlias(Keys(m), s)) \subseteq ToSet(s)
         /\ \A f \in ToSet(Requested(m)) : Bears(s, f) => Bears(ByAlias(Keys(m), s), f)
         /\ "orkio" \notin ToSet(Requested(m)) => OrkioLeads(ByAlias(Keys(m), s))
<1> DEFINE keys == Keys(m)
           picks == [i \in DOMAIN keys |-> Aliased(keys[i], s)]
           found == Found(picks)
<1>1. PICK n \in Nat : DOMAIN keys = 1 .. n
  BY KeysIs
<1>2. \A i \in DOMAIN keys : picks[i] = Aliased(keys[i], s)
  OBVIOUS
<1>3. picks \in [1 .. n -> OneOf(ToSet(s))]
  BY <1>1, AliasedIs
<1>4. ByAlias(keys, s) = NoRepeats(found)
  BY DEF ByAlias
<1>5. ToSet(s) \in SUBSET AgentId
  BY Members
<1> HIDE DEF keys, picks
<1>6. picks \in Seq(OneOf(ToSet(s))) /\ DOMAIN picks = 1 .. n
  BY <1>3, SeqDef
<1>7. /\ found \in Seq(ToSet(s))
      /\ \A a : a \in ToSet(found) <=> \E i \in DOMAIN picks : picks[i] = <<a>>
      /\ picks # <<>> /\ picks[1] # <<>> => found # <<>> /\ found[1] = picks[1][1]
  BY <1>6, FoundIs
<1> HIDE DEF found
<1>8. /\ NoRepeats(found) \in Seq(ToSet(s)) /\ IsInjective(NoRepeats(found))
      /\ ToSet(NoRepeats(found)) = ToSet(found)
      /\ found # <<>> => NoRepeats(found)[1] = found[1]
  BY <1>7, NoRepeatsIs
<1>9. NoRepeats(found) \in Seq(AgentId)
  BY <1>5, <1>8, SeqMonotonic
<1>10. ToSet(found) \subseteq ToSet(s)
  <2>1. \A i \in 1 .. Len(found) : found[i] \in ToSet(s)
    BY <1>7, ElementOfSeq
  <2> QED BY <1>7, <2>1, LenProperties DEF ToSet
\* Who is found by a key bears it, and somebody is when the key has a bearer.
<1>11. ASSUME NEW i \in DOMAIN keys, NEW a \in ToSet(s), Bearing(a, keys[i])
       PROVE  /\ picks[i] # <<>> /\ picks[i] = <<picks[i][1]>>
              /\ picks[i][1] \in ToSet(found) /\ Bearing(picks[i][1], keys[i])
  <2>1. picks[i] # <<>> /\ picks[i] \in OneOf(ToSet(s)) /\ Bearing(picks[i][1], keys[i])
    BY <1>2, <1>11, AliasedIs
  <2>2. picks[i] = <<picks[i][1]>>
    BY <2>1, OneOfIs
  <2> QED BY <1>1, <1>6, <1>7, <2>1, <2>2
<1>12. ASSUME NEW f \in ToSet(Requested(m)), NEW a \in ToSet(s), Called[a][1] = f
       PROVE  Bears(NoRepeats(found), f)
  <2>1. PICK i \in DOMAIN keys : keys[i] = Plain(f)
    BY KeysIs DEF keys
  <2>2. Bearing(a, keys[i])
    BY <1>5, <1>12, <2>1, BearingIs
  <2>3. picks[i][1] \in ToSet(found) /\ Bearing(picks[i][1], Plain(f))
    BY <1>11, <2>1, <2>2
  <2>4. Called[picks[i][1]][1] = f
    BY <1>5, <1>10, <2>3, BearingIs
  <2> QED BY <1>8, <2>3, <2>4 DEF Bears
<1>13. ASSUME "orkio" \notin ToSet(Requested(m)), NEW a \in ToSet(found), Called[a][1] = "orkio"
       PROVE  Called[NoRepeats(found)[1]][1] = "orkio"
  <2>1. PICK i \in DOMAIN picks : picks[i] = <<a>>
    BY <1>7
  <2>2. picks[i] # <<>> /\ picks[i][1] = a /\ i \in DOMAIN keys
    BY <1>1, <1>6, <2>1
  <2>3. Bearing(a, keys[i])
    BY <1>2, <2>2, AliasedIs
  <2>4. a \in ToSet(s) /\ a \in AgentId
    BY <1>5, <1>10
  <2>5. keys[i][1] = "orkio"
    BY <1>13, <2>3, <2>4, BearingIs
  <2>6. 1 \in DOMAIN keys /\ keys[1] = Plain("orkio")
    BY <1>13, <2>2, <2>5, KeysIs DEF keys
  <2>7. Bearing(a, keys[1])
    BY <1>13, <2>4, <2>6, BearingIs
  <2>8. picks[1] # <<>> /\ picks[1][1] \in ToSet(found) /\ Bearing(picks[1][1], Plain("orkio"))
    BY <1>11, <2>4, <2>6, <2>7
  <2>9. Called[picks[1][1]][1] = "orkio"
    BY <1>5, <1>10, <2>8, BearingIs
  <2>10. picks # <<>>
    BY <1>1, <1>6, <2>6, EmptySeq
  <2> QED BY <1>7, <1>8, <2>8, <2>9, <2>10
<1> QED BY <1>4, <1>8, <1>9, <1>10, <1>12, <1>13 DEF keys, Bears, OrkioLeads

\* What a turn may be given to choose by.
Chosen == {{}} \cup {{a} : a \in AgentId}

LEMMA SelectedIs ==
  ASSUME NEW m \in Message, NEW chosen \in Chosen, NEW s \in Seq(AgentId), IsInjective(s)
  PROVE  /\ Selected(m, chosen, s) \in Seq(AgentId) /\ IsInjective(Selected(m, chosen, s))
         /\ ToSet(Selected(m, chosen, s)) \subseteq ToSet(s)
         /\ \A f \in ToSet(Requested(m)) : Bears(s, f) => Bears(Selected(m, chosen, s), f)
         /\ "orkio" \notin ToSet(Requested(m)) => OrkioLeads(Selected(m, chosen, s))
<1> DEFINE named == ByAlias(Keys(m), s)
           fallback == IF chosen # {} THEN chosen ELSE {Default}
           ps == {i \in DOMAIN s : s[i] \in fallback}
<1>1. Selected(m, chosen, s) = IF named # <<>> THEN named ELSE Kept(s, ps)
  BY DEF Selected
<1>2. CASE named # <<>>
  <2> HIDE DEF named
  <2> QED BY <1>1, <1>2, ByAliasIs DEF named
<1>3. CASE named = <<>>
  <2>1. PICK b : fallback = {b}
    BY DEF Chosen
  <2>2. ps \in SUBSET DOMAIN s /\ \A i \in ps : s[i] = b
    BY <2>1
  <2>3. \A i, j \in ps : s[i] = s[j] => i = j
    BY DEF IsInjective
  <2> HIDE DEF ps, fallback
  <2> DEFINE T == Kept(s, ps)
  <2>4. T \in Seq(AgentId) /\ IsInjective(T) /\ ToSet(T) = {s[i] : i \in ps}
    BY <2>2, <2>3, KeptSeq
  <2>5. Selected(m, chosen, s) = T
    BY <1>1, <1>3
  <2> HIDE DEF T
  <2>6. ToSet(T) \subseteq ToSet(s)
    BY <2>2, <2>4 DEF ToSet
  <2>7. \A f \in ToSet(Requested(m)) : ~Bears(s, f)
    <3>1. ToSet(named) = {}
      BY <1>3 DEF ToSet
    <3> HIDE DEF named
    <3>2. \A f \in ToSet(Requested(m)) : Bears(s, f) => Bears(named, f)
      BY ByAliasIs DEF named
    <3> QED BY <3>1, <3>2 DEF Bears
  <2>8. OrkioLeads(T)
    <3> SUFFICES ASSUME NEW a \in ToSet(T), Called[a][1] = "orkio" PROVE Called[T[1]][1] = "orkio"
      BY DEF OrkioLeads, Bears
    <3>1. T # <<>>
      BY DEF ToSet
    <3>2. T[1] \in ToSet(T)
      BY <2>4, <3>1, Members
    <3>3. T[1] = a
      BY <2>2, <2>4, <3>2
    <3> QED BY <3>3
  <2> QED BY <2>4, <2>5, <2>6, <2>7, <2>8
<1> QED BY <1>2, <1>3

LEMMA OrderedIs ==
  ASSUME NEW T \in Seq(AgentId), NEW R \in Seq(Word)
  PROVE  /\ Ordered(T, R) \in Seq(AgentId) /\ IsInjective(Ordered(T, R))
         /\ ToSet(Ordered(T, R)) \subseteq ToSet(T)
         /\ \A a : a \in ToSet(Ordered(T, R)) <=> \E f \in ToSet(R) : Picked(Plain(f), T) = <<a>>
         /\ Ordered(T, R) = <<>> <=> \A f \in ToSet(R) : ~Bears(T, f)
         /\ R # <<>> /\ Bears(T, R[1]) => Called[Ordered(T, R)[1]][1] = R[1]
<1> DEFINE picks == [i \in DOMAIN R |-> Picked(Plain(R[i]), T)]
           found == Found(picks)
<1>1. Len(R) \in Nat /\ DOMAIN R = 1 .. Len(R)
  BY LenProperties
<1>2. \A i \in DOMAIN R : picks[i] = Picked(Plain(R[i]), T)
  OBVIOUS
<1>3. picks \in [1 .. Len(R) -> OneOf(ToSet(T))]
  BY <1>1, PickedIs
<1>4. Ordered(T, R) = NoRepeats(found)
  BY DEF Ordered
<1>5. ToSet(T) \in SUBSET AgentId
  BY Members
<1> HIDE DEF picks
<1>6. picks \in Seq(OneOf(ToSet(T))) /\ DOMAIN picks = 1 .. Len(R)
  BY <1>1, <1>3, SeqDef
<1>7. /\ found \in Seq(ToSet(T))
      /\ \A a : a \in ToSet(found) <=> \E i \in DOMAIN picks : picks[i] = <<a>>
      /\ found = <<>> <=> \A i \in DOMAIN picks : picks[i] = <<>>
      /\ picks # <<>> /\ picks[1] # <<>> => found # <<>> /\ found[1] = picks[1][1]
  BY <1>6, FoundIs
<1> HIDE DEF found
<1>8. /\ NoRepeats(found) \in Seq(ToSet(T)) /\ IsInjective(NoRepeats(found))
      /\ ToSet(NoRepeats(found)) = ToSet(found)
      /\ NoRepeats(found) = <<>> <=> found = <<>>
      /\ found # <<>> => NoRepeats(found)[1] = found[1]
  BY <1>7, NoRepeatsIs
<1>9. NoRepeats(found) \in Seq(AgentId)
  BY <1>5, <1>8, SeqMonotonic
<1>10. ToSet(found) \subseteq ToSet(T)
  <2>1. \A i \in 1 .. Len(found) : found[i] \in ToSet(T)
    BY <1>7, ElementOfSeq
  <2> QED BY <1>7, <2>1, LenProperties DEF ToSet
<1>11. \A f : Picked(Plain(f), T) = <<>> <=> ~Bears(T, f)
  <2> TAKE f
  <2>1. Picked(Plain(f), T) = <<>> <=> \A a \in ToSet(T) : ~Bearing(a, Plain(f))
    BY PickedIs
  <2>2. \A a \in ToSet(T) : Bearing(a, Plain(f)) <=> Called[a][1] = f
    BY <1>5, BearingIs
  <2> QED BY <2>1, <2>2 DEF Bears
<1>12. \A a : a \in ToSet(found) <=> \E f \in ToSet(R) : Picked(Plain(f), T) = <<a>>
  BY <1>1, <1>2, <1>6, <1>7 DEF ToSet
<1>13. found = <<>> <=> \A f \in ToSet(R) : ~Bears(T, f)
  BY <1>1, <1>2, <1>6, <1>7, <1>11 DEF ToSet
<1>14. ASSUME R # <<>>, Bears(T, R[1]) PROVE Called[NoRepeats(found)[1]][1] = R[1]
  <2>1. 1 \in DOMAIN R /\ picks[1] = Picked(Plain(R[1]), T)
    BY <1>1, <1>2, <1>14, EmptySeq
  <2>2. picks[1] # <<>> /\ picks # <<>>
    BY <1>1, <1>6, <1>11, <1>14, <2>1, EmptySeq
  <2>3. picks[1][1] \in ToSet(T) /\ Bearing(picks[1][1], Plain(R[1]))
    BY <1>1, <1>3, <2>1, <2>2, PickedIs, OneOfIs
  <2>4. Called[picks[1][1]][1] = R[1]
    BY <1>5, <2>3, BearingIs
  <2> QED BY <1>7, <1>8, <2>2, <2>4
<1> QED BY <1>4, <1>8, <1>9, <1>10, <1>12, <1>13, <1>14

\* Somebody asked by one of the names of R.
AskedOf(a, R) == \E f \in ToSet(R) : Called[a][1] = f

LEMMA ExplicitIs ==
  ASSUME NEW T \in Seq(AgentId), IsInjective(T), NEW R \in Seq(Word),
         NEW s \in Seq(AgentId), IsInjective(s)
  PROVE  /\ Explicit(T, R, s) \in Seq(AgentId) /\ IsInjective(Explicit(T, R, s))
         /\ ToSet(Explicit(T, R, s)) \subseteq ToSet(T) \cup ToSet(s)
         /\ \/ Explicit(T, R, s) = T /\ \A a \in ToSet(T) : ~AskedOf(a, R)
            \/ \A a \in ToSet(Explicit(T, R, s)) : AskedOf(a, R)
         /\ R # <<>> /\ Bears(T, R[1]) => Called[Explicit(T, R, s)[1]][1] = R[1]
<1> DEFINE O == Ordered(T, R)
           ps == {i \in DOMAIN s : /\ s[i] \notin ToSet(O)
                                   /\ \E f \in ToSet(R) : Called[s[i]] = Plain(f)}
           B == ByName(O, R, s)
           all == IF Len(O) # Len(R) THEN O \o B ELSE O
<1>1. B = Kept(s, ps)
  BY DEF ByName
<1>2. Explicit(T, R, s) = IF all = <<>> THEN T ELSE all
  BY DEF Explicit
<1>3. /\ O \in Seq(AgentId) /\ IsInjective(O) /\ ToSet(O) \subseteq ToSet(T)
      /\ \A a : a \in ToSet(O) <=> \E f \in ToSet(R) : Picked(Plain(f), T) = <<a>>
      /\ O = <<>> <=> \A f \in ToSet(R) : ~Bears(T, f)
      /\ R # <<>> /\ Bears(T, R[1]) => Called[O[1]][1] = R[1]
  BY OrderedIs
<1>4. \A i \in DOMAIN s : s[i] \in AgentId
  BY LenProperties, ElementOfSeq
<1> HIDE DEF O, B
<1>5. ps \in SUBSET DOMAIN s /\ \A i, j \in ps : s[i] = s[j] => i = j
  BY DEF IsInjective
<1>6. ASSUME NEW i \in ps PROVE s[i] \in ToSet(s) /\ s[i] \notin ToSet(O) /\ AskedOf(s[i], R)
  <2>1. PICK f \in ToSet(R) : Called[s[i]] = Plain(f)
    BY <1>6
  <2>2. Called[s[i]][1] = f
    BY <2>1 DEF Plain
  <2> QED BY <2>2 DEF AskedOf, ToSet
<1> HIDE DEF ps
<1>7. B \in Seq(AgentId) /\ IsInjective(B) /\ ToSet(B) = {s[i] : i \in ps}
  BY <1>1, <1>5, KeptSeq
<1>8. \A a \in ToSet(O) : AskedOf(a, R)
  <2> SUFFICES ASSUME NEW a \in ToSet(O) PROVE AskedOf(a, R)
    OBVIOUS
  <2>1. PICK f \in ToSet(R) : Picked(Plain(f), T) = <<a>>
    BY <1>3
  <2>2. Picked(Plain(f), T) # <<>> /\ Picked(Plain(f), T)[1] = a
    BY <2>1
  <2>3. Bearing(a, Plain(f)) /\ a \in AgentId
    BY <1>3, <2>2, PickedIs, Members
  <2> QED BY <2>3, BearingIs DEF AskedOf
<1>9. /\ O \o B \in Seq(AgentId) /\ IsInjective(O \o B) /\ ToSet(O \o B) = ToSet(O) \cup ToSet(B)
      /\ O # <<>> => (O \o B)[1] = O[1]
      /\ O \o B = <<>> <=> O = <<>> /\ B = <<>>
  <2>1. ToSet(O) \cap ToSet(B) = {}
    BY <1>6, <1>7
  <2> QED BY <1>3, <1>7, <2>1, Joined
<1>10. /\ all \in Seq(AgentId) /\ IsInjective(all)
       /\ ToSet(all) \subseteq ToSet(O) \cup ToSet(B)
       /\ O # <<>> => all # <<>> /\ all[1] = O[1]
  BY <1>3, <1>9
<1>11. ToSet(B) \subseteq ToSet(s) /\ \A a \in ToSet(B) : AskedOf(a, R)
  BY <1>6, <1>7
<1>12. all = <<>> => \A a \in ToSet(T) : ~AskedOf(a, R)
  BY <1>3, <1>10 DEF Bears, AskedOf
<1>13. R # <<>> /\ Bears(T, R[1]) => O # <<>>
  <2>1. R # <<>> => R[1] \in ToSet(R)
    BY LenProperties, EmptySeq DEF ToSet
  <2> QED BY <1>3, <2>1
<1> HIDE DEF all
<1>14. CASE all = <<>>
  BY <1>2, <1>3, <1>10, <1>12, <1>13, <1>14
<1>15. CASE all # <<>>
  BY <1>2, <1>3, <1>8, <1>10, <1>11, <1>13, <1>15
<1> QED BY <1>14, <1>15

\* Asking the agents that answer a message for the same names leaves them as
\* they are, if somebody was found for each name that somebody has.
LEMMA ExplicitAgain ==
  ASSUME NEW T \in Seq(AgentId), IsInjective(T), NEW R \in Seq(Word),
         NEW s \in Seq(AgentId), IsInjective(s), ToSet(T) \subseteq ToSet(s),
         \A f \in ToSet(R) : Bears(s, f) => Bears(T, f)
  PROVE  Explicit(Explicit(T, R, s), R, s) = Explicit(T, R, s)
<1> DEFINE O == Ordered(T, R)
           all == IF Len(O) # Len(R) THEN O \o ByName(O, R, s) ELSE O
           E == Explicit(T, R, s)
<1>1. E = IF all = <<>> THEN T ELSE all
  BY DEF Explicit
<1>2. CASE all = <<>>
  BY <1>1, <1>2
<1>3. ASSUME all # <<>> PROVE Explicit(E, R, s) = E
  <2>1. E = all
    BY <1>1, <1>3
  <2>2. /\ E \in Seq(AgentId) /\ IsInjective(E) /\ ToSet(E) \subseteq ToSet(s)
    BY ExplicitIs
  <2>3. /\ O \in Seq(AgentId) /\ IsInjective(O) /\ ToSet(O) \subseteq ToSet(T)
        /\ \A a : a \in ToSet(O) <=> \E f \in ToSet(R) : Picked(Plain(f), T) = <<a>>
    BY OrderedIs
  <2>4. Len(O) \in Nat /\ DOMAIN O = 1 .. Len(O) /\ Len(E) \in Nat /\ DOMAIN E = 1 .. Len(E)
    BY <2>2, <2>3, LenProperties
  \* E begins with O.
  <2>5. \A i \in 1 .. Len(O) : i \in DOMAIN E /\ E[i] = O[i]
    <3>1. CASE all = O
      BY <2>1, <2>4, <3>1
    <3>2. CASE all = O \o ByName(O, R, s)
      <4> DEFINE ps == {i \in DOMAIN s : /\ s[i] \notin ToSet(O)
                                         /\ \E f \in ToSet(R) : Called[s[i]] = Plain(f)}
      <4>1. ByName(O, R, s) = Kept(s, ps) /\ ps \in SUBSET DOMAIN s
        BY DEF ByName
      <4> HIDE DEF O, ps
      <4>2. ByName(O, R, s) \in Seq(AgentId)
        BY <4>1, KeptSeq
      <4>3. /\ Len(E) = Len(O) + Len(ByName(O, R, s)) /\ Len(ByName(O, R, s)) \in Nat
            /\ \A i \in 1 .. Len(O) + Len(ByName(O, R, s)) :
                 E[i] = IF i <= Len(O) THEN O[i] ELSE ByName(O, R, s)[i - Len(O)]
        BY <2>1, <2>3, <3>2, <4>2, ConcatProperties, LenProperties
      <4> HIDE DEF E
      <4> QED BY <2>4, <4>3
    <3> QED BY <3>1, <3>2
  <2>6. ASSUME NEW f \in ToSet(R) PROVE Picked(Plain(f), E) = Picked(Plain(f), T)
    <3>1. CASE Picked(Plain(f), T) = <<>>
      <4>1. \A a \in ToSet(T) : Called[a][1] # f
        <5>1. \A a \in ToSet(T) : ~Bearing(a, Plain(f)) /\ a \in AgentId
          BY <3>1, PickedIs, Members
        <5> QED BY <5>1, BearingIs
      <4>2. \A a \in ToSet(s) : Called[a][1] # f
        BY <4>1 DEF Bears
      <4>3. \A a \in ToSet(E) : ~Bearing(a, Plain(f))
        <5>1. \A a \in ToSet(E) : a \in AgentId /\ Called[a][1] # f
          BY <2>2, <4>2, Members
        <5> QED BY <5>1, BearingIs
      <4> QED BY <2>2, <3>1, <4>3, PickedIs
    <3>2. CASE Picked(Plain(f), T) # <<>>
      <4>1. PICK a \in ToSet(T) : Picked(Plain(f), T) = <<a>>
        BY <3>2, PickedIs DEF OneOf
      <4>2. Picked(Plain(f), T)[1] = a
        BY <4>1
      <4>3. Bearing(a, Plain(f)) /\ a \in AgentId
        BY <3>2, <4>2, PickedIs, Members
      <4>4. PICK i \in 1 .. Len(O) : O[i] = a
        BY <2>3, <2>4, <4>1 DEF ToSet
      <4>5. ASSUME NEW j \in 1 .. i - 1 PROVE ~Bearing(E[j], Plain(f))
        <5> SUFFICES ASSUME Bearing(E[j], Plain(f)) PROVE FALSE
          OBVIOUS
        <5>1. j \in 1 .. Len(O) /\ j # i /\ j \in DOMAIN O /\ i \in DOMAIN O
          BY <2>4
        <5>2. O[j] = E[j] /\ O[j] \in ToSet(O) /\ O[j] \in AgentId
          BY <2>3, <2>4, <2>5, <5>1, ElementOfSeq DEF ToSet
        <5>3. PICK g \in ToSet(R) : Picked(Plain(g), T) = <<O[j]>>
          BY <2>3, <5>2
        <5>4. Picked(Plain(g), T) # <<>> /\ Picked(Plain(g), T)[1] = O[j]
          BY <5>3
        <5>5. Bearing(O[j], Plain(g))
          BY <5>4, PickedIs
        <5>6. g = f
          BY <5>2, <5>5, BearingIs
        <5>7. O[j] = O[i]
          BY <4>2, <4>4, <5>4, <5>6
        <5> QED BY <2>3, <5>1, <5>7 DEF IsInjective
      <4>6. i \in DOMAIN E /\ E[i] = a
        BY <2>5, <4>4
      <4>7. Picked(Plain(f), E) = <<E[i]>>
        BY <2>2, <4>3, <4>5, <4>6, PickedIs
      <4> QED BY <4>1, <4>6, <4>7
    <3> QED BY <3>1, <3>2
  <2>7. [i \in DOMAIN R |-> Picked(Plain(R[i]), E)] = [i \in DOMAIN R |-> Picked(Plain(R[i]), T)]
    <3>1. \A i \in DOMAIN R : R[i] \in ToSet(R)
      BY DEF ToSet
    <3> HIDE DEF E
    <3> QED BY <2>6, <3>1
  <2>8. Ordered(E, R) = O
    <3> HIDE DEF E
    <3> QED BY <2>7 DEF Ordered
  <2>9. Explicit(E, R, s) = IF all = <<>> THEN E ELSE all
    <3> HIDE DEF E
    <3> QED BY <2>8 DEF Explicit
  <2> QED BY <1>3, <2>1, <2>9
<1> QED BY <1>2, <1>3

-----------------------------------------------------------------------------
(* What the planner and the telemetry make of them.                         *)

LEMMA ReorderedIs ==
  ASSUME NEW T \in Seq(AgentId), IsInjective(T)
  PROVE  /\ Reordered(T, ExecutionOrder(T)) \in Seq(AgentId)
         /\ IsInjective(Reordered(T, ExecutionOrder(T)))
         /\ OrkioLeads(T) => Reordered(T, ExecutionOrder(T)) = T
<1> DEFINE order == ExecutionOrder(T)
           picks == [i \in DOMAIN order |-> Picked(order[i], T)]
           found == Found(picks)
           key == Plain("orkio")
<1>1. ToSet(T) \in SUBSET AgentId
  BY Members
<1>2. Reordered(T, order) = NoRepeats(found \o T)
  BY DEF Reordered
<1>3. order \in Seq({key}) /\ \A i \in DOMAIN order : order[i] = key
  <2>1. ExecutionSequence \in Seq({key})
    BY DEF ExecutionSequence
  <2> DEFINE ps == {i \in DOMAIN ExecutionSequence :
                      \E a \in ToSet(T) : Called[a] = ExecutionSequence[i]}
  <2>2. order = Kept(ExecutionSequence, ps) /\ ps \in SUBSET DOMAIN ExecutionSequence
    BY DEF ExecutionOrder
  <2> HIDE DEF ps, order, key
  <2>3. order \in Seq({key})
    BY <2>1, <2>2, KeptSeq
  <2> QED BY <2>3, LenProperties, ElementOfSeq
<1>4. Len(order) \in 0 .. 1
  <2>1. ExecutionSequence \in Seq({key}) /\ DOMAIN ExecutionSequence = 1 .. 1
    BY DEF ExecutionSequence
  <2> DEFINE ps == {i \in DOMAIN ExecutionSequence :
                      \E a \in ToSet(T) : Called[a] = ExecutionSequence[i]}
  <2>2. order = Kept(ExecutionSequence, ps) /\ ps \in SUBSET DOMAIN ExecutionSequence
    BY DEF ExecutionOrder
  <2>3. ps \in SUBSET (1 .. 1)
    BY <2>1
  <2> HIDE DEF ps, order, key
  <2>4. Cardinality(ps) <= 1 /\ Cardinality(ps) \in Nat
    <3>1. 1 .. 1 = {1}
      OBVIOUS
    <3>2. IsFiniteSet({1}) /\ Cardinality({1}) = 1
      BY FS_Singleton
    <3> QED BY <2>3, <3>1, <3>2, FS_Subset, FS_CardinalityType
  <2> QED BY <2>1, <2>2, <2>4, KeptSeq
<1>5. DOMAIN order = 1 .. Len(order)
  BY <1>3, LenProperties
<1> HIDE DEF order
<1>6. \A i \in DOMAIN order : picks[i] = Picked(key, T)
  BY <1>3
<1>7. picks \in [1 .. Len(order) -> OneOf(ToSet(T))]
  BY <1>5, PickedIs
<1> HIDE DEF picks
<1>8. picks \in Seq(OneOf(ToSet(T))) /\ DOMAIN picks = 1 .. Len(order) /\ Len(picks) = Len(order)
  BY <1>4, <1>7, SeqDef
<1>9. /\ found \in Seq(ToSet(T))
      /\ \A a : a \in ToSet(found) <=> \E i \in DOMAIN picks : picks[i] = <<a>>
      /\ found = <<>> <=> \A i \in DOMAIN picks : picks[i] = <<>>
  BY <1>8, FoundIs
<1>10. found \in Seq(AgentId)
  BY <1>1, <1>9, SeqMonotonic
<1> HIDE DEF found
<1>11. NoRepeats(found \o T) \in Seq(AgentId) /\ IsInjective(NoRepeats(found \o T))
  BY <1>10, Joined, NoRepeatsIs
<1>12. ASSUME OrkioLeads(T) PROVE NoRepeats(found \o T) = T
  <2>1. CASE found = <<>>
    BY <1>12, <2>1, ConcatEmptySeq, NoRepeatsIs
  <2>2. CASE found # <<>>
    <3>1. PICK i \in DOMAIN picks : picks[i] # <<>>
      BY <1>9, <2>2
    <3>2. i = 1 /\ Len(order) = 1 /\ picks[1] = Picked(key, T) /\ Picked(key, T) # <<>>
      BY <1>4, <1>5, <1>6, <1>8, <3>1
    <3>3. PICK b \in ToSet(T) : Bearing(b, key)
      BY <3>2, PickedIs
    <3>4. Called[b][1] = "orkio"
      BY <1>1, <3>3, BearingIs
    <3>5. T # <<>> /\ Called[T[1]][1] = "orkio"
      BY <1>12, <3>4 DEF OrkioLeads, Bears, ToSet
    <3>6. T[1] \in AgentId /\ 1 \in DOMAIN T
      BY <3>5, Members, LenProperties, EmptySeq
    <3>7. Bearing(T[1], key)
      BY <3>5, <3>6, BearingIs
    <3>8. Picked(key, T) = <<T[1]>>
      <4>1. \A j \in 1 .. 1 - 1 : ~Bearing(T[j], key)
        OBVIOUS
      <4> HIDE DEF key
      <4> QED BY <3>6, <3>7, <4>1, PickedIs
    <3>9. found = <<T[1]>>
      <4>1. Found(picks) = [n \in DOMAIN Kept(picks, {j \in DOMAIN picks : picks[j] # <<>>}) |->
                              Kept(picks, {j \in DOMAIN picks : picks[j] # <<>>})[n][1]]
        BY DEF Found
      <4>2. {j \in DOMAIN picks : picks[j] # <<>>} = DOMAIN picks
        BY <1>8, <3>2
      <4>3. Kept(picks, DOMAIN picks) = picks
        BY <1>8, KeptWhole
      <4>4. Found(picks) = [n \in DOMAIN picks |-> picks[n][1]]
        BY <4>1, <4>2, <4>3
      <4>5. DOMAIN picks = 1 .. 1 /\ picks[1][1] = T[1]
        BY <1>8, <3>2, <3>8
      <4>6. [n \in DOMAIN picks |-> picks[n][1]] = <<T[1]>>
        BY <4>5
      <4> QED BY <4>4, <4>6 DEF found
    <3> QED BY <3>5, <3>9, NoRepeatsOfFirst
  <2> QED BY <2>1, <2>2
<1> QED BY <1>2, <1>11, <1>12 DEF order

\* The events that are kept name nobody, so they move nobody.
LEMMA AdjustedIs ==
  ASSUME NEW T \in Seq(AgentId), NEW rows,
         \A i \in DOMAIN rows : rows[i].executed = <<>> /\ rows[i].failed = <<>>
  PROVE  Adjusted(T, Adjustment(rows)) = T
<1>1. ASSUME NEW field \in {"executed", "failed"}, NEW n \in Nat
      PROVE  TopCounts(rows, field, n) = <<>>
  <2> DEFINE names == UNION {ToSet(rows[i][field]) : i \in DOMAIN rows}
             before(x, y) == \/ Count(rows, field, x) > Count(rows, field, y)
                             \/ /\ Count(rows, field, x) = Count(rows, field, y)
                                /\ Position(x) < Position(y)
             rank(x) == Cardinality({y \in names : before(y, x)}) + 1
             top == {x \in names : rank(x) <= n}
  <2>1. names = {}
    BY DEF ToSet
  <2>2. top = {} /\ Cardinality({}) = 0
    <3> HIDE DEF rank
    <3> QED BY <2>1, FS_EmptySet
  <2>3. TopCounts(rows, field, n) =
          [k \in 1 .. Cardinality(top) |-> CHOOSE x \in top : rank(x) = k]
    BY DEF TopCounts
  <2> HIDE DEF top, rank
  <2> QED BY <2>2, <2>3
<1> DEFINE adj == Adjustment(rows)
<1>3. adj.preferred = <<>> /\ adj.avoid = {}
  BY <1>1 DEF Adjustment, ToSet
<1> HIDE DEF adj
<1>4. {i \in DOMAIN T : adj.preferred # <<>> /\ Bearing(T[i], adj.preferred[1])} = {}
  BY <1>3
<1>5. {i \in DOMAIN T \ {} : \E n \in adj.avoid : Bearing(T[i], n)} = {}
  BY <1>3
<1>6. DOMAIN T \ ({} \cup {}) = DOMAIN T
  OBVIOUS
<1>7. Adjusted(T, adj) = T \/ Adjusted(T, adj) = Kept(T, {}) \o Kept(T, DOMAIN T) \o Kept(T, {})
  BY <1>4, <1>5, <1>6 DEF Adjusted
<1>8. Kept(T, {}) = <<>>
  <2>1. {} \in SUBSET DOMAIN T
    OBVIOUS
  <2> QED BY <2>1, KeptSeq
<1>9. Kept(T, DOMAIN T) = T
  BY KeptWhole
<1> QED BY <1>7, <1>8, <1>9, ConcatEmptySeq DEF adj

\* When the agents selected for a message are asked for again, by planner,
\* telemetry and names, nothing changes: orkio is first or is not there.
LEMMA LastWord ==
  ASSUME NEW m \in Message, NEW chosen \in Chosen, NEW s \in Seq(AgentId), IsInjective(s),
         NEW E, E = Explicit(Selected(m, chosen, s), Requested(m), s)
  PROVE  OrkioLeads(E) /\ Explicit(E, Requested(m), s) = E
<1> DEFINE R == Requested(m)
<1> PICK T : T = Selected(m, chosen, s)
  OBVIOUS
<1>1. /\ R \in Seq(Word) /\ ("orkio" \in ToSet(R) => R[1] = "orkio")
  BY RequestedIs
<1>2. /\ T \in Seq(AgentId) /\ IsInjective(T) /\ ToSet(T) \subseteq ToSet(s)
      /\ \A f \in ToSet(R) : Bears(s, f) => Bears(T, f)
      /\ "orkio" \notin ToSet(R) => OrkioLeads(T)
  BY SelectedIs
<1> HIDE DEF R
<1>3. /\ ToSet(E) \subseteq ToSet(s)
      /\ \/ E = T /\ \A a \in ToSet(T) : ~AskedOf(a, R)
         \/ \A a \in ToSet(E) : AskedOf(a, R)
      /\ R # <<>> /\ Bears(T, R[1]) => Called[E[1]][1] = R[1]
  BY <1>1, <1>2, ExplicitIs DEF R
<1>4. Explicit(E, R, s) = E
  BY <1>1, <1>2, ExplicitAgain DEF R
<1>5. CASE "orkio" \in ToSet(R)
  <2>1. R # <<>> /\ R[1] = "orkio"
    BY <1>1, <1>5 DEF ToSet
  <2>2. Bears(E, "orkio") => Bears(T, "orkio")
    BY <1>2, <1>3, <1>5 DEF Bears
  <2> QED BY <1>3, <1>4, <2>1, <2>2 DEF OrkioLeads, R
<1>6. CASE "orkio" \notin ToSet(R)
  BY <1>2, <1>3, <1>4, <1>6 DEF OrkioLeads, Bears, AskedOf, R
<1> QED BY <1>5, <1>6

-----------------------------------------------------------------------------
(* The turns.                                                               *)

Work == [phase : {"named", "speaking"}, m : Message, stream : BOOLEAN,
         targets : Seq(AgentId), asked : Seq(AgentId), current : BOOLEAN,
         applied : BOOLEAN, executed : Seq(First \X BOOLEAN), failed : Seq(First \X BOOLEAN)]

\* The bookkeeping of names is broken, so an event has none.
Nameless == [executed : {<<>>}, failed : {<<>>}, applied : BOOLEAN]

\* Who answers is one of those asked only if all are.
AskedAlone(T, R) == (\E a \in ToSet(T) : AskedOf(a, R)) => \A a \in ToSet(T) : AskedOf(a, R)

\* Where a turn's agents come from, and that they are still those.
Selecting(me, s) ==
  /\ IsInjective(me.targets) /\ AskedAlone(me.targets, Requested(me.m))
  /\ me.phase = "named" \/ me.current => me.targets = me.asked
  /\ me.phase = "named" /\ me.current =>
       \E chosen \in Chosen :
         me.asked = Explicit(Selected(me.m, chosen, s), Requested(me.m), s)

SelectionInv ==
  /\ agents \in Seq(AgentId) /\ IsInjective(agents)
  /\ turn \in [Turn -> Work \cup {NoTurn}]
  /\ events \in Seq(Nameless)
  /\ \A t \in Turn : turn[t] # NoTurn => Selecting(turn[t], agents)

LEMMA WorkIsNotIdle ==
  ASSUME NEW me \in Work \cup {NoTurn}
  PROVE  (me.phase = "idle" <=> me = NoTurn) /\ (me # NoTurn <=> me \in Work)
BY DEF Work, NoTurn

LEMMA SelectionInit == PlanInit => SelectionInv
<1> SUFFICES ASSUME PlanInit PROVE SelectionInv
  OBVIOUS
<1>1. PICK ids \in SUBSET AgentId : IsFiniteSet(ids) /\ agents \in SetToSeqs(ids)
  BY DEF PlanInit
<1>2. agents \in [1 .. Cardinality(ids) -> ids]
      /\ \A i, j \in 1 .. Cardinality(ids) : i # j => agents[i] # agents[j]
  BY <1>1 DEF SetToSeqs
<1>3. IsInjective(agents)
  BY <1>2 DEF IsInjective
<1>4. agents \in Seq(AgentId)
  <2>1. Cardinality(ids) \in Nat
    BY <1>1, FS_CardinalityType
  <2> QED BY <1>2, <2>1, SeqDef
<1> QED BY <1>3, <1>4 DEF PlanInit, SelectionInv

\* A step of one turn.
LEMMA OneTurn ==
  ASSUME SelectionInv, agents' = agents, events' \in Seq(Nameless),
         NEW t \in Turn, NEW me \in Work \cup {NoTurn}, turn' = [turn EXCEPT ![t] = me],
         me # NoTurn => Selecting(me, agents)
  PROVE  SelectionInv'
<1>1. /\ agents \in Seq(AgentId) /\ IsInjective(agents)
      /\ turn \in [Turn -> Work \cup {NoTurn}]
      /\ \A u \in Turn : turn[u] # NoTurn => Selecting(turn[u], agents)
  BY DEF SelectionInv
<1>2. turn' \in [Turn -> Work \cup {NoTurn}]
  BY <1>1
<1>3. ASSUME NEW u \in Turn, turn'[u] # NoTurn PROVE Selecting(turn'[u], agents')
  <2>1. CASE u = t
    BY <1>1, <1>3, <2>1
  <2>2. CASE u # t
    BY <1>1, <1>3, <2>2
  <2> QED BY <2>1, <2>2
<1> QED BY <1>1, <1>2, <1>3 DEF SelectionInv

\* A step that changes the organization's agents.
LEMMA OtherAgents ==
  ASSUME SelectionInv, agents' \in Seq(AgentId), IsInjective(agents)', events' = events,
         turn' = Outdated
  PROVE  SelectionInv'
<1>1. /\ turn \in [Turn -> Work \cup {NoTurn}] /\ events \in Seq(Nameless)
      /\ \A u \in Turn : turn[u] # NoTurn => Selecting(turn[u], agents)
  BY DEF SelectionInv
<1>2. ASSUME NEW u \in Turn
      PROVE  /\ turn'[u] \in Work \cup {NoTurn}
             /\ turn'[u] # NoTurn => Selecting(turn'[u], agents')
  <2>1. CASE turn[u] = NoTurn
    BY <2>1 DEF Outdated, NoTurn
  <2>2. CASE turn[u] # NoTurn
    <3>1. PICK me \in Work : me = turn[u]
      BY <1>1, <2>2
    <3>2. turn'[u] = [me EXCEPT !.current = FALSE]
      BY <3>1 DEF Outdated, Work
    <3> DEFINE old == [me EXCEPT !.current = FALSE]
    <3>3. /\ old \in Work /\ old.current = FALSE /\ old.phase = me.phase /\ old.m = me.m
          /\ old.targets = me.targets /\ old.asked = me.asked
      BY DEF Work
    <3>4. Selecting(me, agents)
      BY <1>1, <2>2, <3>1
    <3> HIDE DEF old
    <3>5. Selecting(old, agents')
      BY <3>3, <3>4 DEF Selecting
    <3> QED BY <3>2, <3>3, <3>5 DEF old
  <2> QED BY <2>1, <2>2
<1>3. turn' \in [Turn -> Work \cup {NoTurn}]
  <2>1. turn' = [u \in Turn |-> turn'[u]]
    BY DEF Outdated
  <2> QED BY <1>2, <2>1
<1> QED BY <1>1, <1>2, <1>3 DEF SelectionInv

\* A request is given its agents.
LEMMA ReceiveStep ==
  ASSUME SelectionInv, NEW t \in Turn, Receive(t)
  PROVE  SelectionInv'
<1>1. agents \in Seq(AgentId) /\ IsInjective(agents) /\ events \in Seq(Nameless)
  BY DEF SelectionInv
<1>2. agents' = agents /\ events' = events
  BY DEF Receive
<1>3. PICK m \in Message, stream \in BOOLEAN, chosen \in {{}} \cup {{a} : a \in ToSet(agents)} :
        turn' = [turn EXCEPT ![t] =
          [phase |-> "named", m |-> m, stream |-> stream,
           targets |-> Explicit(Selected(m, chosen, agents), Requested(m), agents),
           asked |-> Explicit(Selected(m, chosen, agents), Requested(m), agents),
           current |-> TRUE, applied |-> FALSE, executed |-> <<>>, failed |-> <<>>]]
  BY DEF Receive
<1>4. chosen \in Chosen
  BY <1>1, Members DEF Chosen
<1>5. PICK E : E = Explicit(Selected(m, chosen, agents), Requested(m), agents)
  OBVIOUS
<1>6. Selected(m, chosen, agents) \in Seq(AgentId) /\ IsInjective(Selected(m, chosen, agents))
  BY <1>1, <1>4, SelectedIs
<1>7. E \in Seq(AgentId) /\ IsInjective(E) /\ AskedAlone(E, Requested(m))
  BY <1>1, <1>5, <1>6, RequestedIs, ExplicitIs DEF AskedAlone
<1>8. PICK me : me = [phase |-> "named", m |-> m, stream |-> stream, targets |-> E, asked |-> E,
                      current |-> TRUE, applied |-> FALSE, executed |-> <<>>, failed |-> <<>>]
  OBVIOUS
<1>9. me \in Work
  <2>1. <<>> \in Seq(First \X BOOLEAN)
    OBVIOUS
  <2> QED BY <1>7, <1>8, <2>1 DEF Work
<1>10. Selecting(me, agents)
  BY <1>4, <1>5, <1>7, <1>8 DEF Selecting
<1>11. turn' = [turn EXCEPT ![t] = me]
  BY <1>3, <1>5, <1>8
<1> QED BY <1>1, <1>2, <1>9, <1>10, <1>11, OneTurn

\* Planner, telemetry and the last word.
LEMMA PlanStep ==
  ASSUME SelectionInv, NEW t \in Turn, Plan(t)
  PROVE  SelectionInv'
<1>1. /\ agents \in Seq(AgentId) /\ IsInjective(agents) /\ events \in Seq(Nameless)
      /\ turn \in [Turn -> Work \cup {NoTurn}]
      /\ turn[t] # NoTurn => Selecting(turn[t], agents)
  BY DEF SelectionInv
<1>2. PICK me \in Work : me = turn[t] /\ me.phase = "named" /\ Selecting(me, agents)
  BY <1>1 DEF Plan, NoTurn
<1>3. agents' = agents /\ events' = events
  BY DEF Plan
<1> DEFINE R == Requested(me.m)
           planned == IF Len(me.targets) > 1
                      THEN Reordered(me.targets, ExecutionOrder(me.targets)) ELSE me.targets
           expired == ~me.stream /\ ~(ToSet(me.targets) \subseteq ToSet(agents))
<1>4. PICK enriched \in BOOLEAN, rows \in {events, <<>>} :
        turn' = [turn EXCEPT
          ![t].phase = "speaking",
          ![t].applied = enriched /\ RouteApplied(me.targets),
          ![t].targets = IF expired THEN @ ELSE Explicit(
              Adjusted(IF enriched THEN planned ELSE me.targets, Adjustment(rows)), R, agents)]
  BY <1>2 DEF Plan
<1>5. me.m \in Message /\ me.targets \in Seq(AgentId) /\ IsInjective(me.targets)
  BY <1>2 DEF Work, Selecting
<1>6. R \in Seq(Word)
  BY <1>5, RequestedIs
<1>7. PICK X : X = IF enriched THEN planned ELSE me.targets
  OBVIOUS
<1>8. X \in Seq(AgentId) /\ IsInjective(X) /\ (OrkioLeads(me.targets) => X = me.targets)
  BY <1>5, <1>7, ReorderedIs
<1>9. Adjusted(X, Adjustment(rows)) = X
  <2>1. \A i \in DOMAIN rows : rows[i].executed = <<>> /\ rows[i].failed = <<>>
    <3>1. rows \in Seq(Nameless)
      BY <1>1, EmptySeq
    <3>2. \A i \in DOMAIN rows : rows[i] \in Nameless
      BY <3>1, LenProperties, ElementOfSeq
    <3> QED BY <3>2 DEF Nameless
  <2> QED BY <1>8, <2>1, AdjustedIs
<1>10. PICK E : E = IF expired THEN me.targets ELSE Explicit(X, R, agents)
  OBVIOUS
<1>11. E \in Seq(AgentId) /\ IsInjective(E) /\ AskedAlone(E, R)
  <2>1. CASE expired
    BY <1>2, <1>5, <1>10, <2>1 DEF Selecting
  <2>2. CASE ~expired
    <3>1. E = Explicit(X, R, agents)
      BY <1>10, <2>2
    <3> HIDE DEF R
    <3> QED BY <1>1, <1>6, <1>8, <3>1, ExplicitIs DEF AskedAlone
  <2> QED BY <2>1, <2>2
<1>12. me.current => E = me.asked
  <2> SUFFICES ASSUME me.current PROVE E = me.asked
    OBVIOUS
  <2>1. PICK chosen \in Chosen : me.asked = Explicit(Selected(me.m, chosen, agents), R, agents)
    BY <1>2 DEF Selecting
  <2>2. OrkioLeads(me.asked) /\ Explicit(me.asked, R, agents) = me.asked
    BY <1>1, <1>5, <2>1, LastWord
  <2>3. me.targets = me.asked
    BY <1>2 DEF Selecting
  <2> QED BY <1>8, <1>10, <2>2, <2>3
<1> DEFINE new == [me EXCEPT !.phase = "speaking",
                            !.applied = enriched /\ RouteApplied(me.targets), !.targets = E]
<1>13. turn' = [turn EXCEPT ![t] = new]
  BY <1>1, <1>2, <1>4, <1>7, <1>9, <1>10
<1>14. /\ new \in Work /\ new.phase = "speaking" /\ new.targets = E
       /\ new.m = me.m /\ new.asked = me.asked /\ new.current = me.current
  BY <1>11 DEF Work, RouteApplied
<1> HIDE DEF new
<1>15. Selecting(new, agents)
  BY <1>11, <1>12, <1>14 DEF Selecting
<1>16. PICK you : you = new
  OBVIOUS
<1> QED BY <1>1, <1>3, <1>13, <1>14, <1>15, <1>16, OneTurn

LEMMA AnswerStep ==
  ASSUME SelectionInv, NEW t \in Turn, Answer(t)
  PROVE  SelectionInv'
<1>1. /\ turn \in [Turn -> Work \cup {NoTurn}] /\ events \in Seq(Nameless)
      /\ turn[t] # NoTurn => Selecting(turn[t], agents)
  BY DEF SelectionInv
<1>2. PICK me \in Work : me = turn[t] /\ me.phase = "speaking" /\ Selecting(me, agents)
  BY <1>1 DEF Answer, NoTurn
<1>3. agents' = agents /\ events' = events
  BY DEF Answer
<1>4. PICK a : a = turn[t].targets[Spoken(t) + 1]
  OBVIOUS
<1>5. a \in AgentId
  <2>1. a \in ToSet(me.asked) \/ a \in ToSet(agents)
    BY <1>2, <1>4 DEF Answer, Readable
  <2>2. me.asked \in Seq(AgentId) /\ agents \in Seq(AgentId)
    BY DEF Work, SelectionInv
  <2> QED BY <2>1, <2>2, Members
<1>6. PICK name \in First \X BOOLEAN : name = Called[a]
  BY <1>5, BearingIs
<1>7. \/ turn' = [turn EXCEPT ![t].executed = Append(@, name)]
      \/ turn' = [turn EXCEPT ![t].failed = Append(@, name)]
  BY <1>4, <1>6 DEF Answer
<1>8. PICK new : \/ new = [me EXCEPT !.executed = Append(me.executed, name)]
                 \/ new = [me EXCEPT !.failed = Append(me.failed, name)]
        /\ turn' = [turn EXCEPT ![t] = new]
  <2>1. CASE turn' = [turn EXCEPT ![t].executed = Append(@, name)]
    BY <1>1, <1>2, <2>1
  <2>2. CASE turn' = [turn EXCEPT ![t].failed = Append(@, name)]
    BY <1>1, <1>2, <2>2
  <2> QED BY <1>7, <2>1, <2>2
<1>9. /\ new \in Work /\ new.phase = me.phase /\ new.targets = me.targets
      /\ new.m = me.m /\ new.asked = me.asked /\ new.current = me.current
  <2>1. Append(me.executed, name) \in Seq(First \X BOOLEAN)
        /\ Append(me.failed, name) \in Seq(First \X BOOLEAN)
    BY DEF Work
  <2>2. CASE new = [me EXCEPT !.executed = Append(me.executed, name)]
    BY <2>1, <2>2 DEF Work
  <2>3. CASE new = [me EXCEPT !.failed = Append(me.failed, name)]
    BY <2>1, <2>3 DEF Work
  <2> QED BY <1>8, <2>2, <2>3
<1>10. Selecting(new, agents)
  BY <1>2, <1>9 DEF Selecting
<1> QED BY <1>1, <1>3, <1>8, <1>9, <1>10, OneTurn

\* A turn ends, and a stream's leaves an event without names.
LEMMA EndStep ==
  ASSUME SelectionInv, NEW t \in Turn, EndWithoutEvent(t) \/ Track(t)
  PROVE  SelectionInv'
<1>1. agents' = agents /\ turn' = [turn EXCEPT ![t] = NoTurn]
  BY DEF EndWithoutEvent, Track
<1>2. events \in Seq(Nameless) /\ turn \in [Turn -> Work \cup {NoTurn}]
  BY DEF SelectionInv
<1>3. events' \in Seq(Nameless)
  <2>1. CASE EndWithoutEvent(t)
    BY <1>2, <2>1 DEF EndWithoutEvent
  <2>2. CASE Track(t)
    <3>1. PICK event : /\ event = [executed |-> <<>>, failed |-> <<>>, applied |-> turn[t].applied]
                       /\ events' = LastN(Append(events, event), Recent)
      BY <2>2 DEF Track, Bookkept
    <3>2. event \in Nameless
      <4>1. turn[t] \in Work
        BY <1>2, <2>2 DEF Track, NoTurn
      <4> QED BY <3>1, <4>1 DEF Nameless, Work
    <3>3. PICK log \in Seq(Nameless) : log = Append(events, event)
      <4>1. Append(events, event) \in Seq(Nameless)
        BY <1>2, <3>2
      <4> QED BY <4>1
    <3>4. SubSeq(log, IF Len(log) > Recent THEN Len(log) - Recent + 1 ELSE 1, Len(log))
            \in Seq(Nameless)
      <4>1. Len(log) \in Nat /\ Recent \in Nat /\ \A i \in 1 .. Len(log) : log[i] \in Nameless
        BY LenProperties, ElementOfSeq, NamesAssumption
      <4>2. PICK j \in Nat : j = IF Len(log) > Recent THEN Len(log) - Recent + 1 ELSE 1
        BY <4>1
      <4>3. \A i \in j .. Len(log) : log[i] \in Nameless
        BY <4>1, <4>2
      <4> QED BY <4>1, <4>2, <4>3, SubSeqProperties
    <3> QED BY <3>1, <3>3, <3>4 DEF LastN
  <2> QED BY <2>1, <2>2
<1> QED BY <1>1, <1>3, OneTurn

LEMMA AgentsStep ==
  ASSUME SelectionInv, CreateAgent \/ DeleteAgent
  PROVE  SelectionInv'
<1>1. agents \in Seq(AgentId) /\ IsInjective(agents)
  BY DEF SelectionInv
<1>2. turn' = Outdated /\ events' = events
  BY DEF CreateAgent, DeleteAgent
<1>3. CASE CreateAgent
  <2>1. PICK a \in AgentId \ ToSet(agents) : agents' = Append(agents, a)
    BY <1>3 DEF CreateAgent
  <2>2. Append(agents, a) = agents \o <<a>>
    BY <1>1
  <2>3. <<a>> \in Seq(AgentId) /\ IsInjective(<<a>>) /\ ToSet(<<a>>) = {a}
    BY DEF IsInjective, ToSet
  <2>4. agents \o <<a>> \in Seq(AgentId) /\ IsInjective(agents \o <<a>>)
    <3>1. ToSet(agents) \cap ToSet(<<a>>) = {}
      BY <2>1, <2>3
    <3> QED BY <1>1, <2>3, <3>1, Joined
  <2>5. agents' \in Seq(AgentId) /\ IsInjective(agents')
    BY <2>1, <2>2, <2>4
  <2> QED BY <1>2, <2>5, OtherAgents
<1>4. CASE DeleteAgent
  <2>1. PICK a : agents' = Kept(agents, {i \in DOMAIN agents : agents[i] # a})
    BY <1>4 DEF DeleteAgent
  <2> DEFINE ps == {i \in DOMAIN agents : agents[i] # a}
  <2>2. ps \in SUBSET DOMAIN agents /\ \A i, j \in ps : agents[i] = agents[j] => i = j
    BY <1>1 DEF IsInjective
  <2> HIDE DEF ps
  <2>3. Kept(agents, ps) \in Seq(AgentId) /\ IsInjective(Kept(agents, ps))
    BY <1>1, <2>2, KeptSeq
  <2>4. agents' \in Seq(AgentId) /\ IsInjective(agents')
    BY <2>1, <2>3 DEF ps
  <2> QED BY <1>2, <2>4, OtherAgents
<1> QED BY <1>3, <1>4

LEMMA SelectionStep == SelectionInv /\ [PlanNext]_planVars => SelectionInv'
<1> SUFFICES ASSUME SelectionInv, [PlanNext]_planVars PROVE SelectionInv'
  OBVIOUS
<1>1. ASSUME NEW t \in Turn,
             Receive(t) \/ Plan(t) \/ Answer(t) \/ EndWithoutEvent(t) \/ Track(t)
      PROVE  SelectionInv'
  BY <1>1, ReceiveStep, PlanStep, AnswerStep, EndStep
<1>2. CASE CreateAgent \/ DeleteAgent
  BY <1>2, AgentsStep
<1>3. CASE UNCHANGED planVars
  BY <1>3 DEF planVars, SelectionInv
<1> QED BY <1>1, <1>2, <1>3 DEF PlanNext

\* A request keeps the agents it was given in the order it was given them,
\* though planner and telemetry have a say before it calls the first.
THEOREM SelectionIsKept == PlanSpec => []SelectionInv
<1>1. PlanInit => SelectionInv
  BY SelectionInit
<1>2. SelectionInv /\ [PlanNext]_planVars => SelectionInv'
  BY SelectionStep
<1> QED BY <1>1, <1>2, PTL DEF PlanSpec

\* Nobody answers twice, or unasked beside the ones asked for; while the agents
\* stay as they were, those selected from the message answer and no others.
THEOREM SelectionAlwaysStands == PlanSpec => []SelectionStands
<1>1. SelectionInv => SelectionStands
  <2> SUFFICES ASSUME SelectionInv, NEW t \in Turn, turn[t].phase = "speaking"
               PROVE  LET me == turn[t]
                          wanted == ToSet(Requested(me.m))
                          there(f, s) == \E a \in ToSet(s) : Bearing(a, Plain(f))
                      IN /\ IsInjective(me.targets)
                         /\ me.current =>
                              /\ ToSet(me.targets) \subseteq ToSet(me.asked)
                              /\ me.asked # <<>> => me.targets # <<>>
                              /\ \A f \in wanted : there(f, me.asked) => there(f, me.targets)
                         /\ (\E f \in wanted : there(f, me.targets))
                              => \A a \in ToSet(me.targets) : \E f \in wanted : Bearing(a, Plain(f))
    BY DEF SelectionStands
  <2>1. turn[t] \in Work /\ Selecting(turn[t], agents)
    BY DEF SelectionInv, NoTurn
  <2>2. PICK me \in Work : me = turn[t] /\ Selecting(me, agents)
    BY <2>1
  <2>3. \A a \in ToSet(me.targets) : \A f : Bearing(a, Plain(f)) <=> Called[a][1] = f
    <3>1. me.targets \in Seq(AgentId)
      BY DEF Work
    <3> QED BY <3>1, Members, BearingIs
  <2>4. (\E f \in ToSet(Requested(me.m)) : \E a \in ToSet(me.targets) : Bearing(a, Plain(f)))
          => \A a \in ToSet(me.targets) : \E f \in ToSet(Requested(me.m)) : Bearing(a, Plain(f))
    BY <2>2, <2>3 DEF Selecting, AskedAlone, AskedOf
  <2>5. IsInjective(me.targets) /\ (me.current => me.targets = me.asked)
    BY <2>2 DEF Selecting
  <2> QED BY <2>2, <2>4, <2>5
<1> QED BY <1>1, SelectionIsKept, PTL

\* Agents, turns and events have the values the code gives them.
THEOREM PlanTypes == PlanSpec => []PlanTypeOK
<1>1. SelectionInv => PlanTypeOK
  <2> SUFFICES ASSUME SelectionInv PROVE PlanTypeOK
    OBVIOUS
  <2>1. \A t \in Turn : turn[t].phase \in {"idle", "named", "speaking"}
    BY DEF SelectionInv, Work, NoTurn
  <2>2. Nameless \subseteq [executed : Seq(First \X BOOLEAN), failed : Seq(First \X BOOLEAN),
                            applied : BOOLEAN]
    <3>1. <<>> \in Seq(First \X BOOLEAN)
      OBVIOUS
    <3> QED BY <3>1 DEF Nameless
  <2>3. events \in Seq([executed : Seq(First \X BOOLEAN), failed : Seq(First \X BOOLEAN),
                        applied : BOOLEAN])
    BY <2>2, SeqMonotonic DEF SelectionInv
  <2> QED BY <2>1, <2>3 DEF PlanTypeOK, SelectionInv
<1> QED BY <1>1, SelectionIsKept, PTL
=============================================================================

---------------------------- MODULE IntakeProofs ----------------------------
(***************************************************************************)
(* Theorems about Intake, for any requests, events and identities and any  *)
(* bounds; and about PublicRegistration, the device on which visitors fill *)
(* in the form it answers, for any people, setups and values of the form.  *)
(***************************************************************************)
EXTENDS Intake, PublicRegistration, FiniteSetTheorems, TLAPS

Places == Events \cup Occurrences
Person == [who : Identity, among : Nat]
ReqType == [pc : {"idle", "begin", "event", "row", "found"}, kind : Kinds \cup {"none"},
            event : Places \cup {NONE}, who : Identity, id : Identity,
            pid : Nat, rows : 0 .. MaxRows, tries : 0 .. 3]

(* The rows have their types, and an event registers nobody twice.         *)
RegOK(g) ==
  /\ DOMAIN g = {"event", "pid", "who", "active", "by", "among"}
  /\ g.event \in Events /\ g.pid \in 1 .. Len(people) /\ g.who \in Identity
  /\ g.active \in BOOLEAN /\ g.by \in Kinds \cup {"legacy"}
RowsOK ==
  /\ people \in Seq(Person)
  /\ \A g \in regs : RegOK(g)
  /\ \A g, h \in regs : g.event = h.event /\ g.pid = h.pid => g = h

PlainOK ==
  /\ eventLock \in [Places -> SUBSET Requests] /\ poolLock \subseteq Requests
  /\ req \in [Requests -> ReqType]
  /\ pool \in {"running", "church"} /\ started \in 0 .. MaxRequests
  /\ overlapped \subseteq Kinds /\ cutShort \in BOOLEAN

(* Where a request is agrees with what it is.                              *)
ReqOK(q) ==
  /\ q.pc = "idle" => q = Idle
  /\ q.pc # "idle" => q.kind \in Kinds
  /\ q.pc = "event" => q.kind \in {"form", "desk"}
  /\ q.pc = "row" => q.kind = "batch"
  /\ q.pc = "found" => q.kind \in {"batch", "service", "edit"}
  /\ q.kind \in {"form", "desk", "batch"} => q.event \in Events
  /\ q.kind = "service" => q.event \in Occurrences
  /\ q.kind = "batch" => q.rows >= 1
  /\ q.pid =< Len(people)

(* Who holds a lock: the transactions between their locks and their        *)
(* commit, one at a time.                                                  *)
Holding(q, e) ==
  /\ q.event = e
  /\ q.pc = "event" \/ (q.pc = "found" /\ q.kind = "service")
InPool(q) == q.pc = "found" /\ q.kind = "batch"
LocksOK ==
  /\ \A e \in Places, s \in Requests : s \in eventLock[e] <=> Holding(req[s], e)
  /\ \A e \in Places : \A s, t \in eventLock[e] : s = t
  /\ \A s \in Requests : s \in poolLock <=> InPool(req[s])
  /\ \A s, t \in poolLock : s = t

(* Requests that are in progress together have overlapped.                 *)
OverlapOK ==
  \A s, t \in Requests :
    s # t /\ req[s] # Idle /\ req[t] # Idle => {req[s].kind, req[t].kind} \subseteq overlapped

(* What a request found is still so when it commits: because of the locks  *)
(* it holds, or because what takes no lock did not overlap with anything.  *)
KeyOf(q) == IF q.kind = "service" THEN [q.id EXCEPT !.birthday = NONE] ELSE q.id

FoundNoRepeat(q) ==
  q.pc = "event" /\ "edit" \notin overlapped =>
    ~ Single(Repeats(q.event, q.id, q.kind = "form"))
FoundPerson(q) ==
  q.pc = "found" /\ q.kind \in {"batch", "service"} /\ {"service", "edit"} \cap overlapped = {} =>
    q.pid = Resolved(KeyOf(q))
FoundRow(q) ==
  q.kind = "batch" /\ q.pc \in {"row", "found"} /\ "batch" \notin overlapped =>
    /\ ~ Single(Repeats(q.event, q.id, FALSE))
    /\ ~ Registered(q.event, Resolved(q.id))
    /\ q.pc = "found" => q.pid = Resolved(q.id)
FoundApart(q) ==
  q.kind = "edit" /\ q.pc = "found" /\ "edit" \notin overlapped =>
    /\ q.pid \in DOMAIN people /\ people[q.pid].who = q.id
    /\ q.who.birthday = q.id.birthday /\ ~ Collides(q.pid, q.who)
FactOf(q) == FoundNoRepeat(q) /\ FoundPerson(q) /\ FoundRow(q) /\ FoundApart(q)

HistoryOK == ReusedWhenUnambiguous /\ NoExactRepeat /\ BatchIsIndependent

(* The rows that the requests in progress may still insert, as a set:      *)
(* together with the participants there are never more than what started.  *)
Left(q) == IF q.pc = "idle" THEN 0 ELSE IF q.kind = "batch" THEN q.rows ELSE 1
Tokens == {t \in Requests \X (1 .. MaxRows) : t[2] =< Left(req[t[1]])}
BudgetOK ==
  /\ IsFiniteSet(Tokens)
  /\ Len(people) + Cardinality(Tokens) =< started * MaxRows + 1

IInv ==
  /\ RowsOK /\ PlainOK /\ (\A s \in Requests : ReqOK(req[s])) /\ LocksOK /\ OverlapOK
  /\ (\A s \in Requests : FactOf(req[s])) /\ HistoryOK /\ BudgetOK

-----------------------------------------------------------------------------
LEMMA Bounds == MaxRequests \in Nat /\ MaxRows \in Nat /\ MaxRows >= 1
BY IntakeAssumption

LEMMA IdleOK == /\ Idle.pc = "idle" /\ Idle.kind = "none" /\ Idle.pid = 0 /\ Idle.rows = 0
                /\ Idle.tries = 0 /\ Idle.who = Nobody /\ Idle.id = Nobody /\ Idle.event = NONE
                /\ Idle \in ReqType /\ Nobody \in Identity
BY Bounds DEF Idle, ReqType, Nobody, Identity

LEMMA KindNames == "none" \notin Kinds /\ "legacy" \notin Kinds
BY IntakeAssumption

(* A submission resolves to a participant, or to nobody unless exactly one *)
(* matches.                                                                *)
LEMMA Matches ==
  ASSUME people \in Seq(Person), NEW who
  PROVE  /\ Cardinality(findCandidatesByComposite(who)) \in Nat
         /\ Resolved(who) \in 0 .. Len(people)
         /\ Resolved(who) = 0 <=> ~ Single(findCandidatesByComposite(who))
<1> DEFINE S == findCandidatesByComposite(who)
<1>1. S \subseteq 1 .. Len(people) /\ Len(people) \in Nat
  BY DEF findCandidatesByComposite
<1>2. IsFiniteSet(S) /\ Cardinality(S) \in Nat
  <2>1. IsFiniteSet(1 .. Len(people))
    BY <1>1, FS_Interval
  <2>2. IsFiniteSet(S)
    BY <1>1, <2>1, FS_Subset
  <2> QED BY <2>2, FS_CardinalityType
<1>3. Resolved(who) = IF Single(S) THEN TheOne(S) ELSE 0
  BY DEF Resolved
<1> HIDE DEF S
<1>4. CASE Single(S)
  <2>1. \E x : x \in S
    BY <1>2, <1>4, FS_Singleton DEF Single
  <2>2. TheOne(S) \in S
    BY <2>1 DEF TheOne
  <2> QED BY <1>1, <1>2, <1>3, <1>4, <2>2 DEF S
<1>5. CASE ~ Single(S)
  BY <1>1, <1>2, <1>3, <1>5 DEF S
<1> QED BY <1>4, <1>5

(* What only grows, grows with the same answers.                           *)
LEMMA SameRows ==
  ASSUME UNCHANGED <<people, regs>>
  PROVE  /\ \A e, who, trusted : Repeats(e, who, trusted)' = Repeats(e, who, trusted)
         /\ \A who : findCandidatesByComposite(who)' = findCandidatesByComposite(who)
         /\ \A who : Resolved(who)' = Resolved(who)
         /\ \A e, p : Registered(e, p)' = Registered(e, p)
         /\ \A p, who : Collides(p, who)' = Collides(p, who)
         /\ RowsOK => RowsOK'
BY DEF Repeats, findCandidatesByComposite, Resolved, Registered, Collides, RowsOK, RegOK

(* So do what others found, while the rows are left alone.                 *)
LEMMA FactStays ==
  ASSUME UNCHANGED <<people, regs>>, overlapped \subseteq overlapped', NEW q, FactOf(q)
  PROVE  FactOf(q)'
<1>1. FoundNoRepeat(q)'
  BY SameRows DEF FactOf, FoundNoRepeat
<1>2. FoundPerson(q)'
  BY SameRows DEF FactOf, FoundPerson
<1>3. FoundRow(q)'
  BY SameRows DEF FactOf, FoundRow
<1>4. FoundApart(q)'
  BY SameRows DEF FactOf, FoundApart
<1> QED BY <1>1, <1>2, <1>3, <1>4 DEF FactOf

-----------------------------------------------------------------------------
(* One request takes a step and becomes q.                                 *)
LEMMA ReqAfter ==
  ASSUME req \in [Requests -> ReqType], NEW r \in Requests, NEW q, req' = [req EXCEPT ![r] = q]
  PROVE  /\ req'[r] = q /\ \A s \in Requests \ {r} : req'[s] = req[s]
         /\ q \in ReqType => req' \in [Requests -> ReqType]
OBVIOUS

LEMMA ReqsAfter ==
  ASSUME IInv, NEW r \in Requests, NEW q \in ReqType, req' = [req EXCEPT ![r] = q],
         Len(people') >= Len(people), Len(people') \in Nat, ReqOK(q)'
  PROVE  \A s \in Requests : ReqOK(req[s])'
<1>1. req'[r] = q /\ \A s \in Requests \ {r} : req'[s] = req[s]
  BY ReqAfter DEF IInv, PlainOK
<1> SUFFICES ASSUME NEW s \in Requests PROVE ReqOK(req[s])'
  OBVIOUS
<1>2. CASE s = r
  BY <1>1, <1>2 DEF ReqOK
<1>3. CASE s # r
  <2>1. req'[s] = req[s] /\ ReqOK(req[s]) /\ req[s].pid \in Nat /\ Len(people) \in Nat
    BY <1>1, <1>3 DEF IInv, PlainOK, ReqType, RowsOK
  <2> QED BY <2>1 DEF ReqOK
<1> QED BY <1>2, <1>3

(* It takes the locks its new place asks for, if nobody else has them, and *)
(* releases the others.                                                    *)
LocksMove(r, q) ==
  /\ eventLock' \in [Places -> SUBSET Requests]
  /\ \A e \in Places :
       /\ eventLock'[e] = IF Holding(q, e) THEN {r} ELSE eventLock[e] \ {r}
       /\ Holding(q, e) => eventLock[e] \subseteq {r}
  /\ poolLock' = IF InPool(q) THEN {r} ELSE poolLock \ {r}
  /\ InPool(q) => poolLock \subseteq {r}

LEMMA LocksAfter ==
  ASSUME IInv, NEW r \in Requests, NEW q, req' = [req EXCEPT ![r] = q], LocksMove(r, q)
  PROVE  LocksOK'
<1> USE DEF LocksMove
<1>1. req'[r] = q /\ \A s \in Requests \ {r} : req'[s] = req[s]
  BY ReqAfter DEF IInv, PlainOK
<1>2. /\ \A e \in Places, s \in Requests : s \in eventLock[e] <=> Holding(req[s], e)
      /\ \A e \in Places : \A s, t \in eventLock[e] : s = t
      /\ \A s \in Requests : s \in poolLock <=> InPool(req[s])
      /\ \A s, t \in poolLock : s = t
  BY DEF IInv, LocksOK
<1>3. ASSUME NEW e \in Places, NEW s \in Requests
      PROVE  s \in eventLock'[e] <=> Holding(req'[s], e)
  <2>1. CASE s = r
    BY <1>1, <2>1
  <2>2. CASE s # r
    <3>1. req'[s] = req[s] /\ (s \in eventLock[e] <=> Holding(req[s], e))
      BY <1>1, <1>2, <2>2
    <3>2. s \in eventLock'[e] <=> s \in eventLock[e]
      BY <2>2
    <3> QED BY <3>1, <3>2
  <2> QED BY <2>1, <2>2
<1>4. ASSUME NEW e \in Places, NEW s \in eventLock'[e], NEW t \in eventLock'[e] PROVE s = t
  BY <1>2
<1>5. ASSUME NEW s \in Requests PROVE s \in poolLock' <=> InPool(req'[s])
  <2>1. CASE s = r
    BY <1>1, <2>1
  <2>2. CASE s # r
    <3>1. req'[s] = req[s] /\ (s \in poolLock <=> InPool(req[s]))
      BY <1>1, <1>2, <2>2
    <3>2. s \in poolLock' <=> s \in poolLock
      BY <2>2
    <3> QED BY <3>1, <3>2
  <2> QED BY <2>1, <2>2
<1>6. \A s, t \in poolLock' : s = t
  BY <1>2
<1> QED BY <1>3, <1>4, <1>5, <1>6 DEF LocksOK, Holding, InPool

(* It stays what it was or ends, or it starts beside the others.           *)
LEMMA OverlapAfter ==
  ASSUME IInv, NEW r \in Requests, NEW q, req' = [req EXCEPT ![r] = q], overlapped' = overlapped,
         q = Idle \/ (req[r] # Idle /\ q.kind = req[r].kind)
  PROVE  OverlapOK'
<1>1. req'[r] = q /\ \A s \in Requests \ {r} : req'[s] = req[s]
  BY ReqAfter DEF IInv, PlainOK
<1> SUFFICES ASSUME NEW s \in Requests, NEW t \in Requests, s # t, req'[s] # Idle, req'[t] # Idle
             PROVE  {req'[s].kind, req'[t].kind} \subseteq overlapped
  BY DEF OverlapOK
<1>2. \A x \in Requests : req'[x] # Idle => req[x] # Idle /\ req'[x].kind = req[x].kind
  BY <1>1
<1> QED BY <1>2 DEF IInv, OverlapOK

LEMMA OverlapStart ==
  ASSUME IInv, NEW r \in Requests, NEW q, req' = [req EXCEPT ![r] = q], NEW k, Start(k),
         req[r] = Idle, q.kind = k
  PROVE  /\ OverlapOK' /\ overlapped \subseteq overlapped' /\ overlapped' \subseteq Kinds
         /\ k \in Kinds /\ started' = started + 1 /\ started' \in 0 .. MaxRequests
<1>1. req'[r] = q /\ \A s \in Requests \ {r} : req'[s] = req[s]
  BY ReqAfter DEF IInv, PlainOK
<1>2. k \in Kinds /\ started < MaxRequests /\ started' = started + 1
  BY DEF Start, Offered
<1>3. started' \in 0 .. MaxRequests
  BY <1>2, Bounds DEF IInv, PlainOK
<1>4. \A s \in Requests : req[s] # Idle => req[s].kind \in Kinds
  BY DEF IInv, ReqOK
<1>5. CASE \E b \in Requests : req[b] # Idle
  <2>1. overlapped' = overlapped \cup {k} \cup {req[s].kind : s \in {b \in Requests : req[b] # Idle}}
    BY <1>5 DEF Start
  <2>2. overlapped' \subseteq Kinds
    BY <1>2, <1>4, <2>1 DEF IInv, PlainOK
  <2>3. \A s \in Requests : req'[s] # Idle => req'[s].kind \in overlapped'
    BY <1>1, <2>1
  <2> QED BY <1>2, <1>3, <2>1, <2>2, <2>3 DEF OverlapOK
<1>6. CASE \A b \in Requests : req[b] = Idle
  <2>1. overlapped' = overlapped
    BY <1>6 DEF Start
  <2>2. \A s \in Requests : req'[s] # Idle => s = r
    BY <1>1, <1>6
  <2>3. OverlapOK'
    BY <2>2 DEF OverlapOK
  <2> QED BY <1>2, <1>3, <2>1, <2>3 DEF IInv, PlainOK
<1> QED BY <1>5, <1>6

(* What the others found is untouched, when the rows are.                  *)
LEMMA FactsAfter ==
  ASSUME IInv, NEW r \in Requests, NEW q, req' = [req EXCEPT ![r] = q],
         UNCHANGED <<people, regs>>, overlapped \subseteq overlapped', FactOf(q)'
  PROVE  \A s \in Requests : FactOf(req[s])'
<1>1. req'[r] = q /\ \A s \in Requests \ {r} : req'[s] = req[s]
  BY ReqAfter DEF IInv, PlainOK
<1> SUFFICES ASSUME NEW s \in Requests PROVE FactOf(req[s])'
  OBVIOUS
<1>2. CASE s = r
  BY <1>1, <1>2
<1>3. CASE s # r
  <2>1. PICK x : x = req[s]
    OBVIOUS
  <2>2. FactOf(x)'
    BY <2>1, FactStays DEF IInv
  <2> QED BY <1>1, <1>3, <2>1, <2>2
<1> QED BY <1>2, <1>3

(* So is what was, and batches end as they did.                            *)
LEMMA HistoryStays ==
  ASSUME IInv, UNCHANGED <<people, regs>>, overlapped \subseteq overlapped',
         cutShort' => cutShort \/ "batch" \in overlapped'
  PROVE  HistoryOK'
BY DEF IInv, HistoryOK, ReusedWhenUnambiguous, NoExactRepeat, BatchIsIndependent

-----------------------------------------------------------------------------
(* The rows left to a request are used up one by one.                      *)
LEMMA LeftOK ==
  ASSUME NEW q \in ReqType
  PROVE  Left(q) \in 0 .. MaxRows
BY Bounds DEF Left, ReqType

LEMMA BudgetKept ==
  ASSUME IInv, NEW r \in Requests, NEW q \in ReqType, req' = [req EXCEPT ![r] = q],
         Left(q) =< Left(req[r]), Len(people') = Len(people), started' = started
  PROVE  BudgetOK'
<1>1. req'[r] = q /\ \A s \in Requests \ {r} : req'[s] = req[s]
  BY ReqAfter DEF IInv, PlainOK
<1>2. req[r] \in ReqType
  BY DEF IInv, PlainOK
<1>3. Left(q) \in Nat /\ Left(req[r]) \in Nat
  BY <1>2, LeftOK
<1>4. \A s \in Requests : \A k \in 1 .. MaxRows : k =< Left(req'[s]) => k =< Left(req[s])
  BY <1>1, <1>3
<1>5. Tokens' \subseteq Tokens
  BY <1>4 DEF Tokens
<1>6. IsFiniteSet(Tokens) /\ Cardinality(Tokens) \in Nat
  BY FS_CardinalityType DEF IInv, BudgetOK
<1>7. IsFiniteSet(Tokens') /\ Cardinality(Tokens') =< Cardinality(Tokens)
  BY <1>5, <1>6, FS_Subset
<1>8. Cardinality(Tokens') \in Nat /\ Len(people) \in Nat /\ started * MaxRows \in Nat
  BY <1>7, FS_CardinalityType, Bounds DEF IInv, RowsOK, PlainOK
<1> QED BY <1>6, <1>7, <1>8 DEF IInv, BudgetOK

LEMMA BudgetSpent ==
  ASSUME IInv, NEW r \in Requests, NEW q \in ReqType, req' = [req EXCEPT ![r] = q],
         Left(q) < Left(req[r]), Len(people') \in Nat, Len(people') =< Len(people) + 1,
         started' = started
  PROVE  BudgetOK'
<1> DEFINE spent == <<r, Left(req[r])>>
<1>1. req'[r] = q /\ \A s \in Requests \ {r} : req'[s] = req[s]
  BY ReqAfter DEF IInv, PlainOK
<1>2. req[r] \in ReqType
  BY DEF IInv, PlainOK
<1>3. Left(q) \in Nat /\ Left(req[r]) \in 1 .. MaxRows
  BY <1>2, LeftOK, Bounds
<1>4. \A s \in Requests : \A k \in 1 .. MaxRows :
         k =< Left(req'[s]) => k =< Left(req[s]) /\ (s # r \/ k # Left(req[r]))
  BY <1>1, <1>3
<1>5. Tokens' \subseteq Tokens \ {spent} /\ spent \in Tokens
  BY <1>3, <1>4 DEF Tokens
<1>6. IsFiniteSet(Tokens) /\ Cardinality(Tokens) \in Nat
  BY FS_CardinalityType DEF IInv, BudgetOK
<1> HIDE DEF spent
<1>7. IsFiniteSet(Tokens \ {spent}) /\ Cardinality(Tokens \ {spent}) = Cardinality(Tokens) - 1
  BY <1>5, <1>6, FS_RemoveElement
<1>8. IsFiniteSet(Tokens') /\ Cardinality(Tokens') =< Cardinality(Tokens) - 1
  BY <1>5, <1>7, FS_Subset
<1>9. Cardinality(Tokens') \in Nat /\ Len(people) \in Nat /\ started * MaxRows \in Nat
  BY <1>8, FS_CardinalityType, Bounds DEF IInv, RowsOK, PlainOK
<1> QED BY <1>6, <1>8, <1>9 DEF IInv, BudgetOK

LEMMA BudgetStarted ==
  ASSUME IInv, NEW r \in Requests, NEW q \in ReqType, req' = [req EXCEPT ![r] = q],
         people' = people, started' = started + 1
  PROVE  BudgetOK'
<1> DEFINE more == {r} \X (1 .. MaxRows)
<1>1. req'[r] = q /\ \A s \in Requests \ {r} : req'[s] = req[s]
  BY ReqAfter DEF IInv, PlainOK
<1>2. Tokens' \subseteq Tokens \cup more
  BY <1>1 DEF Tokens
<1>3. IsFiniteSet(more) /\ Cardinality(more) = MaxRows
  <2>1. IsFiniteSet({r}) /\ Cardinality({r}) = 1
    BY FS_Singleton
  <2>2. IsFiniteSet(1 .. MaxRows) /\ Cardinality(1 .. MaxRows) = MaxRows
    BY FS_Interval, Bounds
  <2>3. IsFiniteSet(more) /\ Cardinality(more) = Cardinality({r}) * Cardinality(1 .. MaxRows)
    BY <2>1, <2>2, FS_Product
  <2> QED BY <2>1, <2>2, <2>3, Bounds
<1> HIDE DEF more
<1>4. IsFiniteSet(Tokens) /\ Cardinality(Tokens) \in Nat
  BY FS_CardinalityType DEF IInv, BudgetOK
<1>5. /\ IsFiniteSet(Tokens \cup more)
      /\ Cardinality(Tokens \cup more)
           = Cardinality(Tokens) + Cardinality(more) - Cardinality(Tokens \cap more)
  BY <1>3, <1>4, FS_Union
<1>6. Cardinality(Tokens \cap more) \in Nat
  <2>1. IsFiniteSet(Tokens \cap more)
    BY <1>4, FS_Intersection
  <2> QED BY <2>1, FS_CardinalityType
<1>7. IsFiniteSet(Tokens') /\ Cardinality(Tokens') =< Cardinality(Tokens \cup more)
  BY <1>2, <1>5, FS_Subset
<1>8. Cardinality(Tokens') \in Nat /\ Cardinality(Tokens \cup more) \in Nat /\ Len(people) \in Nat
  BY <1>5, <1>7, FS_CardinalityType DEF IInv, RowsOK
<1>9. Cardinality(Tokens') =< Cardinality(Tokens) + MaxRows
  BY <1>3, <1>4, <1>5, <1>6, <1>7, <1>8, Bounds
<1>10. started' * MaxRows = started * MaxRows + MaxRows /\ started * MaxRows \in Nat
  BY Bounds DEF IInv, PlainOK
<1> QED BY <1>4, <1>7, <1>8, <1>9, <1>10, Bounds DEF IInv, BudgetOK

LEMMA EndsOK ==
  ASSUME Len(people') \in Nat
  PROVE  ReqOK(Idle)' /\ FactOf(Idle)' /\ Left(Idle) = 0
BY IdleOK DEF ReqOK, FactOf, FoundNoRepeat, FoundPerson, FoundRow, FoundApart, Left

(* A step that leaves the rows alone.                                      *)
LEMMA QuietStep ==
  ASSUME IInv, NEW r \in Requests, NEW q \in ReqType, req' = [req EXCEPT ![r] = q],
         UNCHANGED <<pool, people, regs, started, overlapped>>, LocksMove(r, q),
         q = Idle \/ (req[r] # Idle /\ q.kind = req[r].kind), Left(q) =< Left(req[r]),
         cutShort' \in BOOLEAN, cutShort' => cutShort \/ "batch" \in overlapped,
         ReqOK(q)', FactOf(q)'
  PROVE  IInv'
<1>1. RowsOK'
  BY SameRows DEF IInv
<1>2. PlainOK'
  <2>1. req' \in [Requests -> ReqType]
    BY ReqAfter DEF IInv, PlainOK
  <2> QED BY <2>1 DEF IInv, PlainOK, LocksMove
<1>3. Len(people') = Len(people) /\ Len(people') >= Len(people) /\ Len(people') \in Nat
  BY DEF IInv, RowsOK
<1>4. \A s \in Requests : ReqOK(req[s])'
  BY <1>3, ReqsAfter
<1>5. LocksOK' /\ OverlapOK'
  BY LocksAfter, OverlapAfter
<1>6. \A s \in Requests : FactOf(req[s])'
  BY FactsAfter
<1>7. HistoryOK' /\ BudgetOK'
  BY <1>3, HistoryStays, BudgetKept
<1> QED BY <1>1, <1>2, <1>4, <1>5, <1>6, <1>7 DEF IInv

(* A request that starts beside the others, and holds nothing.             *)
LEMMA StartStep ==
  ASSUME IInv, NEW r \in Requests, NEW q \in ReqType, req' = [req EXCEPT ![r] = q],
         req[r] = Idle, NEW k, Start(k), q.kind = k,
         UNCHANGED <<pool, people, regs, eventLock, poolLock, cutShort>>,
         \A e \in Places : ~ Holding(q, e), ~ InPool(q), ReqOK(q)', FactOf(q)'
  PROVE  IInv'
<1>1. RowsOK'
  BY SameRows DEF IInv
<1>2. /\ OverlapOK' /\ overlapped \subseteq overlapped' /\ overlapped' \subseteq Kinds
      /\ started' = started + 1 /\ started' \in 0 .. MaxRequests
  BY OverlapStart
<1>3. PlainOK'
  <2>1. req' \in [Requests -> ReqType]
    BY ReqAfter DEF IInv, PlainOK
  <2> QED BY <1>2, <2>1 DEF IInv, PlainOK
<1>4. Len(people') = Len(people) /\ Len(people') >= Len(people) /\ Len(people') \in Nat
  BY DEF IInv, RowsOK
<1>5. \A s \in Requests : ReqOK(req[s])'
  BY <1>4, ReqsAfter
<1>6. LocksOK'
  <2>1. (\A e \in Places : ~ Holding(req[r], e)) /\ ~ InPool(req[r])
    BY IdleOK DEF Holding, InPool
  <2>2. LocksMove(r, q)
    BY <2>1 DEF LocksMove, IInv, PlainOK, LocksOK
  <2> QED BY <2>2, LocksAfter
<1>7. \A s \in Requests : FactOf(req[s])'
  BY <1>2, FactsAfter
<1>8. HistoryOK' /\ BudgetOK'
  BY <1>2, HistoryStays, BudgetStarted
<1> QED BY <1>1, <1>2, <1>3, <1>5, <1>6, <1>7, <1>8 DEF IInv

-----------------------------------------------------------------------------
(* The actions that leave the rows alone.                                  *)
LEMMA BindKeeps ==
  ASSUME IInv, NEW r \in Requests, Bind(r)
  PROVE  IInv'
<1>1. PICK k \in {"form", "desk", "service"}, who \in Reachable :
        /\ Start(k)
        /\ \E e \in IF k = "service" THEN Occurrences ELSE Events,
              id \in IF k = "form" THEN Verified(who) ELSE {who} :
             req' = [req EXCEPT ![r] = [Idle EXCEPT !.pc = "begin", !.kind = k,
                                        !.event = e, !.who = who, !.id = id]]
  BY DEF Bind
<1>2. PICK e \in IF k = "service" THEN Occurrences ELSE Events,
           id \in IF k = "form" THEN Verified(who) ELSE {who} :
        req' = [req EXCEPT ![r] = [Idle EXCEPT !.pc = "begin", !.kind = k,
                                   !.event = e, !.who = who, !.id = id]]
  BY <1>1
<1> DEFINE q == [Idle EXCEPT !.pc = "begin", !.kind = k, !.event = e, !.who = who, !.id = id]
<1>3. k \in Kinds /\ e \in Places /\ who \in Identity /\ id \in Identity
  BY <1>1 DEF Start, Offered, Places, Reachable, Verified
<1>4. /\ q.pc = "begin" /\ q.kind = k /\ q.event = e /\ q.rows = 0 /\ q.pid = 0
      /\ q \in ReqType
  BY <1>3, Bounds, IdleOK DEF Idle, ReqType, Places
<1>5. req[r] = Idle /\ UNCHANGED <<pool, people, regs, eventLock, poolLock, cutShort>>
  BY DEF Bind
<1>6. Len(people') \in Nat
  BY <1>5 DEF IInv, RowsOK
<1>7. (\A x \in Places : ~ Holding(q, x)) /\ ~ InPool(q)
  BY <1>4 DEF Holding, InPool
<1>8. ReqOK(q)'
  BY <1>2, <1>3, <1>4, <1>6 DEF ReqOK
<1>9. FactOf(q)'
  BY <1>4 DEF FactOf, FoundNoRepeat, FoundPerson, FoundRow, FoundApart
<1> HIDE DEF q
<1> QED BY <1>1, <1>2, <1>4, <1>5, <1>7, <1>8, <1>9, StartStep DEF q

LEMMA BindBatchKeeps ==
  ASSUME IInv, NEW r \in Requests, BindBatch(r)
  PROVE  IInv'
<1>1. PICK e \in Events, n \in 1 .. MaxRows :
        req' = [req EXCEPT ![r] = [Idle EXCEPT !.pc = "begin", !.rows = n,
                                     !.kind = "batch", !.event = e]]
  BY DEF BindBatch
<1> DEFINE q == [Idle EXCEPT !.pc = "begin", !.rows = n, !.kind = "batch", !.event = e]
<1>2. "batch" \in Kinds /\ req[r] = Idle /\ Start("batch")
      /\ UNCHANGED <<pool, people, regs, eventLock, poolLock, cutShort>>
  BY DEF BindBatch, Start, Offered
<1>3. n \in Nat /\ n \in 0 .. MaxRows /\ n >= 1
  BY Bounds
<1>4. /\ q.pc = "begin" /\ q.kind = "batch" /\ q.event = e /\ q.rows = n /\ q.pid = 0
      /\ q \in ReqType
  BY <1>2, <1>3, IdleOK DEF Idle, ReqType, Places
<1>5. Len(people') \in Nat
  BY <1>2 DEF IInv, RowsOK
<1>6. (\A x \in Places : ~ Holding(q, x)) /\ ~ InPool(q)
  BY <1>4 DEF Holding, InPool
<1>7. ReqOK(q)'
  BY <1>2, <1>3, <1>4, <1>5 DEF ReqOK
<1>8. FactOf(q)'
  BY <1>4 DEF FactOf, FoundNoRepeat, FoundPerson, FoundRow, FoundApart
<1> HIDE DEF q
<1> QED BY <1>1, <1>2, <1>4, <1>6, <1>7, <1>8, StartStep DEF q

(* The request reads its participant while nobody, or only what has        *)
(* overlapped with it, is at work.                                         *)
LEMMA CheckEditKeeps ==
  ASSUME IInv, NEW r \in Requests, CheckEdit(r)
  PROVE  IInv'
<1>1. PICK g \in {h \in regs : h.active}, who \in Identity :
        /\ who.birthday = people[g.pid].who.birthday /\ ~ Collides(g.pid, who)
        /\ req' = [req EXCEPT ![r] = [Idle EXCEPT !.pc = "found", !.kind = "edit",
                     !.pid = g.pid, !.who = who, !.id = people[g.pid].who]]
  BY DEF CheckEdit
<1>0. PICK q : q = [Idle EXCEPT !.pc = "found", !.kind = "edit", !.pid = g.pid, !.who = who,
                               !.id = people[g.pid].who]
  OBVIOUS
<1>2. "edit" \in Kinds /\ req[r] = Idle /\ Start("edit")
      /\ UNCHANGED <<pool, people, regs, eventLock, poolLock, cutShort>>
  BY DEF CheckEdit, Start, Offered
<1>3. g.pid \in Nat /\ g.pid \in 1 .. Len(people) /\ people[g.pid].who \in Identity /\ Len(people) \in Nat
  <2>1. people \in Seq(Person) /\ g.pid \in 1 .. Len(people)
    BY DEF IInv, RowsOK, RegOK
  <2>2. people[g.pid] \in Person
    BY <2>1
  <2> QED BY <2>1, <2>2 DEF Person
<1>4. /\ q.pc = "found" /\ q.kind = "edit" /\ q.pid = g.pid /\ q.who = who
      /\ q.id = people[g.pid].who /\ q.rows = 0 /\ q \in ReqType
  <2>1. PICK p, id : p = g.pid /\ id = people[g.pid].who
    OBVIOUS
  <2>2. 0 \in 0 .. MaxRows /\ p \in Nat /\ id \in Identity
    BY <1>3, <2>1, Bounds
  <2> QED BY <1>0, <1>2, <2>1, <2>2, IdleOK DEF Idle, ReqType, Places
<1>5. (\A x \in Places : ~ Holding(q, x)) /\ ~ InPool(q)
  BY <1>4 DEF Holding, InPool
<1>6. ReqOK(q)'
  BY <1>2, <1>3, <1>4 DEF ReqOK
<1>7. FactOf(q)'
  <2>1. FoundApart(q)'
    BY <1>1, <1>2, <1>3, <1>4, SameRows DEF FoundApart, IInv, RowsOK
  <2> QED BY <1>4, <2>1 DEF FactOf, FoundNoRepeat, FoundPerson, FoundRow
<1> QED BY <1>0, <1>1, <1>2, <1>4, <1>5, <1>6, <1>7, StartStep

-----------------------------------------------------------------------------
(* The locks are taken when they are free and released by who has them.    *)
LEMMA KeepsLocks ==
  ASSUME IInv, NEW r \in Requests, NEW q, UNCHANGED <<eventLock, poolLock>>,
         \A e \in Places : Holding(q, e) <=> Holding(req[r], e), InPool(q) <=> InPool(req[r])
  PROVE  LocksMove(r, q)
<1>1. /\ \A e \in Places : r \in eventLock[e] <=> Holding(q, e)
      /\ \A e \in Places : \A s, t \in eventLock[e] : s = t
      /\ r \in poolLock <=> InPool(q)
      /\ \A s, t \in poolLock : s = t
  BY DEF IInv, LocksOK
<1>2. eventLock \in [Places -> SUBSET Requests]
  BY DEF IInv, PlainOK
<1> QED BY <1>1, <1>2 DEF LocksMove

LEMMA TakesEvent ==
  ASSUME IInv, NEW r \in Requests, NEW q, NEW e \in Places, req[r].pc = "begin",
         eventLock[e] = {}, eventLock' = [eventLock EXCEPT ![e] = {r}], UNCHANGED poolLock,
         q.event = e, Holding(q, e), ~ InPool(q)
  PROVE  LocksMove(r, q)
<1>1. (\A x \in Places : ~ Holding(req[r], x)) /\ ~ InPool(req[r])
  BY DEF Holding, InPool
<1>2. (\A x \in Places : r \notin eventLock[x]) /\ r \notin poolLock
  BY <1>1 DEF IInv, LocksOK
<1>3. \A x \in Places : Holding(q, x) <=> x = e
  BY DEF Holding
<1>4. eventLock \in [Places -> SUBSET Requests]
  BY DEF IInv, PlainOK
<1> QED BY <1>2, <1>3, <1>4 DEF LocksMove

LEMMA ReleasesEvent ==
  ASSUME IInv, NEW r \in Requests, NEW q, NEW e \in Places, Holding(req[r], e),
         ~ InPool(req[r]), eventLock' = Unlocked(e, r), UNCHANGED poolLock,
         \A x \in Places : ~ Holding(q, x), ~ InPool(q)
  PROVE  LocksMove(r, q)
<1>1. \A x \in Places : Holding(req[r], x) => x = e
  BY DEF Holding
<1>2. (\A x \in Places : r \in eventLock[x] => x = e) /\ r \notin poolLock
  BY <1>1 DEF IInv, LocksOK
<1>3. eventLock \in [Places -> SUBSET Requests]
  BY DEF IInv, PlainOK
<1>4. \A x \in Places : eventLock'[x] = eventLock[x] \ {r}
  BY <1>2, <1>3 DEF Unlocked
<1>5. eventLock' \in [Places -> SUBSET Requests]
  BY <1>3 DEF Unlocked
<1> QED BY <1>2, <1>4, <1>5 DEF LocksMove

LEMMA ReleasesPool ==
  ASSUME IInv, NEW r \in Requests, NEW q, InPool(req[r]), poolLock' = {}, UNCHANGED eventLock,
         \A x \in Places : ~ Holding(q, x), ~ InPool(q)
  PROVE  LocksMove(r, q)
<1>1. \A x \in Places : ~ Holding(req[r], x)
  BY DEF Holding, InPool
<1>2. (\A x \in Places : r \notin eventLock[x]) /\ r \in poolLock /\ \A s, t \in poolLock : s = t
  BY <1>1 DEF IInv, LocksOK
<1>3. eventLock \in [Places -> SUBSET Requests]
  BY DEF IInv, PlainOK
<1> QED BY <1>2, <1>3 DEF LocksMove

LEMMA IdleHolds == (\A e \in Places : ~ Holding(Idle, e)) /\ ~ InPool(Idle)
BY IdleOK DEF Holding, InPool

(* A batch goes on to its next row, or ends after the last.                *)
LEMMA RowDone ==
  ASSUME IInv, NEW r \in Requests, req[r].kind = "batch", req[r].pc # "idle", NextRow(r),
         Len(people') \in Nat
  PROVE  \E q \in ReqType :
           /\ req' = [req EXCEPT ![r] = q]
           /\ q = Idle \/ q.kind = "batch"
           /\ Left(q) < Left(req[r]) /\ ReqOK(q)' /\ FactOf(q)'
           /\ \A e \in Places : ~ Holding(q, e)
           /\ ~ InPool(q)
<1>1. req[r] \in ReqType /\ req[r].rows \in 1 .. MaxRows /\ req[r].rows \in Nat
      /\ "batch" \in Kinds /\ req[r].event \in Events
  BY Bounds DEF IInv, PlainOK, ReqType, ReqOK
<1>2. Left(req[r]) = req[r].rows
  BY DEF Left
<1>3. CASE req[r].rows = 1
  <2>1. req' = [req EXCEPT ![r] = Idle]
    BY <1>3 DEF NextRow
  <2>2. PICK q : q = Idle
    OBVIOUS
  <2>3. ReqOK(q)' /\ FactOf(q)' /\ Left(q) = 0 /\ q \in ReqType
    BY <2>2, EndsOK, IdleOK
  <2>4. Left(q) < Left(req[r]) /\ (\A e \in Places : ~ Holding(q, e)) /\ ~ InPool(q)
    BY <1>2, <1>3, <2>2, <2>3, IdleHolds
  <2> QED BY <2>1, <2>2, <2>3, <2>4
<1>4. CASE req[r].rows # 1
  <2>0. PICK n, e : n = req[r].rows - 1 /\ e = req[r].event
    OBVIOUS
  <2> DEFINE q == [Idle EXCEPT !.pc = "begin", !.kind = "batch", !.event = e, !.rows = n]
  <2>1. req' = [req EXCEPT ![r] = q]
    BY <1>4, <2>0 DEF NextRow
  <2>2. n \in 1 .. MaxRows /\ n \in 0 .. MaxRows /\ n < req[r].rows /\ e \in Events
    BY <1>1, <1>4, <2>0, Bounds
  <2>3. /\ q.pc = "begin" /\ q.kind = "batch" /\ q.event = e /\ q.rows = n /\ q.pid = 0
        /\ q \in ReqType
    BY <1>1, <2>2, IdleOK DEF Idle, ReqType, Places
  <2>4. Left(q) = n /\ (\A x \in Places : ~ Holding(q, x)) /\ ~ InPool(q)
    BY <2>3 DEF Left, Holding, InPool
  <2>5. ReqOK(q)'
    BY <1>1, <2>2, <2>3 DEF ReqOK
  <2>6. FactOf(q)'
    BY <2>3 DEF FactOf, FoundNoRepeat, FoundPerson, FoundRow, FoundApart
  <2> HIDE DEF q
  <2> QED BY <1>2, <2>1, <2>2, <2>3, <2>4, <2>5, <2>6
<1> QED BY <1>3, <1>4

LEMMA EndsQuietly ==
  ASSUME IInv, NEW r \in Requests, Done(r), LocksMove(r, Idle), cutShort' \in BOOLEAN,
         UNCHANGED <<pool, people, regs, started, overlapped>>,
         cutShort' => cutShort \/ "batch" \in overlapped
  PROVE  IInv'
<1>1. PICK q \in ReqType : q = Idle
  BY IdleOK
<1>2. Len(people') \in Nat
  BY DEF IInv, RowsOK
<1>3. ReqOK(q)' /\ FactOf(q)' /\ Left(q) = 0
  BY <1>1, <1>2, EndsOK
<1>4. Left(req[r]) \in Nat
  BY LeftOK DEF IInv, PlainOK
<1>5. Left(q) =< Left(req[r]) /\ req' = [req EXCEPT ![r] = q] /\ LocksMove(r, q)
  BY <1>1, <1>3, <1>4 DEF Done
<1> QED BY <1>1, <1>3, <1>5, QuietStep

(* Under the lock of the event there is no single repeat.                  *)
LEMMA LockEventKeeps ==
  ASSUME IInv, NEW r \in Requests, LockEvent(r)
  PROVE  IInv'
<1>1. /\ req[r] \in ReqType /\ ReqOK(req[r]) /\ req[r].kind \in {"form", "desk"}
      /\ req[r].pc = "begin" /\ eventLock[req[r].event] = {} /\ Len(people) \in Nat
      /\ UNCHANGED <<pool, people, regs, poolLock, started, overlapped, cutShort>>
  BY DEF LockEvent, Step, IInv, PlainOK, RowsOK
<1>2. req[r].event \in Places /\ cutShort \in BOOLEAN
  BY <1>1 DEF ReqOK, Places, IInv, PlainOK
<1>3. CASE Admissible(r)
  <2>1. PICK q, e : q = [req[r] EXCEPT !.pc = "event"] /\ e = req[r].event
    OBVIOUS
  <2>2. req' = [req EXCEPT ![r] = q] /\ eventLock' = [eventLock EXCEPT ![e] = {r}]
    BY <1>3, <2>1 DEF LockEvent
  <2>3. /\ q \in ReqType /\ q.pc = "event" /\ q.kind = req[r].kind /\ q.event = e
        /\ q.id = req[r].id /\ q.pid = req[r].pid /\ q.rows = req[r].rows
    BY <1>1, <2>1 DEF ReqType
  <2>4. Holding(q, e) /\ ~ InPool(q) /\ Left(q) =< Left(req[r])
    BY <1>1, <2>3 DEF Holding, InPool, Left
  <2>5. LocksMove(r, q)
    BY <1>1, <1>2, <2>1, <2>2, <2>3, <2>4, TakesEvent
  <2>6. ReqOK(q)'
    BY <1>1, <2>1, <2>3 DEF ReqOK
  <2>7. FactOf(q)'
    <3>1. ~ Single(Repeats(q.event, q.id, q.kind = "form"))
      BY <1>3, <2>1, <2>3 DEF Admissible
    <3>2. FoundNoRepeat(q)'
      BY <1>1, <3>1, SameRows DEF FoundNoRepeat
    <3> QED BY <1>1, <2>3, <3>2 DEF FactOf, FoundPerson, FoundRow, FoundApart
  <2>8. req[r] # Idle
    BY <1>1, IdleOK
  <2> QED BY <1>1, <1>2, <2>2, <2>3, <2>4, <2>5, <2>6, <2>7, <2>8, QuietStep
<1>4. CASE ~ Admissible(r)
  <2>1. Done(r) /\ UNCHANGED eventLock
    BY <1>4 DEF LockEvent
  <2>2. LocksMove(r, Idle)
    <3>1. PICK q : q = Idle
      OBVIOUS
    <3>2. (\A x \in Places : ~ Holding(req[r], x)) /\ ~ InPool(req[r])
      BY <1>1 DEF Holding, InPool
    <3>3. req' = [req EXCEPT ![r] = q]
      BY <2>1, <3>1 DEF Done
    <3> QED BY <1>1, <2>1, <3>1, <3>2, <3>3, IdleHolds, KeepsLocks
  <2> QED BY <1>1, <1>2, <2>1, <2>2, EndsQuietly
<1> QED BY <1>3, <1>4

(* A batch looks at its row and goes on with it, or with the next.         *)
LEMMA CheckRowKeeps ==
  ASSUME IInv, NEW r \in Requests, CheckRow(r)
  PROVE  IInv'
<1>1. /\ req[r] \in ReqType /\ ReqOK(req[r]) /\ req[r].kind = "batch" /\ req[r].pc = "begin"
      /\ Len(people) \in Nat
      /\ UNCHANGED <<pool, people, regs, eventLock, poolLock, started, overlapped, cutShort>>
  BY DEF CheckRow, Step, IInv, PlainOK, RowsOK
<1>2. PICK who \in Reachable :
        IF Rejected(req[r].event, who) THEN NextRow(r)
        ELSE req' = [req EXCEPT ![r].pc = "row", ![r].who = who, ![r].id = who]
  BY DEF CheckRow
<1>3. (\A x \in Places : ~ Holding(req[r], x)) /\ ~ InPool(req[r]) /\ cutShort \in BOOLEAN
      /\ req[r] # Idle
  BY <1>1, IdleOK DEF Holding, InPool, IInv, PlainOK
<1>4. CASE Rejected(req[r].event, who)
  <2>1. PICK q \in ReqType :
          /\ req' = [req EXCEPT ![r] = q]
          /\ q = Idle \/ q.kind = "batch"
          /\ Left(q) < Left(req[r]) /\ ReqOK(q)' /\ FactOf(q)'
          /\ \A e \in Places : ~ Holding(q, e)
          /\ ~ InPool(q)
    BY <1>1, <1>2, <1>4, RowDone
  <2>2. LocksMove(r, q)
    BY <1>1, <1>3, <2>1, KeepsLocks
  <2>3. Left(q) =< Left(req[r])
    BY <1>1, <2>1, LeftOK
  <2> QED BY <1>1, <1>3, <2>1, <2>2, <2>3, QuietStep
<1>5. CASE ~ Rejected(req[r].event, who)
  <2>1. PICK q : q = [req[r] EXCEPT !.pc = "row", !.who = who, !.id = who]
    OBVIOUS
  <2>2. req' = [req EXCEPT ![r] = q]
    BY <1>2, <1>5, <2>1 DEF IInv, PlainOK
  <2>3. /\ q \in ReqType /\ q.pc = "row" /\ q.kind = "batch" /\ q.event = req[r].event
        /\ q.id = who /\ q.pid = req[r].pid /\ q.rows = req[r].rows
    BY <1>1, <2>1 DEF ReqType, Reachable
  <2>4. (\A x \in Places : ~ Holding(q, x)) /\ ~ InPool(q) /\ Left(q) =< Left(req[r])
    BY <1>1, <2>3 DEF Holding, InPool, Left, ReqType
  <2>5. LocksMove(r, q)
    BY <1>1, <1>3, <2>2, <2>4, KeepsLocks
  <2>6. ReqOK(q)'
    BY <1>1, <2>1, <2>3 DEF ReqOK
  <2>7. FactOf(q)'
    <3>1. ~ Single(Repeats(q.event, q.id, FALSE)) /\ ~ Registered(q.event, Resolved(q.id))
      BY <1>5, <2>3 DEF Rejected
    <3>2. /\ Repeats(q.event, q.id, FALSE)' = Repeats(q.event, q.id, FALSE)
          /\ Registered(q.event, Resolved(q.id))' = Registered(q.event, Resolved(q.id))
      BY <1>1, SameRows
    <3>3. FoundRow(q)'
      BY <2>3, <3>1, <3>2 DEF FoundRow
    <3> QED BY <2>3, <3>3 DEF FactOf, FoundNoRepeat, FoundPerson, FoundApart
  <2> QED BY <1>1, <1>3, <2>2, <2>3, <2>4, <2>5, <2>6, <2>7, QuietStep
<1> QED BY <1>4, <1>5

LEMMA LockPoolKeeps ==
  ASSUME IInv, NEW r \in Requests, LockPool(r)
  PROVE  IInv'
<1>1. /\ req[r] \in ReqType /\ ReqOK(req[r]) /\ req[r].kind = "batch" /\ req[r].pc = "row"
      /\ people \in Seq(Person) /\ Len(people) \in Nat /\ poolLock = {} /\ cutShort \in BOOLEAN
      /\ FactOf(req[r])
      /\ UNCHANGED <<pool, people, regs, eventLock, started, overlapped, cutShort>>
  BY DEF LockPool, Step, IInv, PlainOK, RowsOK
<1>2. PICK q, p, id : /\ p = Resolved(req[r].id) /\ id = req[r].id
                      /\ q = [req[r] EXCEPT !.pc = "found", !.pid = p]
  OBVIOUS
<1>3. req' = [req EXCEPT ![r] = q] /\ poolLock' = {r}
  BY <1>2 DEF LockPool, IInv, PlainOK
<1>4. p \in Nat /\ p =< Len(people)
  BY <1>1, <1>2, Matches
<1>5. /\ q \in ReqType /\ q.pc = "found" /\ q.kind = "batch" /\ q.event = req[r].event
      /\ q.id = id /\ q.pid = p /\ q.rows = req[r].rows
  BY <1>1, <1>2, <1>4 DEF ReqType
<1>6. (\A x \in Places : ~ Holding(q, x)) /\ InPool(q) /\ Left(q) =< Left(req[r])
  BY <1>1, <1>5 DEF Holding, InPool, Left, ReqType
<1>7. LocksMove(r, q)
  <2>1. \A x \in Places : ~ Holding(req[r], x)
    BY <1>1 DEF Holding
  <2>2. \A x \in Places : r \notin eventLock[x]
    BY <2>1 DEF IInv, LocksOK
  <2>3. eventLock \in [Places -> SUBSET Requests]
    BY DEF IInv, PlainOK
  <2> QED BY <1>1, <1>3, <1>6, <2>2, <2>3 DEF LocksMove
<1>8. ReqOK(q)'
  BY <1>1, <1>4, <1>5 DEF ReqOK
<1>9. FactOf(q)'
  <2>1. p = Resolved(id) /\ Resolved(id)' = Resolved(id)
    BY <1>1, <1>2, SameRows
  <2>2. FoundPerson(q)'
    BY <1>5, <2>1 DEF FoundPerson, KeyOf
  <2>3. ASSUME "batch" \notin overlapped
        PROVE  ~ Single(Repeats(q.event, id, FALSE)) /\ ~ Registered(q.event, p)
    BY <1>1, <1>2, <1>5, <2>1, <2>3 DEF FactOf, FoundRow
  <2>4. /\ Repeats(q.event, id, FALSE)' = Repeats(q.event, id, FALSE)
        /\ Registered(q.event, p)' = Registered(q.event, p)
    BY <1>1, SameRows
  <2>5. FoundRow(q)'
    BY <1>1, <1>5, <2>1, <2>3, <2>4 DEF FoundRow
  <2> QED BY <1>5, <2>2, <2>5 DEF FactOf, FoundNoRepeat, FoundApart
<1>10. req[r] # Idle
  BY <1>1, IdleOK
<1> QED BY <1>1, <1>3, <1>5, <1>6, <1>7, <1>8, <1>9, <1>10, QuietStep

(* An addition to a service looks under the lock of the occurrence only.   *)
LEMMA LookKeeps ==
  ASSUME IInv, NEW r \in Requests, Look(r)
  PROVE  IInv'
<1>1. /\ req[r] \in ReqType /\ ReqOK(req[r]) /\ req[r].kind = "service"
      /\ req[r].pc = "begin" /\ eventLock[req[r].event] = {}
      /\ people \in Seq(Person) /\ Len(people) \in Nat /\ cutShort \in BOOLEAN
      /\ UNCHANGED <<pool, people, regs, poolLock, started, overlapped, cutShort>>
  BY DEF Look, Step, IInv, PlainOK, RowsOK
<1>2. PICK q, p, e, key :
        /\ key = Key(r) /\ p = Resolved(key) /\ e = req[r].event
        /\ q = [req[r] EXCEPT !.pc = "found", !.pid = p]
  OBVIOUS
<1>3. req' = [req EXCEPT ![r] = q] /\ eventLock' = [eventLock EXCEPT ![e] = {r}]
  BY <1>2 DEF Look, IInv, PlainOK
<1>4. p \in Nat /\ p =< Len(people) /\ e \in Places
  BY <1>1, <1>2, Matches DEF ReqOK, Places
<1>5. /\ q \in ReqType /\ q.pc = "found" /\ q.kind = "service" /\ q.event = e
      /\ q.id = req[r].id /\ q.pid = p /\ q.rows = req[r].rows
  BY <1>1, <1>2, <1>4 DEF ReqType
<1>6. Holding(q, e) /\ ~ InPool(q) /\ Left(q) =< Left(req[r])
  BY <1>1, <1>5 DEF Holding, InPool, Left
<1>7. LocksMove(r, q)
  BY <1>1, <1>2, <1>3, <1>4, <1>5, <1>6, TakesEvent
<1>8. ReqOK(q)'
  BY <1>1, <1>2, <1>4, <1>5 DEF ReqOK
<1>9. FactOf(q)'
  <2>1. key = KeyOf(q)
    BY <1>1, <1>2, <1>5 DEF Key, KeyOf
  <2>2. p = Resolved(key)'
    BY <1>1, <1>2, SameRows
  <2>3. FoundPerson(q)'
    BY <1>5, <2>1, <2>2 DEF FoundPerson
  <2> QED BY <1>5, <2>3 DEF FactOf, FoundNoRepeat, FoundRow, FoundApart
<1>10. req[r] # Idle
  BY <1>1, IdleOK
<1> QED BY <1>1, <1>3, <1>5, <1>6, <1>7, <1>8, <1>9, <1>10, QuietStep

(* Either transaction of a cycle is rolled back.                           *)
LEMMA RollbackKeeps ==
  ASSUME IInv, NEW r \in Requests, NEW b \in Requests, Rollback(r, b)
  PROVE  IInv'
<1>1. /\ req[r] \in ReqType /\ ReqOK(req[r]) /\ req[r].pc = "event"
      /\ req[r].kind \in {"form", "desk"} /\ req[r].event \in Places
      /\ InPool(req[b]) /\ Len(people) \in Nat /\ cutShort \in BOOLEAN
      /\ UNCHANGED <<pool, people, regs, started, overlapped>>
  BY DEF Rollback, Deadlocked, IInv, PlainOK, RowsOK, LocksOK, ReqOK, Places
<1>2. req[r] # Idle /\ req[b] # Idle /\ r # b /\ req[b].kind = "batch"
  BY <1>1, IdleOK DEF InPool
<1>3. ASSUME NEW q \in ReqType, req' = [req EXCEPT ![r] = q], ReqOK(q)', FactOf(q)',
             q = Idle \/ q.kind = req[r].kind, Left(q) =< 1, q.pc \in {"idle", "begin"},
             eventLock' = Unlocked(req[r].event, r), UNCHANGED <<poolLock, cutShort>>
      PROVE  IInv'
  <2>1. Left(req[r]) = 1
    BY <1>1 DEF Left
  <2>2. Holding(req[r], req[r].event) /\ ~ InPool(req[r])
    BY <1>1 DEF Holding, InPool
  <2>3. (\A x \in Places : ~ Holding(q, x)) /\ ~ InPool(q)
    BY <1>3 DEF Holding, InPool
  <2>4. LocksMove(r, q)
    BY <1>1, <1>3, <2>2, <2>3, ReleasesEvent
  <2> QED BY <1>1, <1>2, <1>3, <2>1, <2>4, QuietStep
<1>4. CASE /\ eventLock' = Unlocked(req[r].event, r) /\ UNCHANGED <<poolLock, cutShort>>
           /\ req' = [req EXCEPT ![r] =
                        [req[r] EXCEPT !.pc = "begin", !.tries = req[r].tries + 1]]
           /\ req[r].kind = "form" /\ req[r].tries < 2
  <2>1. PICK q, n : n = req[r].tries + 1 /\ q = [req[r] EXCEPT !.pc = "begin", !.tries = n]
    OBVIOUS
  <2>2. req' = [req EXCEPT ![r] = q]
    BY <1>1, <1>4, <2>1 DEF IInv, PlainOK
  <2>3. n \in 0 .. 3
    BY <1>1, <1>4, <2>1 DEF ReqType
  <2>4. /\ q \in ReqType /\ q.pc = "begin" /\ q.kind = "form" /\ q.event = req[r].event
        /\ q.pid = req[r].pid /\ q.rows = req[r].rows
    BY <1>1, <1>4, <2>1, <2>3 DEF ReqType
  <2>5. ReqOK(q)'
    BY <1>1, <1>4, <2>1, <2>4 DEF ReqOK
  <2>6. FactOf(q)' /\ Left(q) = 1
    BY <2>4 DEF FactOf, FoundNoRepeat, FoundPerson, FoundRow, FoundApart, Left
  <2>7. Left(q) =< 1 /\ q.kind = req[r].kind
    BY <1>4, <2>4, <2>6
  <2> QED BY <1>3, <1>4, <2>2, <2>4, <2>5, <2>6, <2>7
<1>5. CASE /\ eventLock' = Unlocked(req[r].event, r) /\ UNCHANGED <<poolLock, cutShort>>
           /\ req' = [req EXCEPT ![r] = Idle]
  <2>1. PICK q : q = Idle
    OBVIOUS
  <2>2. /\ q \in ReqType /\ ReqOK(q)' /\ FactOf(q)' /\ Left(q) =< 1 /\ q.pc = "idle"
        /\ req' = [req EXCEPT ![r] = q]
    BY <1>1, <1>5, <2>1, EndsOK, IdleOK
  <2> QED BY <1>3, <1>5, <2>1, <2>2
<1>6. CASE poolLock' = {} /\ Abandon(b) /\ UNCHANGED eventLock
  <2>1. "batch" \in overlapped
    BY <1>2 DEF IInv, OverlapOK
  <2>2. PICK q : q = Idle
    OBVIOUS
  <2>3. req' = [req EXCEPT ![b] = q] /\ Done(b) /\ cutShort' \in BOOLEAN
    BY <1>1, <1>6, <2>2 DEF Abandon, Done
  <2>4. LocksMove(b, q)
    BY <1>1, <1>6, <2>2, <2>3, IdleHolds, ReleasesPool
  <2> QED BY <1>1, <2>1, <2>2, <2>3, <2>4, EndsQuietly
<1>7. \/ /\ eventLock' = Unlocked(req[r].event, r) /\ UNCHANGED <<poolLock, cutShort>>
         /\ req' = [req EXCEPT ![r] =
              IF req[r].kind = "form" /\ req[r].tries < 2
              THEN [req[r] EXCEPT !.pc = "begin", !.tries = req[r].tries + 1] ELSE Idle]
      \/ poolLock' = {} /\ Abandon(b) /\ UNCHANGED eventLock
  BY DEF Rollback, IInv, PlainOK
<1>8. CASE req[r].kind = "form" /\ req[r].tries < 2
  BY <1>4, <1>6, <1>7, <1>8
<1>9. CASE ~ (req[r].kind = "form" /\ req[r].tries < 2)
  BY <1>5, <1>6, <1>7, <1>9
<1> QED BY <1>8, <1>9

-----------------------------------------------------------------------------
(* A step that changes the rows does so under the lock of the event, for   *)
(* its registrations, and of the pool, for its participants, unless it is  *)
(* of an intake that does without.                                         *)
Grew ==
  /\ people' \in Seq(Person) /\ Len(people') \in Nat
  /\ Len(people) =< Len(people') /\ Len(people') =< Len(people) + 1
  /\ \A p \in 1 .. Len(people) : people'[p] = people[p]

RowsMove(r) ==
  /\ Len(people') \in Nat /\ Len(people) =< Len(people') /\ Len(people') =< Len(people) + 1
  /\ req[r].kind # "edit" => Grew
  /\ req[r].kind \in {"service", "edit"} \/ poolLock \subseteq {r}
  /\ regs \subseteq regs'
  /\ \A g \in regs' \ regs : g.event = req[r].event
  /\ regs' # regs => eventLock[req[r].event] \subseteq {r} /\ req[r].event \in Places

(* What another request found is not undone by it: the two overlap, and    *)
(* what the other relies on is what it has locked.                         *)
LEMMA OthersFind ==
  ASSUME IInv, NEW r \in Requests, NEW s \in Requests, s # r, req[r] # Idle,
         overlapped' = overlapped, RowsMove(r), NEW x, x = req[s]
  PROVE  FactOf(x)'
<1>1. FactOf(x) /\ ReqOK(x)
  BY DEF IInv
<1>2. x.pc # "idle" => {x.kind, req[r].kind} \subseteq overlapped
  <2>1. x.pc # "idle" => x # Idle
    BY IdleOK
  <2> QED BY <2>1 DEF IInv, OverlapOK
<1>3. FoundNoRepeat(x)'
  <2> SUFFICES ASSUME x.pc = "event", "edit" \notin overlapped
               PROVE  ~ Single(Repeats(x.event, x.id, x.kind = "form"))'
    BY DEF FoundNoRepeat
  <2>1. Holding(x, x.event) /\ x.event \in Places
    BY <1>1 DEF Holding, ReqOK, Places
  <2>2. s \in eventLock[x.event]
    BY <2>1 DEF IInv, LocksOK
  <2>3. Grew
    BY <1>2 DEF RowsMove
  <2>4. \A g \in regs' \ regs : g.event # x.event
    BY <2>2 DEF RowsMove
  <2>5. \A g \in regs : people'[g.pid] = people[g.pid]
    BY <2>3 DEF Grew, IInv, RowsOK, RegOK
  <2>6. Repeats(x.event, x.id, x.kind = "form")' = Repeats(x.event, x.id, x.kind = "form")
    <3>1. ASSUME NEW g \in regs
          PROVE  /\ Agrees(x.id, people[g.pid].who)' <=> Agrees(x.id, people[g.pid].who)
                 /\ Shares(x.id, people[g.pid].who)' <=> Shares(x.id, people[g.pid].who)
                 /\ Shares(x.id, g.who)' <=> Shares(x.id, g.who)
      BY <2>5 DEF Agrees, Shares
    <3>2. \A g \in regs' : g.event = x.event => g \in regs
      BY <2>4
    <3>3. regs \subseteq regs'
      BY DEF RowsMove
    <3> QED BY <3>1, <3>2, <3>3 DEF Repeats
  <2>7. ~ Single(Repeats(x.event, x.id, x.kind = "form"))
    BY <1>1 DEF FactOf, FoundNoRepeat
  <2> QED BY <2>6, <2>7
<1>4. FoundPerson(x)'
  <2> SUFFICES ASSUME x.pc = "found", x.kind \in {"batch", "service"},
                      {"service", "edit"} \cap overlapped = {}
               PROVE  FALSE
    BY DEF FoundPerson
  <2>1. x.kind = "batch" /\ req[r].kind \notin {"service", "edit"}
    BY <1>2
  <2>2. s \in poolLock
    BY <2>1 DEF IInv, LocksOK, InPool
  <2> QED BY <2>1, <2>2 DEF RowsMove
<1>5. FoundRow(x)'
  BY <1>2 DEF FoundRow
<1>6. FoundApart(x)'
  BY <1>2 DEF FoundApart
<1> QED BY <1>3, <1>4, <1>5, <1>6 DEF FactOf

LEMMA RowStep ==
  ASSUME IInv, NEW r \in Requests, NEW q \in ReqType, req' = [req EXCEPT ![r] = q],
         req[r] # Idle, q = Idle \/ q.kind = req[r].kind, Left(q) < Left(req[r]),
         UNCHANGED <<pool, started, overlapped>>, cutShort' \in BOOLEAN,
         LocksMove(r, q), RowsMove(r), RowsOK', HistoryOK', ReqOK(q)', FactOf(q)'
  PROVE  IInv'
<1>1. PlainOK'
  <2>1. req' \in [Requests -> ReqType]
    BY ReqAfter DEF IInv, PlainOK
  <2> QED BY <2>1 DEF IInv, PlainOK, LocksMove
<1>2. Len(people') >= Len(people) /\ Len(people') \in Nat /\ Len(people') =< Len(people) + 1
  BY DEF RowsMove, IInv, RowsOK
<1>3. \A s \in Requests : ReqOK(req[s])'
  BY <1>2, ReqsAfter
<1>4. LocksOK' /\ OverlapOK'
  BY LocksAfter, OverlapAfter
<1>5. ASSUME NEW s \in Requests PROVE FactOf(req[s])'
  <2>1. PICK x : x = req[s]
    OBVIOUS
  <2>2. req'[r] = q /\ (s # r => req'[s] = x)
    BY <2>1, ReqAfter DEF IInv, PlainOK
  <2>3. CASE s = r
    BY <2>2, <2>3
  <2>4. CASE s # r
    <3>1. FactOf(x)'
      BY <2>1, <2>4, OthersFind
    <3> QED BY <2>2, <2>4, <3>1
  <2> QED BY <2>3, <2>4
<1>6. BudgetOK'
  BY <1>2, BudgetSpent
<1> QED BY <1>1, <1>3, <1>4, <1>5, <1>6 DEF IInv

-----------------------------------------------------------------------------
(* A participant is appended if none was found, and its row says how many  *)
(* matched.                                                                *)
LEMMA WithPersonGrows ==
  ASSUME IInv, NEW r \in Requests, NEW pid, people' = WithPerson(r, pid)
  PROVE  /\ Grew
         /\ pid = 0 => Len(people') = Len(people) + 1
         /\ \A p \in DOMAIN people' \ DOMAIN people :
              pid = 0 /\ people'[p].among = Cardinality(findCandidatesByComposite(Key(r)))
<1>1. people \in Seq(Person) /\ Len(people) \in Nat /\ req[r] \in ReqType
  BY DEF IInv, RowsOK, PlainOK
<1>2. CASE pid # 0
  BY <1>1, <1>2 DEF WithPerson, Grew
<1>3. CASE pid = 0
  <2>1. PICK n : n = Cardinality(findCandidatesByComposite(Key(r)))
    OBVIOUS
  <2> DEFINE new == [who |-> req[r].id, among |-> n]
  <2>2. n \in Nat
    BY <1>1, <2>1, Matches
  <2>3. new \in Person /\ new.among = n
    BY <1>1, <2>2 DEF Person, ReqType
  <2>4. people' = Append(people, new)
    BY <1>3, <2>1 DEF WithPerson
  <2> HIDE DEF new
  <2>5. /\ people' \in Seq(Person) /\ Len(people') = Len(people) + 1
        /\ \A p \in 1 .. Len(people) : people'[p] = people[p]
        /\ people'[Len(people) + 1] = new
    BY <1>1, <2>3, <2>4
  <2>6. \A p \in DOMAIN people' \ DOMAIN people : p = Len(people) + 1
    BY <1>1, <2>5
  <2> QED BY <1>1, <1>3, <2>1, <2>3, <2>5, <2>6 DEF Grew
<1> QED BY <1>2, <1>3

(* A commit inserts a registration that its participant does not have yet. *)
LEMMA InsertRows ==
  ASSUME IInv, NEW r \in Requests, NEW pid \in 0 .. Len(people), Insert(r, pid),
         req[r].event \in Events, req[r].kind \in Kinds, ~ Registered(req[r].event, pid)
  PROVE  RowsOK'
<1>1. people' = WithPerson(r, pid) /\ regs' = regs \cup {Registration(r, pid)}
  BY DEF Insert
<1>2. /\ Grew /\ (pid = 0 => Len(people') = Len(people) + 1) /\ Len(people) \in Nat
      /\ people \in Seq(Person) /\ req[r] \in ReqType
  BY <1>1, WithPersonGrows DEF IInv, RowsOK, PlainOK
<1>3. PICK g : g = Registration(r, pid)
  OBVIOUS
<1>4. /\ g.event = req[r].event /\ g.by = req[r].kind /\ g.who \in Identity
      /\ g.active = TRUE /\ DOMAIN g = {"event", "pid", "who", "active", "by", "among"}
      /\ g.pid = IF pid # 0 THEN pid ELSE Len(people) + 1
  BY <1>2, <1>3 DEF Registration, ReqType
<1>5. g.pid \in 1 .. Len(people')
  BY <1>2, <1>4 DEF Grew
<1>6. \A h \in regs' : RegOK(h)'
  <2>1. RegOK(g)'
    BY <1>4, <1>5 DEF RegOK
  <2>2. \A h \in regs : RegOK(h)'
    BY <1>2 DEF IInv, RowsOK, RegOK, Grew
  <2> QED BY <1>1, <1>3, <2>1, <2>2
<1>7. \A h \in regs : ~ (h.event = g.event /\ h.pid = g.pid)
  <2>1. CASE pid = 0
    BY <1>2, <1>4, <2>1 DEF IInv, RowsOK, RegOK
  <2>2. CASE pid # 0
    BY <1>4, <2>2 DEF Registered
  <2> QED BY <2>1, <2>2
<1>8. \A h, k \in regs' : h.event = k.event /\ h.pid = k.pid => h = k
  BY <1>1, <1>3, <1>7 DEF IInv, RowsOK
<1> QED BY <1>2, <1>6, <1>8 DEF RowsOK, Grew

(* The history of the rows it inserts is what it found.                    *)
LEMMA PersonHistory ==
  ASSUME IInv, NEW r \in Requests, NEW pid, people' = WithPerson(r, pid),
         overlapped' = overlapped,
         {"service", "edit"} \cap overlapped = {} /\ pid = 0
           => ~ Single(findCandidatesByComposite(Key(r)))
  PROVE  ReusedWhenUnambiguous'
<1>1. /\ Grew
      /\ \A p \in DOMAIN people' \ DOMAIN people :
           pid = 0 /\ people'[p].among = Cardinality(findCandidatesByComposite(Key(r)))
  BY WithPersonGrows
<1>2. \A p \in DOMAIN people : p \in 1 .. Len(people)
  BY DEF IInv, RowsOK
<1> SUFFICES ASSUME {"service", "edit"} \cap overlapped = {}, NEW p \in DOMAIN people'
             PROVE  people'[p].among # 1
  BY DEF ReusedWhenUnambiguous
<1>3. CASE p \in DOMAIN people
  BY <1>1, <1>2, <1>3 DEF Grew, IInv, HistoryOK, ReusedWhenUnambiguous
<1>4. CASE p \notin DOMAIN people
  BY <1>1, <1>4 DEF Single
<1> QED BY <1>3, <1>4

LEMMA InsertHistory ==
  ASSUME IInv, NEW r \in Requests, NEW pid, Insert(r, pid), overlapped' = overlapped,
         cutShort' = cutShort, req[r].kind \in {"form", "desk", "batch"},
         {"service", "edit"} \cap overlapped = {} /\ pid = 0
           => ~ Single(findCandidatesByComposite(Key(r))),
         (IF req[r].kind = "batch" THEN "batch" ELSE "edit") \notin overlapped
           => ~ Single(Repeats(req[r].event, req[r].id, req[r].kind = "form"))
  PROVE  HistoryOK'
<1>1. people' = WithPerson(r, pid) /\ regs' = regs \cup {Registration(r, pid)}
  BY DEF Insert
<1>2. ReusedWhenUnambiguous'
  BY <1>1, PersonHistory
<1>3. PICK g, n : /\ g = Registration(r, pid)
                  /\ n = Cardinality(Repeats(req[r].event, req[r].id, req[r].kind = "form"))
  OBVIOUS
<1>4. g.by = req[r].kind /\ g.among = n /\ regs' = regs \cup {g}
  BY <1>1, <1>3 DEF Registration
<1>5. (IF req[r].kind = "batch" THEN "batch" ELSE "edit") \notin overlapped => n # 1
  BY <1>3 DEF Single
<1>6. NoExactRepeat'
  BY <1>4, <1>5 DEF IInv, HistoryOK, NoExactRepeat
<1>7. BatchIsIndependent'
  BY <1>4, <1>5 DEF IInv, HistoryOK, BatchIsIndependent
<1> QED BY <1>2, <1>6, <1>7 DEF HistoryOK

-----------------------------------------------------------------------------
(* The actions that commit.                                                *)
LEMMA AdmitKeeps ==
  ASSUME IInv, NEW r \in Requests, Admit(r)
  PROVE  IInv'
<1>1. /\ req[r] \in ReqType /\ ReqOK(req[r]) /\ FactOf(req[r])
      /\ req[r].kind \in {"form", "desk"} /\ req[r].pc = "event" /\ poolLock = {}
      /\ eventLock' = Unlocked(req[r].event, r) /\ Done(r)
      /\ UNCHANGED <<pool, poolLock, started, overlapped, cutShort>>
      /\ people \in Seq(Person) /\ Len(people) \in Nat /\ cutShort \in BOOLEAN
  BY DEF Admit, Step, IInv, PlainOK, RowsOK
<1>2. PICK pid, q, e : pid = Resolved(req[r].id) /\ q = Idle /\ e = req[r].event
  OBVIOUS
<1>3. /\ e \in Events /\ e \in Places /\ req[r].kind \in Kinds /\ req[r] # Idle
      /\ Holding(req[r], e) /\ ~ InPool(req[r])
  BY <1>1, <1>2, IdleOK DEF ReqOK, Places, Holding, InPool
<1>4. pid \in 0 .. Len(people) /\ (pid = 0 <=> ~ Single(findCandidatesByComposite(req[r].id)))
  BY <1>1, <1>2, Matches
<1>5. req' = [req EXCEPT ![r] = q] /\ LocksMove(r, q)
  BY <1>1, <1>2, <1>3, IdleHolds, ReleasesEvent DEF Done
<1>6. CASE Registered(e, pid)
  <2>1. UNCHANGED <<people, regs>>
    BY <1>2, <1>6 DEF Admit
  <2> QED BY <1>1, <1>2, <1>5, <2>1, EndsQuietly
<1>7. CASE ~ Registered(e, pid)
  <2>1. Insert(r, pid)
    BY <1>2, <1>7 DEF Admit
  <2>2. Grew
    BY <2>1, WithPersonGrows DEF Insert
  <2>3. RowsOK'
    BY <1>2, <1>3, <1>4, <1>7, <2>1, InsertRows
  <2>4. Key(r) = req[r].id
    BY <1>1 DEF Key
  <2>5. "edit" \notin overlapped => ~ Single(Repeats(req[r].event, req[r].id, req[r].kind = "form"))
    BY <1>1 DEF FactOf, FoundNoRepeat
  <2>6. HistoryOK'
    BY <1>1, <1>4, <2>1, <2>4, <2>5, InsertHistory
  <2>7. RowsMove(r)
    <3>1. r \in eventLock[e] /\ \A s, t \in eventLock[e] : s = t
      BY <1>3 DEF IInv, LocksOK
    <3>2. \A g \in regs' \ regs : g.event = req[r].event
      BY <2>1 DEF Insert, Registration
    <3> QED BY <1>1, <1>2, <1>3, <2>1, <2>2, <3>1, <3>2 DEF RowsMove, Grew, Insert
  <2>8. q \in ReqType /\ ReqOK(q)' /\ FactOf(q)' /\ Left(q) < Left(req[r])
    <3>1. ReqOK(q)' /\ FactOf(q)' /\ Left(q) = 0 /\ q \in ReqType
      BY <1>2, <2>2, EndsOK, IdleOK DEF Grew
    <3> QED BY <1>1, <3>1 DEF Left
  <2> QED BY <1>1, <1>2, <1>3, <1>5, <2>3, <2>6, <2>7, <2>8, RowStep
<1> QED BY <1>6, <1>7

LEMMA InsertRowKeeps ==
  ASSUME IInv, NEW r \in Requests, InsertRow(r)
  PROVE  IInv'
<1>1. /\ req[r] \in ReqType /\ ReqOK(req[r]) /\ FactOf(req[r])
      /\ req[r].kind = "batch" /\ req[r].pc = "found" /\ eventLock[req[r].event] = {}
      /\ poolLock' = {} /\ UNCHANGED <<pool, eventLock, started, overlapped>>
      /\ people \in Seq(Person) /\ Len(people) \in Nat /\ cutShort \in BOOLEAN
  BY DEF InsertRow, Step, IInv, PlainOK, RowsOK
<1>2. PICK pid, e : pid = req[r].pid /\ e = req[r].event
  OBVIOUS
<1>3. /\ e \in Events /\ e \in Places /\ req[r].kind \in Kinds /\ req[r] # Idle
      /\ InPool(req[r]) /\ pid \in 0 .. Len(people) /\ req[r].rows >= 1
  BY <1>1, <1>2, IdleOK DEF ReqOK, Places, InPool, ReqType
<1>4. "batch" \notin overlapped =>
        /\ ~ Single(Repeats(e, req[r].id, req[r].kind = "form"))
        /\ ~ Registered(e, pid)
  <2>1. (req[r].kind = "form") = FALSE
    BY <1>1
  <2> QED BY <1>1, <1>2, <2>1 DEF FactOf, FoundRow
<1>5. CASE Registered(e, pid)
  <2>1. Abandon(r) /\ UNCHANGED <<people, regs>>
    BY <1>2, <1>5 DEF InsertRow
  <2>2. PICK q : q = Idle
    OBVIOUS
  <2>3. req' = [req EXCEPT ![r] = q] /\ Done(r) /\ cutShort' \in BOOLEAN
    BY <1>1, <2>1, <2>2 DEF Abandon, Done
  <2>4. LocksMove(r, q)
    BY <1>1, <1>3, <2>2, <2>3, IdleHolds, ReleasesPool
  <2> QED BY <1>1, <1>4, <1>5, <2>1, <2>2, <2>3, <2>4, EndsQuietly
<1>6. CASE ~ Registered(e, pid)
  <2>1. Insert(r, pid) /\ NextRow(r) /\ UNCHANGED cutShort
    BY <1>2, <1>6 DEF InsertRow
  <2>2. Grew
    BY <2>1, WithPersonGrows DEF Insert
  <2>3. RowsOK'
    BY <1>2, <1>3, <1>6, <2>1, InsertRows
  <2>4. {"service", "edit"} \cap overlapped = {} /\ pid = 0
          => ~ Single(findCandidatesByComposite(Key(r)))
    <3>1. Key(r) = KeyOf(req[r])
      BY DEF Key, KeyOf
    <3>2. {"service", "edit"} \cap overlapped = {} => pid = Resolved(Key(r))
      BY <1>1, <1>2, <3>1 DEF FactOf, FoundPerson
    <3> QED BY <1>1, <3>2, Matches
  <2>5. HistoryOK'
    BY <1>1, <1>2, <1>4, <2>1, <2>4, InsertHistory
  <2>6. RowsMove(r)
    <3>1. poolLock \subseteq {r}
      BY <1>3 DEF IInv, LocksOK, PlainOK
    <3>2. \A g \in regs' \ regs : g.event = req[r].event
      BY <2>1 DEF Insert, Registration
    <3> QED BY <1>1, <1>2, <1>3, <2>1, <2>2, <3>1, <3>2 DEF RowsMove, Grew, Insert
  <2>7. PICK q \in ReqType :
          /\ req' = [req EXCEPT ![r] = q]
          /\ q = Idle \/ q.kind = "batch"
          /\ Left(q) < Left(req[r]) /\ ReqOK(q)' /\ FactOf(q)'
          /\ \A x \in Places : ~ Holding(q, x)
          /\ ~ InPool(q)
    BY <1>1, <2>1, <2>2, RowDone DEF Grew
  <2>8. LocksMove(r, q)
    BY <1>1, <1>3, <2>7, ReleasesPool
  <2> QED BY <1>1, <1>3, <2>1, <2>3, <2>5, <2>6, <2>7, <2>8, RowStep
<1> QED BY <1>5, <1>6

LEMMA AddToServiceKeeps ==
  ASSUME IInv, NEW r \in Requests, AddToService(r)
  PROVE  IInv'
<1>1. /\ req[r] \in ReqType /\ ReqOK(req[r]) /\ FactOf(req[r])
      /\ req[r].kind = "service" /\ req[r].pc = "found"
      /\ people' = WithPerson(r, req[r].pid)
      /\ eventLock' = Unlocked(req[r].event, r) /\ Done(r)
      /\ UNCHANGED <<pool, regs, poolLock, started, overlapped, cutShort>>
      /\ people \in Seq(Person) /\ Len(people) \in Nat /\ cutShort \in BOOLEAN
  BY DEF AddToService, Step, IInv, PlainOK, RowsOK
<1>2. PICK pid, q, e : pid = req[r].pid /\ q = Idle /\ e = req[r].event
  OBVIOUS
<1>3. /\ e \in Places /\ req[r] # Idle /\ Holding(req[r], e) /\ ~ InPool(req[r])
  BY <1>1, <1>2, IdleOK DEF ReqOK, Places, Holding, InPool
<1>4. req' = [req EXCEPT ![r] = q] /\ LocksMove(r, q)
  BY <1>1, <1>2, <1>3, IdleHolds, ReleasesEvent DEF Done
<1>5. Grew
  BY <1>1, WithPersonGrows
<1>6. RowsOK'
  <2>1. \A g \in regs : RegOK(g)'
    BY <1>5 DEF IInv, RowsOK, RegOK, Grew
  <2> QED BY <1>1, <1>5, <2>1 DEF IInv, RowsOK, Grew
<1>7. HistoryOK'
  <2>1. Key(r) = KeyOf(req[r])
    BY DEF Key, KeyOf
  <2>2. {"service", "edit"} \cap overlapped = {} => pid = Resolved(Key(r))
    BY <1>1, <1>2, <2>1 DEF FactOf, FoundPerson
  <2>3. {"service", "edit"} \cap overlapped = {} /\ pid = 0
          => ~ Single(findCandidatesByComposite(Key(r)))
    BY <1>1, <2>2, Matches
  <2>4. ReusedWhenUnambiguous'
    BY <1>1, <1>2, <2>3, PersonHistory
  <2> QED BY <1>1, <2>4 DEF IInv, HistoryOK, NoExactRepeat, BatchIsIndependent
<1>8. RowsMove(r)
  BY <1>1, <1>5 DEF RowsMove, Grew
<1>9. q \in ReqType /\ ReqOK(q)' /\ FactOf(q)' /\ Left(q) < Left(req[r])
  <2>1. ReqOK(q)' /\ FactOf(q)' /\ Left(q) = 0 /\ q \in ReqType
    BY <1>2, <1>5, EndsOK, IdleOK DEF Grew
  <2> QED BY <1>1, <2>1 DEF Left
<1> QED BY <1>1, <1>2, <1>3, <1>4, <1>6, <1>7, <1>8, <1>9, RowStep

(* A correction saves the columns it changes, in the row of one            *)
(* participant.                                                            *)
LEMMA SaveEditRows ==
  ASSUME IInv, NEW r \in Requests, SaveEdit(r)
  PROVE  /\ people' \in Seq(Person) /\ Len(people') = Len(people) /\ Len(people) \in Nat
         /\ DOMAIN people' = DOMAIN people
         /\ \A p \in DOMAIN people : people'[p].among = people[p].among
         /\ \A p \in DOMAIN people \ {req[r].pid} : people'[p] = people[p]
         /\ \A p \in DOMAIN people : p = req[r].pid =>
              \A c \in {"email", "phone", "birthday"} :
                people'[p].who[c] = IF req[r].who[c] # req[r].id[c] THEN req[r].who[c]
                                    ELSE people[p].who[c]
<1>1. /\ people \in Seq(Person) /\ Len(people) \in Nat /\ req[r] \in ReqType
      /\ DOMAIN people = 1 .. Len(people)
  BY DEF IInv, RowsOK, PlainOK
<1>2. PICK x, p, q : x = people[p].who /\ p = req[r].pid /\ q = req[r]
  OBVIOUS
<1> DEFINE col(c) == IF q.who[c] # q.id[c] THEN q.who[c] ELSE x[c]
           v == [c \in DOMAIN x |-> col(c)]
<1>3. people' = [people EXCEPT ![p].who = v]
  BY <1>2 DEF SaveEdit
<1>4. CASE p \in DOMAIN people
  <2>1. people[p] \in Person /\ x \in Identity /\ q.who \in Identity /\ q.id \in Identity
    <3>1. people[p] \in Person
      BY <1>1, <1>4
    <3>2. x \in Identity
      BY <1>2, <3>1 DEF Person
    <3> QED BY <1>1, <1>2, <3>1, <3>2 DEF ReqType
  <2>2. DOMAIN x = {"email", "phone", "birthday"}
    BY <2>1 DEF Identity
  <2>3. \A c \in {"email", "phone", "birthday"} : v[c] = col(c)
    BY <2>2
  <2>4. v = [email |-> col("email"), phone |-> col("phone"), birthday |-> col("birthday")]
    BY <2>2
  <2>5. v \in Identity
    BY <2>1, <2>4 DEF Identity
  <2>6. [people[p] EXCEPT !.who = v] \in Person
    BY <2>1, <2>5 DEF Person
  <2> HIDE DEF v
  <2>7. /\ DOMAIN people' = DOMAIN people /\ people' \in [1 .. Len(people) -> Person]
        /\ \A i \in DOMAIN people \ {p} : people'[i] = people[i]
        /\ people'[p] = [people[p] EXCEPT !.who = v]
    BY <1>1, <1>3, <1>4, <2>6
  <2>8. people'[p].who = v /\ people'[p].among = people[p].among
    BY <2>1, <2>7 DEF Person
  <2>9. people' \in Seq(Person) /\ Len(people') = Len(people)
    BY <1>1, <2>7
  <2> QED BY <1>1, <1>2, <2>3, <2>7, <2>8, <2>9
<1>5. CASE p \notin DOMAIN people
  <2>1. people' = people
    BY <1>1, <1>3, <1>5
  <2> QED BY <1>1, <1>2, <1>5, <2>1
<1> QED BY <1>4, <1>5

LEMMA SaveEditKeeps ==
  ASSUME IInv, NEW r \in Requests, SaveEdit(r)
  PROVE  IInv'
<1>1. /\ req[r] \in ReqType /\ req[r].kind = "edit" /\ req[r].pc = "found" /\ Done(r)
      /\ UNCHANGED <<pool, regs, eventLock, poolLock, started, overlapped, cutShort>>
      /\ cutShort \in BOOLEAN
  BY DEF SaveEdit, Step, IInv, PlainOK
<1>2. /\ people' \in Seq(Person) /\ Len(people') = Len(people) /\ Len(people) \in Nat
      /\ DOMAIN people' = DOMAIN people
      /\ \A p \in DOMAIN people : people'[p].among = people[p].among
  BY SaveEditRows
<1>3. PICK q : q = Idle
  OBVIOUS
<1>4. req' = [req EXCEPT ![r] = q] /\ req[r] # Idle
  BY <1>1, <1>3, IdleOK DEF Done
<1>5. LocksMove(r, q)
  <2>1. (\A e \in Places : ~ Holding(req[r], e)) /\ ~ InPool(req[r])
    BY <1>1 DEF Holding, InPool
  <2> QED BY <1>1, <1>3, <1>4, <2>1, IdleHolds, KeepsLocks
<1>6. RowsOK'
  <2>1. \A g \in regs : RegOK(g)'
    BY <1>2 DEF IInv, RowsOK, RegOK
  <2> QED BY <1>1, <1>2, <2>1 DEF IInv, RowsOK
<1>7. HistoryOK'
  BY <1>1, <1>2 DEF IInv, HistoryOK, ReusedWhenUnambiguous, NoExactRepeat, BatchIsIndependent
<1>8. RowsMove(r)
  BY <1>1, <1>2 DEF RowsMove
<1>9. q \in ReqType /\ ReqOK(q)' /\ FactOf(q)' /\ Left(q) < Left(req[r])
  <2>1. ReqOK(q)' /\ FactOf(q)' /\ Left(q) = 0 /\ q \in ReqType
    BY <1>2, <1>3, EndsOK, IdleOK
  <2> QED BY <1>1, <2>1 DEF Left
<1> QED BY <1>1, <1>3, <1>4, <1>5, <1>6, <1>7, <1>8, <1>9, RowStep

-----------------------------------------------------------------------------
LEMMA InitOK == Init => IInv
<1> SUFFICES ASSUME Init PROVE IInv
  OBVIOUS
<1>1. \A s \in Requests : req[s] = Idle
  BY DEF Init
<1>2. /\ RowsOK /\ Len(people) \in Nat /\ Len(people) =< 1
      /\ \A p \in DOMAIN people : people[p].among = 0
      /\ \A g \in regs : g.by = "legacy"
  <2>1. CASE people = <<>> /\ regs = {}
    BY <2>1 DEF RowsOK
  <2>2. CASE \E who \in Reachable, e \in Events :
               /\ people = <<[who |-> who, among |-> 0]>>
               /\ regs = {[event |-> e, pid |-> 1, who |-> who, active |-> FALSE,
                           by |-> "legacy", among |-> 0]}
    <3>1. PICK who \in Reachable, e \in Events :
            /\ people = <<[who |-> who, among |-> 0]>>
            /\ regs = {[event |-> e, pid |-> 1, who |-> who, active |-> FALSE,
                        by |-> "legacy", among |-> 0]}
      BY <2>2
    <3>2. who \in Identity
      BY DEF Reachable
    <3> DEFINE one == [who |-> who, among |-> 0]
    <3>3. one \in Person /\ one.among = 0
      BY <3>2 DEF Person
    <3>4. people = <<one>>
      BY <3>1
    <3> HIDE DEF one
    <3>5. people \in Seq(Person) /\ Len(people) = 1 /\ \A p \in DOMAIN people : people[p] = one
      BY <3>3, <3>4
    <3> QED BY <3>1, <3>2, <3>3, <3>5 DEF RowsOK, RegOK
  <2> QED BY <2>1, <2>2 DEF Init
<1>3. PlainOK
  <2>1. req \in [Requests -> ReqType]
    BY IdleOK DEF Init
  <2>2. eventLock \in [Places -> SUBSET Requests]
    BY DEF Init, Places
  <2>3. /\ started \in 0 .. MaxRequests /\ poolLock \subseteq Requests
        /\ overlapped \subseteq Kinds /\ cutShort \in BOOLEAN /\ pool \in {"running", "church"}
    <3>1. started = 0 /\ poolLock = {} /\ overlapped = {} /\ pool \in {"running", "church"}
      BY DEF Init
    <3>2. cutShort \in BOOLEAN
      BY DEF Init
    <3> QED BY <3>1, <3>2, Bounds
  <2> QED BY <2>1, <2>2, <2>3 DEF PlainOK
<1>4. \A s \in Requests : ReqOK(req[s]) /\ FactOf(req[s])
  <2>1. PICK q : q = Idle
    OBVIOUS
  <2>2. ReqOK(q) /\ FactOf(q)
    BY <1>2, <2>1, IdleOK
    DEF ReqOK, FactOf, FoundNoRepeat, FoundPerson, FoundRow, FoundApart
  <2> QED BY <1>1, <2>1, <2>2
<1>5. LocksOK
  <2>1. \A s \in Requests : (\A e \in Places : ~ Holding(req[s], e)) /\ ~ InPool(req[s])
    BY <1>1, IdleHolds
  <2>2. (\A e \in Places : eventLock[e] = {}) /\ poolLock = {}
    BY DEF Init, Places
  <2> QED BY <2>1, <2>2 DEF LocksOK
<1>6. OverlapOK
  BY <1>1 DEF OverlapOK
<1>7. HistoryOK
  BY <1>2 DEF HistoryOK, ReusedWhenUnambiguous, NoExactRepeat, BatchIsIndependent, Init
<1>8. BudgetOK
  <2>1. \A s \in Requests : Left(req[s]) = 0
    BY <1>1, IdleOK DEF Left
  <2>2. Tokens = {}
    BY <2>1 DEF Tokens
  <2>3. IsFiniteSet(Tokens) /\ Cardinality(Tokens) = 0
    BY <2>2, FS_EmptySet
  <2>4. started * MaxRows = 0
    BY Bounds DEF Init
  <2> QED BY <1>2, <2>3, <2>4 DEF BudgetOK
<1> QED BY <1>2, <1>3, <1>4, <1>5, <1>6, <1>7, <1>8 DEF IInv

LEMMA StutterKeeps == IInv /\ UNCHANGED vars => IInv'
<1> SUFFICES ASSUME IInv, UNCHANGED vars PROVE IInv'
  OBVIOUS
<1>1. RowsOK'
  BY SameRows DEF IInv, vars
<1>2. PlainOK' /\ LocksOK' /\ OverlapOK' /\ BudgetOK'
  BY DEF IInv, vars, PlainOK, LocksOK, Holding, InPool, OverlapOK, BudgetOK, Tokens, Left
<1>3. HistoryOK'
  BY DEF IInv, vars, HistoryOK, ReusedWhenUnambiguous, NoExactRepeat, BatchIsIndependent
<1>4. ASSUME NEW s \in Requests PROVE ReqOK(req[s])' /\ FactOf(req[s])'
  <2>1. PICK x : x = req[s]
    OBVIOUS
  <2>2. ReqOK(x)' /\ FactOf(x)'
    BY <2>1, FactStays DEF IInv, ReqOK, vars
  <2>3. req'[s] = x
    BY <2>1 DEF vars
  <2> QED BY <2>2, <2>3
<1> QED BY <1>1, <1>2, <1>3, <1>4 DEF IInv

LEMMA StepKeeps == IInv /\ [Next]_vars => IInv'
<1> SUFFICES ASSUME IInv, [Next]_vars PROVE IInv'
  OBVIOUS
<1>1. ASSUME NEW r \in Requests,
             Bind(r) \/ LockEvent(r) \/ Admit(r) \/ BindBatch(r) \/ CheckRow(r) \/ LockPool(r)
               \/ InsertRow(r) \/ Look(r) \/ AddToService(r) \/ CheckEdit(r) \/ SaveEdit(r)
      PROVE  IInv'
  BY <1>1, BindKeeps, LockEventKeeps, AdmitKeeps, BindBatchKeeps, CheckRowKeeps, LockPoolKeeps,
     InsertRowKeeps, LookKeeps, AddToServiceKeeps, CheckEditKeeps, SaveEditKeeps
<1>2. ASSUME NEW r \in Requests, NEW b \in Requests, Rollback(r, b) PROVE IInv'
  BY <1>2, RollbackKeeps
<1>3. CASE UNCHANGED vars
  BY <1>3, StutterKeeps
<1> QED BY <1>1, <1>2, <1>3 DEF Next

(* The invariant bounds the participants and the holders of each lock.     *)
LEMMA OneHolder ==
  ASSUME NEW S, \A s, t \in S : s = t
  PROVE  Cardinality(S) =< 1
<1>1. CASE S = {}
  <2>1. Cardinality({}) = 0
    BY FS_EmptySet
  <2> QED BY <1>1, <2>1
<1>2. CASE S # {}
  <2>1. PICK s \in S : S = {s}
    BY <1>2
  <2>2. Cardinality({s}) = 1
    BY FS_Singleton
  <2> QED BY <2>1, <2>2
<1> QED BY <1>1, <1>2

LEMMA TypesFollow == IInv => TypeOK
<1> SUFFICES ASSUME IInv PROVE TypeOK
  OBVIOUS
<1>1. people \in Seq([who : Identity, among : Nat]) /\ Len(people) \in Nat
      /\ DOMAIN people = 1 .. Len(people)
  BY DEF IInv, RowsOK, Person
<1>2. Len(people) =< MaxRequests * MaxRows + 1
  <2>1. PICK d \in Nat : MaxRequests = started + d
    <3>1. MaxRequests - started \in Nat /\ MaxRequests = started + (MaxRequests - started)
      BY Bounds DEF IInv, PlainOK
    <3> QED BY <3>1
  <2>2. started \in Nat /\ Cardinality(Tokens) \in Nat
    BY FS_CardinalityType DEF IInv, PlainOK, BudgetOK
  <2>3. MaxRequests * MaxRows = started * MaxRows + d * MaxRows
    BY <2>1, <2>2, Bounds
  <2>4. d * MaxRows \in Nat /\ started * MaxRows \in Nat
    BY <2>2, Bounds
  <2>5. Len(people) + Cardinality(Tokens) =< started * MaxRows + 1
    BY DEF IInv, BudgetOK
  <2> QED BY <1>1, <2>2, <2>3, <2>4, <2>5
<1>3. \A g \in regs :
        /\ DOMAIN g = {"event", "pid", "who", "active", "by", "among"}
        /\ g.event \in Events /\ g.pid \in DOMAIN people /\ g.who \in Identity
        /\ g.active \in BOOLEAN /\ g.by \in Kinds \cup {"legacy"}
  BY <1>1 DEF IInv, RowsOK, RegOK
<1>4. \A g, h \in regs : g.event = h.event /\ g.pid = h.pid => g = h
  BY DEF IInv, RowsOK
<1>5. /\ eventLock \in [Events \cup Occurrences -> SUBSET Requests]
      /\ \A e \in DOMAIN eventLock : Cardinality(eventLock[e]) =< 1
      /\ poolLock \subseteq Requests /\ Cardinality(poolLock) =< 1
  <2>1. eventLock \in [Places -> SUBSET Requests] /\ poolLock \subseteq Requests
    BY DEF IInv, PlainOK
  <2>2. (\A e \in Places : \A s, t \in eventLock[e] : s = t) /\ \A s, t \in poolLock : s = t
    BY DEF IInv, LocksOK
  <2>3. Cardinality(poolLock) =< 1 /\ \A e \in Places : Cardinality(eventLock[e]) =< 1
    BY <2>2, OneHolder
  <2> QED BY <2>1, <2>3 DEF Places
<1>6. req \in [Requests ->
        [pc : {"idle", "begin", "event", "row", "found"}, kind : Kinds \cup {"none"},
         event : Events \cup Occurrences \cup {NONE}, who : Identity, id : Identity,
         pid : 0 .. Len(people), rows : 0 .. MaxRows, tries : 0 .. 3]]
  <2>1. req \in [Requests -> ReqType] /\ \A s \in Requests : req[s].pid =< Len(people)
    BY DEF IInv, PlainOK, ReqOK
  <2>2. ASSUME NEW q \in ReqType, q.pid =< Len(people)
        PROVE  q \in [pc : {"idle", "begin", "event", "row", "found"}, kind : Kinds \cup {"none"},
                      event : Events \cup Occurrences \cup {NONE}, who : Identity, id : Identity,
                      pid : 0 .. Len(people), rows : 0 .. MaxRows, tries : 0 .. 3]
    BY <1>1, <2>2 DEF ReqType, Places
  <2> QED BY <2>1, <2>2
<1>7. /\ pool \in {"running", "church"} /\ started \in 0 .. MaxRequests
      /\ overlapped \subseteq Kinds /\ cutShort \in BOOLEAN
  BY DEF IInv, PlainOK
<1> QED BY <1>1, <1>2, <1>3, <1>4, <1>5, <1>6, <1>7 DEF TypeOK

LEMMA Inductive == Spec => []IInv
<1>1. Init => IInv
  BY InitOK
<1>2. IInv /\ [Next]_vars => IInv'
  BY StepKeeps
<1> QED BY <1>1, <1>2, PTL DEF Spec

(* The people and their registrations agree with one lock per pool and per *)
(* event, whatever requests, events and identities there are.              *)
THEOREM IntakeIsConsistent == Spec => []IntakeConsistent
<1>1. IInv => IntakeConsistent
  BY TypesFollow DEF IInv, HistoryOK, IntakeConsistent
<1> QED BY <1>1, Inductive, PTL

-----------------------------------------------------------------------------
(* Only a correction changes who a participant is.                         *)
LEMMA WhoStays ==
  ASSUME IInv, [Next]_vars
  PROVE  Grew \/ \E r \in Requests : SaveEdit(r)
<1>1. ASSUME people' = people PROVE Grew
  BY <1>1 DEF Grew, IInv, RowsOK
<1>2. ASSUME NEW r \in Requests, NEW pid, people' = WithPerson(r, pid) PROVE Grew
  BY <1>2, WithPersonGrows
<1>3. ASSUME NEW r \in Requests,
             Bind(r) \/ LockEvent(r) \/ Admit(r) \/ BindBatch(r) \/ CheckRow(r) \/ LockPool(r)
               \/ InsertRow(r) \/ Look(r) \/ AddToService(r) \/ CheckEdit(r)
      PROVE  Grew
  <2>1. CASE Bind(r) \/ LockEvent(r) \/ BindBatch(r) \/ CheckRow(r) \/ LockPool(r) \/ Look(r)
               \/ CheckEdit(r)
    BY <1>1, <2>1 DEF Bind, LockEvent, BindBatch, CheckRow, LockPool, Look, CheckEdit
  <2>2. CASE Admit(r)
    BY <1>1, <1>2, <2>2 DEF Admit, Insert
  <2>3. CASE InsertRow(r)
    BY <1>1, <1>2, <2>3 DEF InsertRow, Insert
  <2>4. CASE AddToService(r)
    BY <1>2, <2>4 DEF AddToService
  <2> QED BY <1>3, <2>1, <2>2, <2>3, <2>4
<1>4. ASSUME NEW r \in Requests, NEW b \in Requests, Rollback(r, b) PROVE Grew
  BY <1>1, <1>4 DEF Rollback
<1> QED BY <1>1, <1>3, <1>4 DEF Next, vars

LEMMA CorrectionStep ==
  ASSUME IInv, [Next]_vars, NEW p \in DOMAIN people, NEW q \in DOMAIN people, Twins(p, q)',
         "edit" \notin overlapped
  PROVE  Twins(p, q)
<1>1. people \in Seq(Person) /\ DOMAIN people = 1 .. Len(people)
  BY DEF IInv, RowsOK
<1>2. CASE people'[p].who = people[p].who /\ people'[q].who = people[q].who
  BY <1>2 DEF Twins, Shares, Agrees
<1>3. CASE Grew
  BY <1>1, <1>2, <1>3 DEF Grew
<1>4. ASSUME NEW r \in Requests, SaveEdit(r) PROVE Twins(p, q)
  <2>1. PICK x : x = req[r]
    OBVIOUS
  <2>2. x.kind = "edit" /\ x.pc = "found" /\ FactOf(x)
    BY <1>4, <2>1 DEF SaveEdit, Step, IInv
  <2>3. /\ x.pid \in DOMAIN people /\ people[x.pid].who = x.id
        /\ x.who.birthday = x.id.birthday /\ ~ Collides(x.pid, x.who)
    BY <2>2 DEF FactOf, FoundApart
  <2>4. /\ \A i \in DOMAIN people \ {x.pid} : people'[i] = people[i]
        /\ \A c \in Contacts : people'[x.pid].who[c] = x.who[c]
    BY <1>4, <2>1, <2>3, SaveEditRows DEF Contacts
  <2>5. ASSUME NEW i \in DOMAIN people \ {x.pid}
        PROVE  ~ Shares(people'[x.pid].who, people'[i].who)
               /\ ~ Shares(people'[i].who, people'[x.pid].who)
    <3>1. ~ Shares(x.who, people[i].who)
      BY <2>3, <2>5 DEF Collides
    <3> QED BY <2>4, <2>5, <3>1 DEF Shares
  <2>6. Shares(people'[p].who, people'[q].who) /\ p # q
    BY DEF Twins, Shares
  <2>7. p # x.pid /\ q # x.pid
    BY <2>5, <2>6
  <2> QED BY <1>2, <2>4, <2>7
<1> QED BY <1>3, <1>4, WhoStays

(* A correction does not make its participant match another one, unless    *)
(* another request overlaps with one.                                      *)
THEOREM CorrectionsKeepApart == Spec => CorrectionKeepsApart
<1>1. ASSUME IInv, [Next]_vars
      PROVE  \A p, q \in DOMAIN people : Twins(p, q)' => Twins(p, q) \/ "edit" \in overlapped
  BY <1>1, CorrectionStep
<1>2. IInv /\ [Next]_vars
        => [\A p, q \in DOMAIN people :
              Twins(p, q)' => Twins(p, q) \/ "edit" \in overlapped]_vars
  BY <1>1
<1> QED BY <1>2, Inductive, PTL DEF Spec, CorrectionKeepsApart

-----------------------------------------------------------------------------
(* The device on which visitors register (PublicRegistration).             *)

(* The form and its draft.                                                 *)
FormInv ==
  /\ open \in BOOLEAN /\ IsForm(data) /\ cur \in 1..3 /\ max \in 1..3
  /\ sending = NoForm \/ IsForm(sending)
  /\ draft = NoDraft \/ (IsForm(draft.data) /\ draft.step \in 1..3)
  /\ ~ open => srvErr = {} /\ sending = NoForm

(* Who is at the device, who entered what, and whose form is pending.      *)
PeopleInv ==
  /\ person \in People /\ confirmed \subseteq People
  /\ by \subseteq People /\ draftBy \subseteq People /\ owner \in People \cup {"nobody"}
  /\ draftBy \cap confirmed = {}
  /\ open => by \cap confirmed = {} /\ person \notin confirmed

(* A consent in the form of a church event, or in the form that is on its  *)
(* way, was given on this visit and not taken back.                        *)
ConsentInv ==
  form = "church" /\ open =>
    /\ data.disclaimer.consent_accepted => ticked
    /\ sending # NoForm /\ sending.disclaimer.consent_accepted => ticked

(* A challenge whose attempts are used up is locked.                       *)
ChallengeOK(c) ==
  /\ c \in Challenges
  /\ c.email \notin {"locked", "verified"} => c.tries < MaxTries
  /\ c.email = "none" => c.retry =< 0

VerifyInv ==
  /\ VerifyTypeOK /\ ChallengeOK(ch)
  /\ verifying => ch.email # "none"
  /\ posting # "no" => verifying /\ emailNeedsWork(seen)

(* The page knows when the next mail may go, or has reason not to.         *)
PacedInv ==
  /\ verifying /\ ch.retry > 0 =>
       "lost" \in doubt \/ (seen = ch /\ ("reload" \in doubt \/ cooldown >= ch.retry))
  /\ posting # "no" /\ ch.retry > 0 => "lost" \in doubt \/ (skew > 0 /\ "reload" \in doubt)

(* The widget follows what the page shows, and between requests the page   *)
(* shows what is there unless it said that something failed.               *)
WidgetInv ==
  verifying =>
    /\ captchaShown(seen) <=> widget # "none"
    /\ widget = "solved" => token # ""
    /\ posting = "no" =>
         /\ seen = ch \/ failed
         /\ token = "spent" \/ (token = "fresh" /\ widget = "empty") => failed
         /\ token = "fresh" /\ widget = "none" => failed \/ ~ emailNeedsWork(seen)

(* A challenge is somebody's.                                              *)
OwnerInv == ch.email # "none" => owner \in People

SetupInv == <<form, reqs, skew>> \in Setups /\ ~ (open /\ verifying)

FormSide == SetupInv /\ FormInv /\ PeopleInv /\ ConsentInv
VerifySide == VerifyInv /\ PacedInv /\ WidgetInv
DeviceInv == FormSide /\ VerifySide /\ OwnerInv

Setting == <<form, reqs, skew>>

LEMMA StepsThree == DOMAIN steps = 1..3 /\ Len(steps) = 3
  BY DEF steps

(* The page jumps to a step that owns one of the errors, if one does.      *)
LEMMA Jumps ==
  ASSUME cur \in 1..3, NEW errs
  PROVE  /\ JumpTarget(steps, errs) \in 1..3
         /\ errs = {} => JumpTarget(steps, errs) = cur
         /\ (\E i \in 1..3 : steps[i] \cap errs # {}) => steps[JumpTarget(steps, errs)] \cap errs # {}
<1> DEFINE owners == {i \in DOMAIN steps : steps[i] \cap errs # {}}
<1>1. owners \subseteq 1..3
  BY StepsThree
<1>2. CASE owners = {}
  BY <1>2, StepsThree DEF JumpTarget
<1>3. CASE owners # {}
  <2>1. \E i \in owners : \A j \in owners : i <= j
    BY <1>1, <1>3
  <2>2. JumpTarget(steps, errs) = CHOOSE i \in owners : \A j \in owners : i <= j
    BY <1>3 DEF JumpTarget
  <2>3. JumpTarget(steps, errs) \in owners
    BY <2>1, <2>2
  <2> QED BY <1>1, <1>3, <2>3
<1> QED BY <1>2, <1>3

LEMMA PartOfSteps ==
  ASSUME NEW i \in 1..3
  PROVE  /\ PartOf(i) \in Parts
         /\ i = 1 => PartOf(i) = "disclaimer"
         /\ i # 1 => PartOf(i) # "disclaimer"
  BY DEF PartOf, Parts

LEMMA BlankForm == ASSUME PublicConstants PROVE IsForm(Blank) /\ ~ Blank.disclaimer.consent_accepted
<1>1. Blank.disclaimer \in Values("disclaimer") /\ ~ Blank.disclaimer.consent_accepted
  BY DEF PublicConstants, Blank
<1>2. Blank.personal \in Values("personal")
  <2>1. \E v \in Values("personal") : \A f \in DOMAIN v : v[f] = ""
    BY DEF PublicConstants
  <2> QED BY <2>1 DEF Blank
<1>3. Blank.emergency \in Values("emergency")
  <2>1. \E v \in Values("emergency") :
          \A f \in DOMAIN v : v[f] = "" \/ f = "emergency_contact_relationship"
    BY DEF PublicConstants
  <2> QED BY <2>1 DEF Blank
<1>4. DOMAIN Blank = Parts
  BY DEF Blank, Parts
<1> QED BY <1>1, <1>2, <1>3, <1>4 DEF IsForm, Parts

LEMMA WithoutConsent ==
  ASSUME PublicConstants, NEW d, IsForm(d)
  PROVE  LET e == [d EXCEPT !.disclaimer.consent_accepted = FALSE]
         IN  IsForm(e) /\ ~ e.disclaimer.consent_accepted
<1> DEFINE e == [d EXCEPT !.disclaimer.consent_accepted = FALSE]
<1>1. d.disclaimer \in [consent_accepted : BOOLEAN] /\ DOMAIN d = Parts /\ "disclaimer" \in Parts
  BY DEF IsForm, PublicConstants, Parts
<1>2. e.disclaimer = [d.disclaimer EXCEPT !.consent_accepted = FALSE]
  BY <1>1
<1>3. e.disclaimer \in [consent_accepted : BOOLEAN] /\ ~ e.disclaimer.consent_accepted
  BY <1>1, <1>2
<1>4. DOMAIN e = Parts /\ \A p \in Parts \ {"disclaimer"} : e[p] = d[p]
  BY <1>1
<1> HIDE DEF e
<1>5. IsForm(e)
  BY <1>3, <1>4 DEF IsForm, PublicConstants
<1> QED BY <1>3, <1>5 DEF e

LEMMA OpensKeeps ==
  ASSUME PublicConstants, FormSide, Opens, person \notin confirmed, verifying' = FALSE,
         UNCHANGED Setting, UNCHANGED <<person, owner, confirmed>>
  PROVE  FormSide'
<1>1. /\ ~ open /\ srvErr = {} /\ sending = NoForm /\ open' = TRUE
      /\ UNCHANGED <<srvErr, sending>> /\ by' = draftBy /\ draftBy' = draftBy
  BY DEF Opens, churchMount, Mount, FormSide, FormInv
<1>2. PeopleInv'
  BY <1>1 DEF FormSide, PeopleInv
<1>3. SetupInv'
  BY DEF FormSide, SetupInv, Setting
<1>4. CASE form = "church"
  <2>1. churchMount
    BY <1>4 DEF Opens
  <2>2. IsForm(data') /\ ~ data'.disclaimer.consent_accepted
    BY <2>1, BlankForm, WithoutConsent DEF churchMount, FormSide, FormInv
  <2>3. cur' = 1 /\ max' = 1 /\ draft' = Snapshot(1, data')
    BY <2>1 DEF churchMount
  <2>4. FormInv'
    BY <1>1, <2>2, <2>3 DEF FormInv, Snapshot, IsForm
  <2>5. ConsentInv'
    BY <1>1, <2>2, <2>3 DEF ConsentInv
  <2> QED BY <1>2, <1>3, <2>4, <2>5 DEF FormSide
<1>5. CASE form # "church"
  <2>1. Mount(Blank)
    BY <1>5 DEF Opens
  <2>2. IsForm(data') /\ cur' \in 1..3 /\ max' = cur' /\ draft' = Snapshot(max', data')
    BY <2>1, BlankForm DEF Mount, FormSide, FormInv
  <2>3. FormInv'
    BY <1>1, <2>2 DEF FormInv, Snapshot, IsForm
  <2> QED BY <1>2, <1>3, <1>5, <2>3 DEF FormSide, ConsentInv, Setting
<1> QED BY <1>4, <1>5

LEMMA ChangeKeeps ==
  ASSUME PublicConstants, FormSide, NEW group, onCommonChange(group)
  PROVE  FormSide'
<1>1. /\ sending = NoForm /\ UNCHANGED verify /\ UNCHANGED Setting
      /\ UNCHANGED <<person, owner, confirmed>>
      /\ by' = by \cup {person} /\ draftBy' = by'
      /\ ticked' = IF cur = 1 THEN data'.disclaimer.consent_accepted ELSE ticked
  BY DEF onCommonChange, Setting, event, verify
<1>2. PICK v \in Values(PartOf(cur)) :
        LET keys == Changed(data[PartOf(cur)], v)
            d == [data EXCEPT ![PartOf(cur)] = v]
        IN  IF form = "church" THEN churchType(d, keys) ELSE Type(steps, checks(d), d, keys, FALSE)
  BY DEF onCommonChange
<1> DEFINE d == [data EXCEPT ![PartOf(cur)] = v]
           keys == Changed(data[PartOf(cur)], v)
<1>3. IsForm(data) /\ cur \in 1..3 /\ PartOf(cur) \in Parts
  BY PartOfSteps DEF FormSide, FormInv
<1>4. IsForm(d) /\ (cur # 1 => d.disclaimer = data.disclaimer)
  <2>1. DOMAIN d = Parts /\ d[PartOf(cur)] = v /\ \A p \in Parts \ {PartOf(cur)} : d[p] = data[p]
    BY <1>3 DEF IsForm
  <2> QED BY <1>3, <2>1, PartOfSteps DEF IsForm, Parts
<1> HIDE DEF d, keys
<1>5. /\ open /\ data' = d /\ srvErr' = srvErr \ keys /\ UNCHANGED <<open, max, sending>>
      /\ cur' \in {cur, JumpTarget(steps, srvErr')} /\ \E s \in {1, max} : draft' = Snapshot(s, d)
  BY <1>2 DEF d, keys, churchType, Type
<1>6. cur' \in 1..3
  BY <1>3, <1>5, Jumps
<1>7. FormInv'
  BY <1>1, <1>4, <1>5, <1>6 DEF FormSide, FormInv, Snapshot, IsForm
<1>8. PeopleInv'
  BY <1>1, <1>5 DEF FormSide, PeopleInv
<1>9. SetupInv'
  BY <1>1, <1>5 DEF FormSide, SetupInv, Setting, verify
<1>10. ConsentInv'
  <2>1. CASE cur = 1
    BY <1>1, <1>5, <2>1 DEF ConsentInv
  <2>2. CASE cur # 1
    BY <1>1, <1>4, <1>5, <2>2 DEF FormSide, ConsentInv, Setting
  <2> QED BY <2>1, <2>2
<1> QED BY <1>7, <1>8, <1>9, <1>10 DEF FormSide

(* The other gestures on the form enter nothing.                           *)
LEMMA LooksKeep ==
  ASSUME FormSide, UNCHANGED <<verify, event, history>>, UNCHANGED <<open, data, srvErr>>,
         cur' \in 1..3, max' \in 1..3, sending' \in {sending, NoForm, data}, ~ open => sending' = NoForm,
         draft' = draft \/ \E s \in 1..3 : draft' = Snapshot(s, data)
  PROVE  FormSide'
<1>1. UNCHANGED <<form, reqs, person, by, draftBy, ticked, owner, confirmed, skew, verifying>>
  BY DEF event, history, verify
<1>2. FormInv'
  BY DEF FormSide, FormInv, Snapshot, IsForm
<1>3. PeopleInv'
  BY <1>1 DEF FormSide, PeopleInv
<1>4. SetupInv'
  BY <1>1 DEF FormSide, SetupInv
<1>5. ConsentInv'
  BY <1>1 DEF FormSide, ConsentInv
<1> QED BY <1>2, <1>3, <1>4, <1>5 DEF FormSide

LEMMA StepsKeep ==
  ASSUME FormSide, \/ handleNext \/ handleBack \/ (\E i \in 1..Len(steps) : handleStepJump(i)) \/ submit
  PROVE  FormSide'
<1>0. cur \in 1..3 /\ max \in 1..3 /\ Len(steps) = 3 /\ open
  BY StepsThree DEF FormSide, FormInv, handleNext, NextStep, handleBack, BackStep, handleStepJump, JumpTo,
                    submit, Submit
<1>1. CASE handleNext
  <2>1. /\ cur < 3 /\ UNCHANGED <<verify, event, history>> /\ UNCHANGED <<open, data, srvErr, sending>>
        /\ stepErr' = checks(data)[cur]
        /\ IF stepErr' # {} THEN UNCHANGED <<cur, max, draft>>
           ELSE /\ cur' = cur + 1 /\ max' = IF cur' > max THEN cur' ELSE max
                /\ draft' = IF max' # max THEN Snapshot(max', data) ELSE draft
    BY <1>0, <1>1 DEF handleNext, NextStep
  <2>2. CASE stepErr' # {}
    BY <1>0, <2>1, <2>2, LooksKeep DEF FormSide, FormInv
  <2>3. CASE stepErr' = {}
    <3>1. cur' \in 1..3 /\ max' \in 1..3 /\ draft' \in {draft, Snapshot(max', data)}
      BY <1>0, <2>1, <2>3
    <3>2. (draft' = draft \/ \E s \in 1..3 : draft' = Snapshot(s, data)) /\ (~ open => sending' = NoForm)
      BY <2>1, <3>1 DEF FormSide, FormInv
    <3> QED BY <2>1, <3>1, <3>2, LooksKeep
  <2> QED BY <2>2, <2>3
<1>2. CASE handleBack
  <2>1. /\ cur > 1 /\ cur' = cur - 1 /\ UNCHANGED <<verify, event, history>>
        /\ UNCHANGED <<open, data, max, srvErr, sending, draft>>
    BY <1>2 DEF handleBack, BackStep
  <2> QED BY <1>0, <2>1, LooksKeep DEF FormSide, FormInv
<1>3. ASSUME NEW i \in 1..Len(steps), handleStepJump(i) PROVE FormSide'
  <2>1. /\ i \in 1..3 /\ i <= max /\ cur' = i /\ UNCHANGED <<verify, event, history>>
        /\ UNCHANGED <<open, data, max, srvErr, sending, draft>>
    BY <1>0, <1>3 DEF handleStepJump, JumpTo
  <2> QED BY <1>0, <2>1, LooksKeep DEF FormSide, FormInv
<1>4. CASE submit
  <2>1. /\ cur = 3 /\ sending' \in {sending, data} /\ draft' = draft /\ UNCHANGED <<verify, event, history>>
        /\ UNCHANGED <<open, data, cur, max, srvErr>>
    BY <1>0, <1>4 DEF submit, Submit
  <2> QED BY <1>0, <2>1, LooksKeep
<1> QED BY <1>1, <1>2, <1>3, <1>4
(* The form is closed, by its visitor or by the answer to it.              *)
LEMMA ClosesKeep ==
  ASSUME PublicConstants, FormSide, Closes, UNCHANGED Setting,
         UNCHANGED <<draft, draftBy, person, confirmed>>, owner' \in {owner, person}
  PROVE  FormSide'
<1>1. /\ open' = FALSE /\ data' = Blank /\ cur' = 1 /\ max' = 1 /\ srvErr' = {} /\ sending' = NoForm
      /\ by' = {}
  BY DEF Closes, Unmounted
<1>2. FormInv'
  <2>1. IsForm(data')
    BY <1>1, BlankForm
  <2>2. IsForm(data)' /\ cur' \in 1..3 /\ max' \in 1..3
    BY <1>1, <2>1 DEF IsForm
  <2>3. (draft = NoDraft \/ (IsForm(draft.data) /\ draft.step \in 1..3))'
    BY DEF FormSide, FormInv, IsForm
  <2> QED BY <1>1, <2>2, <2>3 DEF FormInv
<1>3. PeopleInv'
  BY <1>1 DEF FormSide, PeopleInv
<1> QED BY <1>1, <1>2, <1>3 DEF FormSide, SetupInv, ConsentInv, Setting

LEMMA AnswersKeep ==
  ASSUME PublicConstants, FormSide, begun \/ Refused \/ Unanswered
  PROVE  FormSide'
<1>0. sending # NoForm /\ open /\ cur \in 1..3
  BY DEF FormSide, FormInv, begun, Refused, Refuse, Unanswered, Unheard
<1>1. CASE begun
  BY <1>1, ClosesKeep DEF begun, Enter, Setting, event
<1>2. CASE Refused
  <2>1. PICK errs : Refuse(steps, checks(data), errs) /\ UNCHANGED <<verify, event, history>>
    BY <1>2 DEF Refused
  <2>2. /\ sending' = NoForm /\ cur' = JumpTarget(steps, errs)
        /\ UNCHANGED <<open, data, max, draft>>
    BY <2>1 DEF Refuse
  <2>3. cur' \in 1..3
    BY <1>0, <2>2, Jumps
  <2>4. UNCHANGED <<form, reqs, person, by, draftBy, ticked, owner, confirmed, skew, verifying>>
    BY <2>1 DEF event, history, verify
  <2>5. FormInv'
    BY <1>0, <2>2, <2>3 DEF FormSide, FormInv, IsForm
  <2>6. PeopleInv' /\ SetupInv'
    BY <2>2, <2>4 DEF FormSide, PeopleInv, SetupInv
  <2>7. ConsentInv'
    BY <1>0, <2>2, <2>4 DEF FormSide, ConsentInv
  <2> QED BY <2>5, <2>6, <2>7 DEF FormSide
<1>3. CASE Unanswered
  BY <1>0, <1>3, LooksKeep DEF Unanswered, Unheard, FormSide, FormInv
<1> QED BY <1>1, <1>2, <1>3

(* The page that verifies leaves the form alone.                           *)
LEMMA ApartKeeps ==
  ASSUME FormSide, UNCHANGED <<page, event>>, skew' = skew, verifying' => ~ open,
         draft' \in {draft, NoDraft}, PeopleInv', ticked' = ticked
  PROVE  FormSide'
<1>1. UNCHANGED <<open, data, cur, max, srvErr, sending, form, reqs>>
  BY DEF page, event
<1>2. FormInv'
  BY <1>1 DEF FormSide, FormInv, IsForm
<1>3. SetupInv' /\ ConsentInv'
  BY <1>1 DEF FormSide, SetupInv, ConsentInv
<1> QED BY <1>2, <1>3 DEF FormSide

LEMMA VerifyingSteps ==
  ASSUME VerifyInv, Verifying
  PROVE  verifying /\ skew' = skew /\ UNCHANGED <<page, draft, event, history>>
  BY DEF VerifyInv, Verifying, Reload, Enter, Solve, Lapse, SendCode, SendLost, Complete, Tick,
         SendAnswered, VerifyCode

LEMMA PagesKeep ==
  ASSUME PublicConstants, FormSide, VerifyInv, OwnerInv,
         \/ Open \/ Leave \/ Expire \/ Verifying \/ ReturnToForm \/ ReturnToVerify
         \/ LeaveVerify \/ Confirm \/ NextPerson
  PROVE  FormSide'
<1>0. verifying => ~ open
  BY DEF FormSide, SetupInv
<1>1. CASE Open \/ ReturnToForm
  <2>1. Opens /\ person \notin confirmed /\ verifying' = FALSE /\ UNCHANGED Setting
        /\ UNCHANGED <<person, owner, confirmed>>
    BY <1>1 DEF Open, ReturnToForm, Away, Unmounts, verify, event, Setting,
                     VerifyInv, VerifyTypeOK
  <2> QED BY <2>1, OpensKeeps
<1>2. CASE Leave
  BY <1>2, ClosesKeep DEF Leave, verify, event, Setting
<1>3. CASE Expire
  <2>1. PeopleInv'
    BY <1>3 DEF Expire, page, FormSide, PeopleInv
  <2> QED BY <1>0, <1>3, <2>1, ApartKeeps DEF Expire, verify
<1>4. CASE Verifying \/ ReturnToVerify \/ LeaveVerify
  <2>1. /\ ~ open /\ skew' = skew /\ UNCHANGED <<page, draft, event, history>>
    BY <1>0, <1>4, VerifyingSteps DEF ReturnToVerify, Away, Enter, LeaveVerify, Unmounts
  <2>2. PeopleInv'
    BY <2>1 DEF FormSide, PeopleInv, page, history
  <2> QED BY <2>1, <2>2, ApartKeeps DEF history
<1>5. CASE Confirm
  <2>1. /\ verifying /\ ~ open /\ draft' = NoDraft /\ draftBy' = {} /\ skew' = skew
        /\ confirmed' \in {confirmed, confirmed \cup {owner}}
        /\ UNCHANGED <<page, event, person, by, ticked, owner>>
    BY <1>0, <1>5 DEF Confirm, acknowledge, Unmounts, verify
  <2>2. owner \in People => PeopleInv'
    BY <2>1 DEF FormSide, PeopleInv, page
  <2>3. owner \in People
    BY <2>1 DEF VerifyInv, OwnerInv
  <2> QED BY <2>1, <2>2, <2>3, ApartKeeps
<1>6. CASE NextPerson
  <2>1. PeopleInv'
    BY <1>6 DEF NextPerson, Away, FormSide, PeopleInv, page
  <2> QED BY <1>0, <1>6, <2>1, ApartKeeps DEF NextPerson, verify, history
<1> QED BY <1>1, <1>2, <1>3, <1>4, <1>5, <1>6
-----------------------------------------------------------------------------
LEMMA PastOK == ASSUME VerifyConstants PROVE Past \in Int /\ Past =< 0 /\ \A s \in Skews : Past =< s
<1>1. \E t \in Skews : \A s \in Skews : t <= s
  BY DEF VerifyConstants
<1>2. Past \in Skews /\ \A s \in Skews : Past <= s
  BY <1>1 DEF Past
<1> QED BY <1>2 DEF VerifyConstants

LEMMA NewOK ==
  ASSUME VerifyConstants
  PROVE  /\ ChallengeOK(NoChallenge) /\ NoChallenge.retry =< 0
         /\ ChallengeOK(NewChallenge) /\ NewChallenge.email # "none" /\ NewChallenge.retry =< 0
<1>1. /\ Past \in Past..Cooldown /\ Past \in Past..CodeLife /\ Past =< 0
      /\ 0 \in 0..MaxTries /\ 0 < MaxTries
  BY PastOK DEF VerifyConstants
<1>2. NoChallenge = [email |-> "none", retry |-> Past, life |-> Past, tries |-> 0, finalized |-> FALSE]
  BY DEF NoChallenge
<1>3. NoChallenge \in Challenges /\ NoChallenge.retry = Past /\ NoChallenge.tries = 0
  BY <1>1, <1>2 DEF Challenges, EmailStates
<1>4. NewChallenge = [NoChallenge EXCEPT !.email = "waiting"]
  BY DEF NewChallenge
<1>5. /\ NewChallenge \in Challenges /\ NewChallenge.email = "waiting"
      /\ NewChallenge.retry = Past /\ NewChallenge.tries = 0
  BY <1>3, <1>4 DEF Challenges, EmailStates
<1> QED BY <1>1, <1>3, <1>5 DEF ChallengeOK

(* What the server may do with a request for a mail.                       *)
LEMMA AfterOK ==
  ASSUME VerifyConstants, ChallengeOK(ch), NEW o \in Outcomes
  PROVE  /\ ChallengeOK(After(o)) /\ (ch.email # "none" => After(o).email # "none")
         /\ o \in {"sent", "failed"} => After(o).retry = Cooldown
         /\ o = "trusted" => After(o).retry =< 0 /\ After(o).email = "verified"
         /\ o \notin {"sent", "failed", "trusted"} => After(o) = ch
         /\ o = "too early" => ch.retry > 0
<1>1. /\ o \in {"captcha", "refused", "too early", "sent", "failed", "trusted"}
      /\ o \in {"sent", "failed", "trusted"} =>
           ch.email \in {"waiting", "sent", "delivery_failed"} /\ ~ (ch.retry > 0)
      /\ o = "too early" => ch.retry > 0
  BY DEF Outcomes, emailNeedsWork
<1>2. /\ ch \in [email : EmailStates, retry : Past..Cooldown, life : Past..CodeLife,
                 tries : 0..MaxTries, finalized : BOOLEAN]
      /\ ch.email \notin {"locked", "verified"} => ch.tries < MaxTries
  BY DEF ChallengeOK, Challenges
<1>3. Cooldown \in Past..Cooldown /\ CodeLife \in Past..CodeLife /\ Past \in Past..CodeLife
  BY PastOK DEF VerifyConstants
<1>4. CASE o = "sent"
  <2>1. After(o) = [ch EXCEPT !.email = "sent", !.retry = Cooldown, !.life = CodeLife]
    BY <1>4 DEF After
  <2> QED BY <1>1, <1>2, <1>3, <1>4, <2>1 DEF ChallengeOK, Challenges, EmailStates
<1>5. CASE o = "failed"
  <2>1. After(o) = [ch EXCEPT !.email = "delivery_failed", !.retry = Cooldown, !.life = Past]
    BY <1>5 DEF After
  <2> QED BY <1>1, <1>2, <1>3, <1>5, <2>1 DEF ChallengeOK, Challenges, EmailStates
<1>6. CASE o = "trusted"
  <2>1. After(o) = [ch EXCEPT !.email = "verified"]
    BY <1>6 DEF After
  <2>2. ch.retry =< 0
    BY <1>1, <1>2, <1>6, PastOK DEF VerifyConstants
  <2> QED BY <1>2, <1>6, <2>1, <2>2 DEF ChallengeOK, Challenges, EmailStates
<1>7. CASE o \notin {"sent", "failed", "trusted"}
  BY <1>1, <1>7 DEF After
<1> QED BY <1>4, <1>5, <1>6, <1>7

LEMMA OlderOK ==
  ASSUME VerifyConstants, NEW c \in Challenges
  PROVE  /\ Older(c) \in Challenges /\ Older(c).email = c.email /\ Older(c).tries = c.tries
         /\ Older(c).finalized = c.finalized /\ Older(c).retry =< c.retry
         /\ c.email # "none" /\ Older(c).retry > 0 => Older(c).retry = c.retry - 1
<1>1. Past \in Int /\ Past =< 0 /\ Cooldown \in Nat /\ CodeLife \in Nat
  BY PastOK DEF VerifyConstants
<1>2. c.retry \in Past..Cooldown /\ c.life \in Past..CodeLife
  BY DEF Challenges
<1>3. Less(c.retry) \in Past..Cooldown /\ Less(c.life) \in Past..CodeLife /\ Less(c.retry) =< c.retry
  BY <1>1, <1>2 DEF Less
<1>4. Less(c.retry) > 0 => Less(c.retry) = c.retry - 1
  BY <1>1, <1>2 DEF Less
<1>5. CASE c.email = "none"
  BY <1>1, <1>2, <1>5 DEF Older
<1>6. CASE c.email # "none"
  <2>1. Older(c) = [c EXCEPT !.retry = Less(c.retry), !.life = Less(c.life)]
    BY <1>6 DEF Older, Challenges
  <2> QED BY <1>3, <1>4, <1>6, <2>1 DEF Challenges
<1> QED BY <1>5, <1>6

LEMMA WidgetOK ==
  ASSUME widget \in {"none", "empty", "solved"}, NEW s, NEW reset \in BOOLEAN
  PROVE  /\ WidgetFor(s, reset) \in {"none", "empty", "solved"}
         /\ captchaShown(s) <=> WidgetFor(s, reset) # "none"
         /\ WidgetFor(s, reset) = "solved" => widget = "solved" /\ ~ reset
         /\ WidgetFor(s, reset) = "empty" => reset \/ widget \in {"none", "empty"}
         /\ ~ reset /\ captchaShown(s) /\ widget # "none" => WidgetFor(s, reset) = widget
  BY DEF WidgetFor

LEMMA EntersKeep ==
  ASSUME VerifyConstants, VerifySide, NEW c, c \in {ch, NewChallenge}, c.email # "none", Enter(c)
  PROVE  VerifySide'
<1>1. ChallengeOK(c)
  BY NewOK DEF VerifySide, VerifyInv
<1>2. /\ verifying' = TRUE /\ ch' = c /\ seen' = c /\ cooldown' = 0 /\ token' = "" /\ posting' = "no"
      /\ failed' = FALSE /\ UNCHANGED <<email_only, skew>>
      /\ widget' = (IF captchaShown(c) THEN "empty" ELSE "none")
      /\ doubt' = (IF c.retry > 0 THEN {"reload"} ELSE {})
  BY DEF Enter
<1>3. VerifyTypeOK'
  <2>1. c \in Challenges /\ 0 \in 0..Cooldown
    BY <1>1 DEF ChallengeOK, VerifyConstants
  <2>2. email_only' \in BOOLEAN /\ skew' \in Skews
    BY <1>2 DEF VerifySide, VerifyInv, VerifyTypeOK
  <2>3. doubt' \subseteq {"reload", "lost"} /\ widget' \in {"none", "empty", "solved"}
    BY <1>2
  <2> QED BY <1>2, <2>1, <2>2, <2>3 DEF VerifyTypeOK
<1>4. VerifyInv'
  BY <1>1, <1>2, <1>3 DEF VerifyInv, ChallengeOK
<1>5. PacedInv'
  BY <1>2 DEF PacedInv
<1>6. captchaShown(seen)' <=> captchaShown(c)
  BY <1>2 DEF captchaShown, emailNeedsWork
<1>7. WidgetInv'
  BY <1>2, <1>6 DEF WidgetInv
<1> QED BY <1>4, <1>5, <1>7 DEF VerifySide

LEMMA UnmountsKeep ==
  ASSUME VerifyConstants, VerifySide, Unmounts, ch' \in {ch, NoChallenge}
  PROVE  VerifySide'
<1>1. ChallengeOK(ch)' /\ ChallengeOK(NoChallenge)
  BY NewOK DEF VerifySide, VerifyInv, ChallengeOK
<1>2. /\ verifying' = FALSE /\ seen' = NoChallenge /\ cooldown' = 0 /\ token' = "" /\ posting' = "no"
      /\ widget' = "none" /\ doubt' = {} /\ failed' = FALSE /\ UNCHANGED <<email_only, skew>>
  BY DEF Unmounts
<1>3. VerifyTypeOK'
  <2>1. ch' \in Challenges /\ NoChallenge \in Challenges /\ 0 \in 0..Cooldown
    BY <1>1 DEF ChallengeOK, VerifyConstants
  <2>2. email_only' \in BOOLEAN /\ skew' \in Skews
    BY <1>2 DEF VerifySide, VerifyInv, VerifyTypeOK
  <2> QED BY <1>2, <2>1, <2>2 DEF VerifyTypeOK
<1> QED BY <1>1, <1>2, <1>3 DEF VerifySide, VerifyInv, PacedInv, WidgetInv

LEMMA SameVerify == ASSUME VerifySide, UNCHANGED verify PROVE VerifySide'
<1>1. UNCHANGED <<verifying, email_only, skew, ch, seen, cooldown, token, widget, posting, doubt, failed>>
  BY DEF verify
<1>2. VerifyInv'
  BY <1>1 DEF VerifySide, VerifyInv, VerifyTypeOK, ChallengeOK, emailNeedsWork
<1>3. PacedInv'
  BY <1>1 DEF VerifySide, PacedInv
<1>4. WidgetInv'
  BY <1>1 DEF VerifySide, WidgetInv, captchaShown, emailNeedsWork
<1> QED BY <1>2, <1>3, <1>4 DEF VerifySide
(* The captcha, solved or run out.                                         *)
LEMMA CaptchaKeeps ==
  ASSUME VerifySide, Solve \/ Lapse
  PROVE  VerifySide'
<1>1. /\ verifying /\ UNCHANGED <<verifying, email_only, skew, ch, seen, cooldown, posting, doubt, failed>>
      /\ \/ widget = "empty" /\ widget' = "solved" /\ token' = "fresh"
         \/ widget = "solved" /\ widget' = "empty" /\ token' = ""
  BY DEF Solve, Lapse
<1>2. VerifyInv'
  BY <1>1 DEF VerifySide, VerifyInv, VerifyTypeOK, ChallengeOK, emailNeedsWork
<1>3. PacedInv'
  BY <1>1 DEF VerifySide, PacedInv
<1>4. captchaShown(seen)' <=> captchaShown(seen)
  BY <1>1 DEF captchaShown, emailNeedsWork
<1>5. WidgetInv'
  BY <1>1, <1>4 DEF VerifySide, WidgetInv
<1> QED BY <1>2, <1>3, <1>5 DEF VerifySide

(* The page asks for a mail only when nothing is left of either countdown; *)
(* if it knows the challenge, the server has none either, but for a clock  *)
(* that is ahead and a countdown that a reload forgot.                     *)
LEMMA AskKeeps ==
  ASSUME VerifyConstants, VerifySide, SendCode
  PROVE  VerifySide'
<1>1. /\ verifying /\ posting = "no" /\ emailNeedsWork(seen) /\ remainingCooldown = 0
      /\ posting' = token /\ failed' = FALSE
      /\ UNCHANGED <<verifying, email_only, skew, ch, seen, cooldown, token, widget, doubt>>
  BY DEF SendCode
<1>2. cooldown \in 0..Cooldown /\ skew \in Int /\ Cooldown \in Nat /\ seen \in Challenges /\ ch \in Challenges
  BY DEF VerifySide, VerifyInv, VerifyTypeOK, VerifyConstants
<1>3. seen.retry \in Int /\ ch.retry \in Int
  <2>1. Past \in Int
    BY PastOK
  <2>2. seen.retry \in Past..Cooldown /\ ch.retry \in Past..Cooldown
    BY <1>2 DEF Challenges
  <2> QED BY <1>2, <2>1, <2>2
<1>4. seen.retry - skew =< 0 /\ cooldown = 0
  <2>1. remainingCooldown = 0 /\ cooldown \in Nat
    BY <1>1, <1>2
  <2> QED BY <1>2, <1>3, <2>1 DEF remainingCooldown, wait
<1>5. ch.retry > 0 => "lost" \in doubt \/ (skew > 0 /\ "reload" \in doubt)
  <2> SUFFICES ASSUME ch.retry > 0, "lost" \notin doubt PROVE skew > 0 /\ "reload" \in doubt
    OBVIOUS
  <2>1. seen = ch /\ ("reload" \in doubt \/ cooldown >= ch.retry)
    BY <1>1 DEF VerifySide, PacedInv
  <2> QED BY <1>2, <1>3, <1>4, <2>1
<1>6. VerifyInv'
  BY <1>1, <1>2 DEF VerifySide, VerifyInv, VerifyTypeOK, ChallengeOK, emailNeedsWork
<1>7. PacedInv'
  BY <1>1, <1>5 DEF VerifySide, PacedInv
<1>8. captchaShown(seen)' <=> captchaShown(seen)
  BY <1>1 DEF captchaShown, emailNeedsWork
<1>9. token \in {"", "fresh", "spent"}
  BY DEF VerifySide, VerifyInv, VerifyTypeOK
<1>10. WidgetInv'
  BY <1>1, <1>8, <1>9 DEF VerifySide, WidgetInv
<1> QED BY <1>6, <1>7, <1>10 DEF VerifySide

LEMMA AnswerKeeps ==
  ASSUME VerifyConstants, VerifySide, NEW o, SendAnswered(o)
  PROVE  VerifySide'
<1>1. /\ posting # "no" /\ o \in Outcomes /\ ch' = After(o) /\ seen' = After(o) /\ posting' = "no"
      /\ failed' = (o \notin {"sent", "trusted"})
      /\ doubt' = (CASE o = "sent" -> {} [] o = "failed" -> doubt \cup {"reload"} [] OTHER -> doubt)
      /\ UNCHANGED <<verifying, email_only, skew>>
  BY DEF SendAnswered
<1> DEFINE ok == o \in {"sent", "trusted"}
<1>2. /\ cooldown' = (IF ok THEN Cooldown ELSE cooldown)
      /\ token' = (IF ok THEN "" ELSE Spent(token))
      /\ widget' = WidgetFor(After(o), ok)
  BY <1>1 DEF SendAnswered, onSent
<1>3. VerifyTypeOK /\ ChallengeOK(ch) /\ verifying /\ ch.email # "none" /\ Cooldown \in Nat
  BY <1>1 DEF VerifySide, VerifyInv, VerifyConstants
<1>4. /\ ChallengeOK(After(o)) /\ After(o).email # "none" /\ After(o) \in Challenges
      /\ o \in {"sent", "failed"} => After(o).retry = Cooldown
      /\ o = "trusted" => After(o).retry =< 0
      /\ o \notin {"sent", "failed", "trusted"} => After(o) = ch
  BY <1>1, <1>3, AfterOK DEF ChallengeOK
<1>5. Spent(token) \in {"", "spent"} /\ (Spent(token) = "" => token = "")
  BY DEF Spent
<1>6. /\ widget' \in {"none", "empty", "solved"}
      /\ captchaShown(After(o)) <=> widget' # "none"
      /\ widget' = "solved" => widget = "solved" /\ ~ ok
  <2>1. ok \in BOOLEAN
    OBVIOUS
  <2> QED BY <1>2, <1>3, <2>1, WidgetOK DEF VerifyTypeOK
<1>7. VerifyTypeOK'
  <2>1. doubt' \subseteq {"reload", "lost"}
    BY <1>1, <1>3 DEF VerifyTypeOK
  <2>2. cooldown' \in {Cooldown, cooldown} /\ cooldown \in 0..Cooldown
    BY <1>2, <1>3 DEF VerifyTypeOK
  <2>3. cooldown' \in 0..Cooldown
    BY <1>3, <2>2
  <2>4. token' \in {"", "fresh", "spent"}
    BY <1>2, <1>5
  <2> QED BY <1>1, <1>3, <1>4, <1>6, <2>1, <2>3, <2>4 DEF VerifyTypeOK
<1>8. VerifyInv'
  BY <1>1, <1>3, <1>4, <1>7 DEF VerifyInv, ChallengeOK
<1>9. PacedInv'
  <2>1. After(o).retry \in Int
    BY <1>4, PastOK, <1>3 DEF Challenges
  <2>2. CASE o = "sent"
    <3>1. cooldown' = Cooldown /\ ch' = seen' /\ ch'.retry = Cooldown /\ posting' = "no"
      BY <1>1, <1>2, <1>4, <2>2
    <3> QED BY <1>3, <3>1 DEF PacedInv
  <2>3. CASE o = "failed"
    BY <1>1, <1>3, <1>4, <2>3 DEF PacedInv
  <2>4. CASE o = "trusted"
    BY <1>1, <1>4, <2>1, <2>4 DEF PacedInv
  <2>5. CASE o \notin {"sent", "failed", "trusted"}
    BY <1>1, <1>3, <1>4, <2>5 DEF VerifySide, PacedInv
  <2> QED BY <2>2, <2>3, <2>4, <2>5
<1>10. captchaShown(seen)' <=> captchaShown(After(o))
  BY <1>1 DEF captchaShown, emailNeedsWork
<1>11. WidgetInv'
  BY <1>1, <1>2, <1>3, <1>5, <1>6, <1>10 DEF VerifySide, WidgetInv
<1> QED BY <1>8, <1>9, <1>11 DEF VerifySide

LEMMA LossKeeps ==
  ASSUME VerifyConstants, VerifySide, SendLost
  PROVE  VerifySide'
<1>1. /\ posting # "no" /\ posting' = "no" /\ failed' = TRUE
      /\ doubt' = (IF ch' # ch THEN doubt \cup {"lost"} ELSE doubt)
      /\ UNCHANGED <<verifying, email_only, skew, seen, cooldown, widget>>
      /\ \/ ch' = ch /\ token' = token
         \/ \E o \in Outcomes : ch' = After(o) /\ token' = Spent(token)
  BY DEF SendLost
<1>2. VerifyTypeOK /\ ChallengeOK(ch) /\ verifying /\ ch.email # "none"
  BY <1>1 DEF VerifySide, VerifyInv
<1>3. ChallengeOK(ch') /\ ch'.email # "none" /\ ch' \in Challenges
  BY <1>1, <1>2, AfterOK DEF ChallengeOK
<1>4. token' \in {"", "fresh", "spent"} /\ (token' = "" => token = "")
  BY <1>1, <1>2 DEF Spent, VerifyTypeOK
<1>5. VerifyTypeOK'
  <2>1. doubt' \subseteq {"reload", "lost"}
    BY <1>1, <1>2 DEF VerifyTypeOK
  <2> QED BY <1>1, <1>2, <1>3, <1>4, <2>1 DEF VerifyTypeOK
<1>6. VerifyInv'
  BY <1>1, <1>2, <1>3, <1>5 DEF VerifyInv, ChallengeOK
<1>7. PacedInv'
  <2>1. CASE ch' = ch
    BY <1>1, <1>2, <2>1 DEF VerifySide, PacedInv
  <2>2. CASE ch' # ch
    BY <1>1, <2>2 DEF PacedInv
  <2> QED BY <2>1, <2>2
<1>8. captchaShown(seen)' <=> captchaShown(seen)
  BY <1>1 DEF captchaShown, emailNeedsWork
<1>9. WidgetInv'
  BY <1>1, <1>2, <1>4, <1>8 DEF VerifySide, WidgetInv
<1> QED BY <1>6, <1>7, <1>9 DEF VerifySide
LEMMA CodeKeeps ==
  ASSUME VerifyConstants, VerifySide, NEW right, VerifyCode(right)
  PROVE  VerifySide'
<1>1. /\ verifying /\ posting = "no" /\ seen.email = "sent" /\ seen' = ch'
      /\ widget' = WidgetFor(ch', FALSE)
      /\ UNCHANGED <<verifying, email_only, skew, cooldown, token, posting, doubt, failed>>
  BY DEF VerifyCode
<1>2. \/ ch' = ch
      \/ ch.email = "sent" /\ ch' = [ch EXCEPT !.email = "verified"]
      \/ /\ ch.email = "sent"
         /\ ch' = [ch EXCEPT !.tries = ch.tries + 1,
                             !.email = IF ch.tries + 1 = MaxTries THEN "locked" ELSE ch.email]
  BY DEF VerifyCode
<1>3. VerifyTypeOK /\ ChallengeOK(ch) /\ ch.email # "none"
  BY <1>1 DEF VerifySide, VerifyInv
<1>4. /\ ChallengeOK(ch') /\ ch' \in Challenges /\ ch'.email # "none" /\ ch'.retry = ch.retry
      /\ ch'.finalized = ch.finalized /\ ch'.email \in {ch.email, "verified", "locked"}
  <2>1. ch \in [email : EmailStates, retry : Past..Cooldown, life : Past..CodeLife,
                tries : 0..MaxTries, finalized : BOOLEAN]
    BY <1>3 DEF ChallengeOK, Challenges
  <2>2. CASE ch' = ch
    BY <1>3, <2>2 DEF ChallengeOK
  <2>3. CASE ch.email = "sent" /\ ch' = [ch EXCEPT !.email = "verified"]
    BY <2>1, <2>3 DEF ChallengeOK, Challenges, EmailStates
  <2>4. CASE /\ ch.email = "sent"
             /\ ch' = [ch EXCEPT !.tries = ch.tries + 1,
                                 !.email = IF ch.tries + 1 = MaxTries THEN "locked" ELSE ch.email]
    <3>1. ch.tries \in Nat /\ ch.tries < MaxTries /\ MaxTries \in Nat
      BY <1>3, <2>1, <2>4 DEF ChallengeOK, VerifyConstants
    <3>2. ch.tries + 1 \in 0..MaxTries /\ (ch.tries + 1 # MaxTries => ch.tries + 1 < MaxTries)
      BY <3>1
    <3>3. PICK t : t = ch.tries + 1
      OBVIOUS
    <3>4. PICK e : e = IF t = MaxTries THEN "locked" ELSE ch.email
      OBVIOUS
    <3>5. ch' = [ch EXCEPT !.tries = t, !.email = e]
      BY <2>4, <3>3, <3>4
    <3>6. /\ t \in 0..MaxTries /\ e \in {"locked", "sent"} /\ (e # "locked" => t < MaxTries)
      BY <2>4, <3>2, <3>3, <3>4
    <3> QED BY <2>1, <2>4, <3>5, <3>6 DEF ChallengeOK, Challenges, EmailStates
  <2> QED BY <1>2, <2>2, <2>3, <2>4
<1>5. /\ widget' \in {"none", "empty", "solved"}
      /\ captchaShown(ch') <=> widget' # "none"
      /\ widget' = "solved" => widget = "solved"
      /\ widget' = "empty" => widget \in {"none", "empty"}
      /\ captchaShown(ch') /\ widget # "none" => widget' = widget
  BY <1>1, <1>3, WidgetOK DEF VerifyTypeOK
<1>6. VerifyTypeOK'
  BY <1>1, <1>3, <1>4, <1>5 DEF VerifyTypeOK
<1>7. VerifyInv'
  BY <1>1, <1>4, <1>6 DEF VerifyInv, ChallengeOK
<1>8. PacedInv'
  BY <1>1, <1>4 DEF VerifySide, PacedInv
<1>9. captchaShown(seen)' <=> captchaShown(ch')
  BY <1>1 DEF captchaShown, emailNeedsWork
<1>10. widget = "none" /\ token = "fresh" => failed
  BY <1>1 DEF VerifySide, WidgetInv, emailNeedsWork
<1>11. ~ captchaShown(ch') /\ widget # "none" => failed \/ ~ emailNeedsWork(ch')
  <2> SUFFICES ASSUME ~ failed, widget # "none", ~ captchaShown(ch') PROVE ~ emailNeedsWork(ch')
    OBVIOUS
  <2>1. seen = ch /\ captchaShown(seen)
    BY <1>1 DEF VerifySide, WidgetInv
  <2> QED BY <1>4, <2>1 DEF captchaShown, emailNeedsWork
<1>12. WidgetInv'
  <2>1. /\ captchaShown(seen)' <=> widget' # "none"
        /\ widget' = "solved" => token' # ""
    BY <1>1, <1>5, <1>9 DEF VerifySide, WidgetInv
  <2>2. token = "spent" \/ (token = "fresh" /\ widget' = "empty") => failed
    BY <1>1, <1>5, <1>10 DEF VerifySide, WidgetInv
  <2>3. token = "fresh" /\ widget' = "none" => failed \/ ~ emailNeedsWork(ch')
    BY <1>5, <1>10, <1>11
  <2> QED BY <1>1, <2>1, <2>2, <2>3 DEF WidgetInv, emailNeedsWork
<1> QED BY <1>7, <1>8, <1>12 DEF VerifySide

LEMMA CompleteKeeps ==
  ASSUME VerifyConstants, VerifySide, Complete
  PROVE  VerifySide'
<1>1. /\ verifying /\ seen.email = "verified" /\ ch' = [ch EXCEPT !.finalized = TRUE] /\ seen' = ch'
      /\ UNCHANGED <<verifying, email_only, skew, cooldown, token, widget, posting, doubt, failed>>
  BY DEF Complete
<1>2. VerifyTypeOK /\ ChallengeOK(ch) /\ ch.email # "none" /\ posting = "no"
  BY <1>1 DEF VerifySide, VerifyInv, emailNeedsWork
<1>3. /\ ChallengeOK(ch') /\ ch' \in Challenges /\ ch'.email = ch.email /\ ch'.retry = ch.retry
      /\ ch'.finalized
  BY <1>1, <1>2 DEF ChallengeOK, Challenges
<1>4. VerifyTypeOK'
  BY <1>1, <1>2, <1>3 DEF VerifyTypeOK
<1>5. VerifyInv'
  BY <1>1, <1>2, <1>3, <1>4 DEF VerifyInv, ChallengeOK
<1>6. PacedInv'
  BY <1>1, <1>3 DEF VerifySide, PacedInv
<1>7. widget = "none" /\ ~ captchaShown(seen)'
  BY <1>1, <1>3 DEF VerifySide, WidgetInv, captchaShown, emailNeedsWork
<1>8. token = "fresh" => failed \/ ~ emailNeedsWork(ch')
  BY <1>1, <1>2, <1>3 DEF VerifySide, WidgetInv, emailNeedsWork
<1>9. token = "spent" => failed
  BY <1>1, <1>2 DEF VerifySide, WidgetInv
<1>10. WidgetInv'
  BY <1>1, <1>7, <1>8, <1>9 DEF WidgetInv, emailNeedsWork
<1> QED BY <1>5, <1>6, <1>10 DEF VerifySide

(* A tick takes one off both countdowns, or leaves the page's behind.      *)
LEMMA TickKeeps ==
  ASSUME VerifyConstants, VerifySide, Tick
  PROVE  VerifySide'
<1>1. /\ verifying /\ ch' = Older(ch) /\ seen' = Older(seen)
      /\ cooldown' \in {cooldown} \cup (IF cooldown > 0 THEN {cooldown - 1} ELSE {})
      /\ widget' = WidgetFor(Older(seen), FALSE)
      /\ doubt' = (IF ch'.retry > 0 THEN doubt ELSE {})
      /\ UNCHANGED <<verifying, email_only, skew, token, posting, failed>>
  BY DEF Tick
<1>2. /\ VerifyTypeOK /\ ChallengeOK(ch) /\ ch.email # "none" /\ ch \in Challenges /\ seen \in Challenges
      /\ cooldown \in 0..Cooldown /\ Cooldown \in Nat /\ skew \in Int
  BY <1>1 DEF VerifySide, VerifyInv, VerifyTypeOK, VerifyConstants
<1>3. /\ Older(ch) \in Challenges /\ Older(ch).email = ch.email /\ Older(ch).tries = ch.tries
      /\ Older(ch).retry > 0 => Older(ch).retry = ch.retry - 1
      /\ Older(seen) \in Challenges /\ Older(seen).email = seen.email
      /\ Older(seen).finalized = seen.finalized /\ Older(seen).retry =< seen.retry
  BY <1>2, OlderOK
<1>4. /\ ch.retry \in Int /\ seen.retry \in Int /\ Older(ch).retry \in Int /\ Older(seen).retry \in Int
  <2>1. Past \in Int
    BY PastOK
  <2>2. \A c \in Challenges : c.retry \in Past..Cooldown
    BY DEF Challenges
  <2> QED BY <1>2, <1>3, <2>1, <2>2
<1>5. cooldown' \in 0..Cooldown /\ cooldown' >= cooldown - 1
  BY <1>1, <1>2
<1>6. /\ widget' \in {"none", "empty", "solved"}
      /\ captchaShown(Older(seen)) <=> widget' # "none"
      /\ widget' = "solved" => widget = "solved"
      /\ widget' = "empty" => widget \in {"none", "empty"}
      /\ captchaShown(Older(seen)) /\ widget # "none" => widget' = widget
  BY <1>1, <1>2, WidgetOK DEF VerifyTypeOK
<1>7. VerifyTypeOK'
  <2>1. doubt' \subseteq {"reload", "lost"}
    BY <1>1, <1>2 DEF VerifyTypeOK
  <2> QED BY <1>1, <1>2, <1>3, <1>5, <1>6, <2>1 DEF VerifyTypeOK
<1>8. VerifyInv'
  <2>1. ChallengeOK(ch')
    BY <1>1, <1>2, <1>3 DEF ChallengeOK
  <2>2. ChallengeOK(ch)' /\ ch'.email # "none"
    BY <1>1, <1>2, <1>3, <2>1 DEF ChallengeOK
  <2>3. posting' # "no" => verifying' /\ emailNeedsWork(seen)'
    BY <1>1, <1>3 DEF VerifySide, VerifyInv, emailNeedsWork
  <2> QED BY <1>7, <2>2, <2>3 DEF VerifyInv
<1>9. PacedInv'
  <2>1. CASE ~ (Older(ch).retry > 0)
    BY <1>1, <2>1 DEF PacedInv
  <2>2. CASE Older(ch).retry > 0
    <3>1. ch.retry > 0 /\ ch'.retry = ch.retry - 1 /\ doubt' = doubt
      BY <1>1, <1>3, <1>4, <2>2
    <3>2. cooldown >= ch.retry => cooldown' >= ch'.retry
      BY <1>2, <1>4, <1>5, <3>1
    <3>3. seen = ch => seen' = ch'
      BY <1>1
    <3> QED BY <1>1, <3>1, <3>2, <3>3 DEF VerifySide, PacedInv
  <2> QED BY <2>1, <2>2
<1>10. captchaShown(seen)' <=> captchaShown(Older(seen))
  BY <1>1 DEF captchaShown, emailNeedsWork
<1>11. captchaShown(seen) => captchaShown(Older(seen))
  BY <1>2, <1>3, <1>4 DEF captchaShown, emailNeedsWork
<1>12. emailNeedsWork(seen)' <=> emailNeedsWork(seen)
  BY <1>1, <1>3 DEF emailNeedsWork
<1>13. captchaShown(Older(seen)) => emailNeedsWork(seen)
  BY <1>3 DEF captchaShown, emailNeedsWork
<1>14. seen = ch \/ failed => (seen = ch \/ failed)'
  BY <1>1
<1>15. WidgetInv'
  <2>1. /\ captchaShown(seen)' <=> widget' # "none"
        /\ widget' = "solved" => token' # ""
    BY <1>1, <1>6, <1>10 DEF VerifySide, WidgetInv
  <2>2. posting = "no" => (token = "spent" \/ (token = "fresh" /\ widget' = "empty") => failed)
    BY <1>1, <1>6, <1>13 DEF VerifySide, WidgetInv
  <2>3. posting = "no" => (token = "fresh" /\ widget' = "none" => failed \/ ~ emailNeedsWork(seen))
    BY <1>1, <1>6, <1>11 DEF VerifySide, WidgetInv
  <2> QED BY <1>1, <1>12, <1>14, <2>1, <2>2, <2>3 DEF VerifySide, WidgetInv
<1> QED BY <1>8, <1>9, <1>15 DEF VerifySide

LEMMA VerifyingKeeps ==
  ASSUME VerifyConstants, VerifySide, Verifying
  PROVE  VerifySide'
<1>1. CASE Reload
  BY <1>1, EntersKeep DEF Reload, VerifySide, VerifyInv
<1>2. CASE \E o \in {"captcha", "refused", "too early", "sent", "failed", "trusted"} : SendAnswered(o)
  BY <1>2, AnswerKeeps
<1>3. CASE \E right \in BOOLEAN : VerifyCode(right)
  BY <1>3, CodeKeeps
<1> QED BY <1>1, <1>2, <1>3, CaptchaKeeps, AskKeeps, LossKeeps, CompleteKeeps, TickKeeps DEF Verifying
LEMMA DeviceStarts == ASSUME PublicConstants, DeviceInit PROVE DeviceInv
<1>1. PICK setup \in Setups : form = setup[1] /\ reqs = setup[2] /\ skew = setup[3]
  BY DEF DeviceInit
<1>2. /\ setup = <<form, reqs, skew>> /\ skew \in Skews /\ VerifyConstants
  BY <1>1 DEF PublicConstants
<1>3. /\ open = FALSE /\ data = Blank /\ cur = 1 /\ max = 1
      /\ srvErr = {} /\ sending = NoForm /\ draft = NoDraft
      /\ person \in People /\ by = {} /\ draftBy = {} /\ owner = "nobody" /\ confirmed = {}
  BY DEF DeviceInit
<1>4. SetupInv
  BY <1>1, <1>2, <1>3 DEF SetupInv
<1>5. FormInv
  <2>1. IsForm(data)
    BY <1>3, BlankForm
  <2>2. cur \in 1..3 /\ max \in 1..3
    BY DEF DeviceInit
  <2> QED BY <1>3, <2>1, <2>2, Zenon DEF FormInv
<1>6. PeopleInv /\ ConsentInv
  BY <1>3 DEF PeopleInv, ConsentInv
<1>7. /\ verifying = FALSE /\ email_only \in BOOLEAN /\ ch = NoChallenge /\ seen = NoChallenge
      /\ cooldown = 0 /\ token = "" /\ widget = "none" /\ posting = "no" /\ doubt = {} /\ failed = FALSE
  BY DEF DeviceInit, VerifyInit
<1>8. ChallengeOK(NoChallenge) /\ NoChallenge.email = "none" /\ 0 \in 0..Cooldown
  BY <1>2, NewOK DEF NoChallenge, VerifyConstants
<1>9. VerifyTypeOK
  BY <1>2, <1>7, <1>8 DEF VerifyTypeOK, ChallengeOK
<1>10. VerifySide /\ OwnerInv
  BY <1>7, <1>8, <1>9 DEF VerifySide, VerifyInv, PacedInv, WidgetInv, OwnerInv
<1> QED BY <1>4, <1>5, <1>6, <1>10 DEF DeviceInv, FormSide

FormGesture ==
  \/ Consent \/ EditPerson \/ EditContact \/ chooseTshirt \/ setResponse \/ EditEmergency
  \/ handleNext \/ handleBack \/ (\E i \in 1..Len(steps) : handleStepJump(i)) \/ submit

LEMMA FormSteps ==
  ASSUME PublicConstants, DeviceInv, [DeviceNext]_deviceVars
  PROVE  FormSide'
<1> USE DEF DeviceInv
<1>1. CASE FormGesture
  <2>1. (\E g : onCommonChange(g)) \/ handleNext \/ handleBack
        \/ (\E i \in 1..Len(steps) : handleStepJump(i)) \/ submit
    BY <1>1 DEF FormGesture, Consent, EditPerson, EditContact, chooseTshirt, setResponse, EditEmergency
  <2> QED BY <2>1, ChangeKeeps, StepsKeep
<1>2. CASE begun \/ Refused \/ Unanswered
  BY <1>2, AnswersKeep
<1>3. CASE \/ Open \/ Leave \/ Expire \/ Verifying \/ ReturnToForm \/ ReturnToVerify
           \/ LeaveVerify \/ Confirm \/ NextPerson
  BY <1>3, PagesKeep DEF VerifySide
<1>4. CASE UNCHANGED deviceVars
  <2>1. /\ UNCHANGED <<page, event>> /\ skew' = skew /\ verifying' = verifying /\ draft' = draft
        /\ UNCHANGED <<person, by, draftBy, ticked, owner, confirmed>> /\ open' = open
    BY <1>4 DEF deviceVars, verify, history, page
  <2>2. PeopleInv'
    BY <2>1 DEF FormSide, PeopleInv
  <2> QED BY <2>1, <2>2, ApartKeeps DEF FormSide, SetupInv
<1> QED BY <1>1, <1>2, <1>3, <1>4 DEF DeviceNext, FormGesture

LEMMA VerifySteps ==
  ASSUME PublicConstants, DeviceInv, [DeviceNext]_deviceVars
  PROVE  VerifySide' /\ OwnerInv'
<1>0. VerifyConstants /\ VerifySide /\ OwnerInv /\ NewChallenge.email # "none" /\ NoChallenge.email = "none"
  BY NewOK DEF PublicConstants, DeviceInv, NoChallenge
<1>1. CASE UNCHANGED verify /\ UNCHANGED owner
  BY <1>0, <1>1, SameVerify DEF verify, OwnerInv
<1>2. CASE begun
  BY <1>0, <1>2, EntersKeep DEF begun, OwnerInv, DeviceInv, FormSide, PeopleInv
<1>3. CASE Verifying
  <2>1. ch.email # "none" /\ owner' = owner
    BY <1>0, <1>3, VerifyingSteps DEF VerifySide, VerifyInv, history
  <2> QED BY <1>0, <1>3, <2>1, VerifyingKeeps DEF OwnerInv
<1>4. CASE Unmounts /\ ch' \in {ch, NoChallenge} /\ owner' = owner
  BY <1>0, <1>4, UnmountsKeep DEF OwnerInv
<1>5. CASE ReturnToVerify
  BY <1>0, <1>5, EntersKeep DEF ReturnToVerify, OwnerInv, Enter, history
<1>6. CASE Confirm
  BY <1>1, <1>4, <1>6 DEF Confirm
<1>7. CASE ReturnToForm \/ LeaveVerify
  BY <1>4, <1>7 DEF ReturnToForm, LeaveVerify, history
<1>8. CASE FormGesture
  BY <1>1, <1>8 DEF FormGesture, Consent, EditPerson, EditContact, chooseTshirt, setResponse, EditEmergency,
                    onCommonChange, handleNext, handleBack, handleStepJump, submit, history
<1>9. CASE Open \/ Leave \/ Expire \/ Refused \/ Unanswered \/ NextPerson
  BY <1>1, <1>9 DEF Open, Leave, Expire, Refused, Unanswered, NextPerson, history
<1>10. CASE UNCHANGED deviceVars
  BY <1>1, <1>10 DEF deviceVars, history
<1> QED BY <1>2, <1>3, <1>5, <1>6, <1>7, <1>8, <1>9, <1>10 DEF DeviceNext, FormGesture

LEMMA DeviceAlways == DeviceSpec => []DeviceInv
<1>1. DeviceInit => DeviceInv
  BY DeviceStarts, PublicAssumption
<1>2. DeviceInv /\ [DeviceNext]_deviceVars => DeviceInv'
  BY FormSteps, VerifySteps, PublicAssumption DEF DeviceInv
<1> QED BY <1>1, <1>2, PTL DEF DeviceSpec

(* What the server refuses of the personal step.                           *)
LEMMA PersonalServer ==
  ASSUME NEW kind \in Forms, NEW must \in Requirements
  PROVE  Covered(serverPersonal(kind, must), personalTable(kind, must), ServerOnly(kind))
<1> SUFFICES ASSUME NEW f \in DOMAIN serverPersonal(kind, must)
             PROVE  serverPersonal(kind, must)[f] \subseteq Texts(personalTable(kind, must), f) \cup Texts(ServerOnly(kind), f)
  BY DEF Covered
<1>1. f \in {"first_name", "suffix", "email", "contact_number", "birthday", "address", "guardian_contact", "tshirt_choice", "responses"}
  BY DEF personalTable, validatePersonal, churchPersonal, serverPersonal
<1> USE DEF Forms, Where, validateNameValue, nameKeys, validateContactNumber, notMobile,
            validateAddress, validateBirthday, EMAIL_PATTERN, validateResponses, validateType,
            personNameRules, shortName, addressQualityRules, Texts
<1> USE DEF personalTable, validatePersonal, churchPersonal, serverPersonal, ServerOnly
<1>2. CASE f = "first_name"
  <2>1. CASE kind = "v1"
    BY <1>2, <2>1
  <2>2. CASE kind = "v2"
    BY <1>2, <2>2
  <2>3. CASE kind = "church"
    BY <1>2, <2>3
  <2> QED BY <2>1, <2>2, <2>3
<1>3. CASE f = "suffix"
  <2>1. CASE kind = "v1"
    BY <1>3, <2>1
  <2>2. CASE kind = "v2"
    BY <1>3, <2>2
  <2>3. CASE kind = "church"
    BY <1>3, <2>3
  <2> QED BY <2>1, <2>2, <2>3
<1>4. CASE f = "email"
  <2>1. CASE kind = "v1"
    BY <1>4, <2>1
  <2>2. CASE kind = "v2"
    BY <1>4, <2>2
  <2>3. CASE kind = "church"
    BY <1>4, <2>3
  <2> QED BY <2>1, <2>2, <2>3
<1>5. CASE f = "contact_number"
  <2>1. CASE kind = "v1"
    BY <1>5, <2>1
  <2>2. CASE kind = "v2"
    BY <1>5, <2>2
  <2>3. CASE kind = "church"
    BY <1>5, <2>3
  <2> QED BY <2>1, <2>2, <2>3
<1>6. CASE f = "birthday"
  <2>1. CASE kind = "v1"
    BY <1>6, <2>1
  <2>2. CASE kind = "v2"
    BY <1>6, <2>2
  <2>3. CASE kind = "church"
    BY <1>6, <2>3
  <2> QED BY <2>1, <2>2, <2>3
<1>7. CASE f = "address"
  <2>1. CASE kind = "v1"
    BY <1>7, <2>1
  <2>2. CASE kind = "v2"
    <3>1. required(kind, must, "address") = {""}
      BY <2>2 DEF required, isRequired
    <3>2. serverPersonal(kind, must)[f] = required(kind, must, "address") \cup {"tiny", "lengthy", "long"}
      BY <1>7, <2>2
    <3>3. {"", "tiny", "lengthy", "long"} \subseteq Texts(personalTable(kind, must), f)
      BY <1>7, <2>2, <3>1
    <3> HIDE DEF Texts, serverPersonal, personalTable, ServerOnly
    <3> QED BY <3>1, <3>2, <3>3
  <2>3. CASE kind = "church"
    BY <1>7, <2>3
  <2> QED BY <2>1, <2>2, <2>3
<1>8. CASE f = "guardian_contact"
  <2>1. CASE kind = "v1"
    BY <1>8, <2>1
  <2>2. CASE kind = "v2"
    BY <1>8, <2>2
  <2>3. CASE kind = "church"
    BY <1>8, <2>3
  <2> QED BY <2>1, <2>2, <2>3
<1>9. CASE f = "tshirt_choice"
  <2>1. CASE "tshirt_choice" \in must
    BY <1>9, <2>1
  <2>2. CASE "tshirt_choice" \notin must
    BY <1>9, <2>2
  <2> QED BY <2>1, <2>2
<1>10. CASE f = "responses"
  <2>1. CASE kind = "v1"
    <3>1. CASE "responses" \in must
      BY <1>10, <2>1, <3>1
    <3>2. CASE "responses" \notin must
      BY <1>10, <2>1, <3>2
    <3> QED BY <3>1, <3>2
  <2>2. CASE kind = "v2"
    <3>1. CASE "responses" \in must
      BY <1>10, <2>2, <3>1
    <3>2. CASE "responses" \notin must
      BY <1>10, <2>2, <3>2
    <3> QED BY <3>1, <3>2
  <2>3. CASE kind = "church"
    BY <1>10, <2>3
  <2> QED BY <2>1, <2>2, <2>3
<1> QED BY <1>1, <1>2, <1>3, <1>4, <1>5, <1>6, <1>7, <1>8, <1>9, <1>10

(* What the browser refuses of it.                                         *)
LEMMA PersonalBrowser ==
  ASSUME NEW kind \in Forms, NEW must \in Requirements
  PROVE  Covered(personalTable(kind, must), serverPersonal(kind, must), BrowserOnly(kind))
<1> SUFFICES ASSUME NEW f \in DOMAIN personalTable(kind, must)
             PROVE  personalTable(kind, must)[f] \subseteq Texts(serverPersonal(kind, must), f) \cup Texts(BrowserOnly(kind), f)
  BY DEF Covered
<1>1. f \in {"first_name", "suffix", "email", "contact_number", "birthday", "address", "tshirt_choice", "responses"}
  BY DEF personalTable, validatePersonal, churchPersonal, serverPersonal
<1> USE DEF Forms, Where, validateNameValue, nameKeys, validateContactNumber, notMobile,
            validateAddress, validateBirthday, EMAIL_PATTERN, validateResponses, validateType,
            personNameRules, shortName, addressQualityRules, Texts
<1> USE DEF personalTable, validatePersonal, churchPersonal, serverPersonal, BrowserOnly
<1>2. CASE f = "first_name"
  <2>1. CASE kind = "v1"
    BY <1>2, <2>1
  <2>2. CASE kind = "v2"
    BY <1>2, <2>2
  <2>3. CASE kind = "church"
    BY <1>2, <2>3
  <2> QED BY <2>1, <2>2, <2>3
<1>3. CASE f = "suffix"
  <2>1. CASE kind = "v1"
    BY <1>3, <2>1
  <2>2. CASE kind = "v2"
    BY <1>3, <2>2
  <2>3. CASE kind = "church"
    BY <1>3, <2>3
  <2> QED BY <2>1, <2>2, <2>3
<1>4. CASE f = "email"
  <2>1. CASE kind = "v1"
    BY <1>4, <2>1
  <2>2. CASE kind = "v2"
    BY <1>4, <2>2
  <2>3. CASE kind = "church"
    BY <1>4, <2>3
  <2> QED BY <2>1, <2>2, <2>3
<1>5. CASE f = "contact_number"
  <2>1. CASE kind = "v1"
    BY <1>5, <2>1
  <2>2. CASE kind = "v2"
    BY <1>5, <2>2
  <2>3. CASE kind = "church"
    BY <1>5, <2>3
  <2> QED BY <2>1, <2>2, <2>3
<1>6. CASE f = "birthday"
  <2>1. CASE kind = "v1"
    BY <1>6, <2>1
  <2>2. CASE kind = "v2"
    BY <1>6, <2>2
  <2>3. CASE kind = "church"
    BY <1>6, <2>3
  <2> QED BY <2>1, <2>2, <2>3
<1>7. CASE f = "address"
  <2>1. CASE kind = "v1"
    BY <1>7, <2>1
  <2>2. CASE kind = "v2"
    <3>1. required(kind, must, "address") = {""}
      BY <2>2 DEF required, isRequired
    <3>2. personalTable(kind, must)[f] \subseteq {"", "tiny", "lengthy", "long", "wide", "short", "junk"}
      BY <1>7, <2>2, <3>1
    <3>3. Texts(serverPersonal(kind, must), f) = required(kind, must, "address") \cup {"tiny", "lengthy", "long"}
      BY <1>7, <2>2
    <3>4. Texts(BrowserOnly(kind), f) = {"wide", "short", "junk"}
      BY <1>7, <2>2
    <3> HIDE DEF Texts, serverPersonal, personalTable, BrowserOnly
    <3> QED BY <3>1, <3>2, <3>3, <3>4
  <2>3. CASE kind = "church"
    BY <1>7, <2>3
  <2> QED BY <2>1, <2>2, <2>3
<1>8. CASE f = "tshirt_choice"
  <2>1. CASE "tshirt_choice" \in must
    BY <1>8, <2>1
  <2>2. CASE "tshirt_choice" \notin must
    BY <1>8, <2>2
  <2> QED BY <2>1, <2>2
<1>9. CASE f = "responses"
  <2>1. CASE kind = "v1"
    <3>1. CASE "responses" \in must
      BY <1>9, <2>1, <3>1
    <3>2. CASE "responses" \notin must
      BY <1>9, <2>1, <3>2
    <3> QED BY <3>1, <3>2
  <2>2. CASE kind = "v2"
    <3>1. CASE "responses" \in must
      BY <1>9, <2>2, <3>1
    <3>2. CASE "responses" \notin must
      BY <1>9, <2>2, <3>2
    <3> QED BY <3>1, <3>2
  <2>3. CASE kind = "church"
    BY <1>9, <2>3
  <2> QED BY <2>1, <2>2, <2>3
<1> QED BY <1>1, <1>2, <1>3, <1>4, <1>5, <1>6, <1>7, <1>8, <1>9

(* The same of the emergency step.                                         *)
LEMMA EmergencyServer ==
  ASSUME NEW kind \in Forms, NEW other \in BOOLEAN
  PROVE  Covered(serverEmergency(kind, other), emergencyTable(kind, other), ServerOnly(kind))
<1> SUFFICES ASSUME NEW f \in DOMAIN serverEmergency(kind, other)
             PROVE  serverEmergency(kind, other)[f] \subseteq Texts(emergencyTable(kind, other), f) \cup Texts(ServerOnly(kind), f)
  BY DEF Covered
<1>1. f \in {"emergency_contact_name", "emergency_contact_relationship", "emergency_contact_relationship_other", "emergency_contact_number"}
  BY DEF emergencyTable, validateEmergency, validateEmergency_NoOther, churchEmergency, serverEmergency
<1> USE DEF Forms, Where, validateNameValue, nameKeys, notMobile, personNameRules, shortName, Texts
<1> USE DEF emergencyTable, validateEmergency, validateEmergency_NoOther, churchEmergency, serverEmergency, ServerOnly
<1>2. CASE f = "emergency_contact_name"
  <2>1. CASE kind = "v1"
    BY <1>2, <2>1
  <2>2. CASE kind = "v2"
    BY <1>2, <2>2
  <2>3. CASE kind = "church"
    BY <1>2, <2>3
  <2> QED BY <2>1, <2>2, <2>3
<1>3. CASE f = "emergency_contact_relationship"
  <2>1. CASE kind = "v1"
    BY <1>3, <2>1
  <2>2. CASE kind = "v2"
    BY <1>3, <2>2
  <2>3. CASE kind = "church"
    BY <1>3, <2>3
  <2> QED BY <2>1, <2>2, <2>3
<1>4. CASE f = "emergency_contact_relationship_other"
  <2>1. CASE kind = "v1"
    BY <1>4, <2>1
  <2>2. CASE kind = "v2"
    <3>1. CASE other
      BY <1>4, <2>2, <3>1
    <3>2. CASE ~ other
      BY <1>4, <2>2, <3>2
    <3> QED BY <3>1, <3>2
  <2>3. CASE kind = "church"
    BY <1>4, <2>3
  <2> QED BY <2>1, <2>2, <2>3
<1>5. CASE f = "emergency_contact_number"
  BY <1>5
<1> QED BY <1>1, <1>2, <1>3, <1>4, <1>5

(* And of the browser there.                                               *)
LEMMA EmergencyBrowser ==
  ASSUME NEW kind \in Forms, NEW other \in BOOLEAN
  PROVE  Covered(emergencyTable(kind, other), serverEmergency(kind, other), BrowserOnly(kind))
<1> SUFFICES ASSUME NEW f \in DOMAIN emergencyTable(kind, other)
             PROVE  emergencyTable(kind, other)[f] \subseteq Texts(serverEmergency(kind, other), f) \cup Texts(BrowserOnly(kind), f)
  BY DEF Covered
<1>1. f \in {"emergency_contact_name", "emergency_contact_relationship", "emergency_contact_relationship_other", "emergency_contact_number"}
  BY DEF emergencyTable, validateEmergency, validateEmergency_NoOther, churchEmergency, serverEmergency
<1> USE DEF Forms, Where, validateNameValue, nameKeys, notMobile, personNameRules, shortName, Texts
<1> USE DEF emergencyTable, validateEmergency, validateEmergency_NoOther, churchEmergency, serverEmergency, BrowserOnly
<1>2. CASE f = "emergency_contact_name"
  <2>1. CASE kind = "v1"
    BY <1>2, <2>1
  <2>2. CASE kind = "v2"
    BY <1>2, <2>2
  <2>3. CASE kind = "church"
    BY <1>2, <2>3
  <2> QED BY <2>1, <2>2, <2>3
<1>3. CASE f = "emergency_contact_relationship"
  <2>1. CASE kind = "v1"
    BY <1>3, <2>1
  <2>2. CASE kind = "v2"
    BY <1>3, <2>2
  <2>3. CASE kind = "church"
    BY <1>3, <2>3
  <2> QED BY <2>1, <2>2, <2>3
<1>4. CASE f = "emergency_contact_relationship_other"
  <2>1. CASE kind = "v1"
    BY <1>4, <2>1
  <2>2. CASE kind = "v2"
    BY <1>4, <2>2
  <2>3. CASE kind = "church"
    BY <1>4, <2>3
  <2> QED BY <2>1, <2>2, <2>3
<1>5. CASE f = "emergency_contact_number"
  BY <1>5
<1> QED BY <1>1, <1>2, <1>3, <1>4, <1>5

LEMMA AllMirrored == ASSUME NEW kind \in Forms PROVE Mirrored(kind)
<1>1. ASSUME NEW must \in Requirements, NEW email \in {"", "good"}, NEW number,
             noIdentity(kind, must, email, number), kind # "v1"
      PROVE  email \in personalTable(kind, must).email
  BY <1>1 DEF Forms, noIdentity, isRequired, personalTable, churchPersonal, validatePersonal, required, Where
<1> QED BY <1>1, PersonalServer, PersonalBrowser, EmergencyServer, EmergencyBrowser DEF Mirrored, Mirror

(* Whatever the server refuses has a step, but for "identity".             *)
LEMMA RulesOwned ==
  ASSUME NEW d PROVE serverRules(d) \subseteq {"identity"} \cup steps[1] \cup steps[2] \cup steps[3]
<1>1. Failing(serverPersonal(form, reqs), d.personal) \subseteq steps[2]
  <2> SUFFICES ASSUME NEW f \in DOMAIN serverPersonal(form, reqs), serverPersonal(form, reqs)[f] # {}
               PROVE  f \in steps[2]
    BY DEF Failing
  <2>1. f \notin {"guardian_contact", "tshirt_choice", "responses"} => f \in steps[2]
    BY DEF serverPersonal, steps
  <2>2. f = "guardian_contact" => form = "church"
    BY DEF serverPersonal, Where
  <2>3. f = "tshirt_choice" => form # "church"
    <3>1. serverPersonal(form, reqs).tshirt_choice
            = Where(form # "church" /\ "tshirt_choice" \in reqs, {""})
      BY DEF serverPersonal
    <3> QED BY <3>1 DEF Where
  <2>4. f = "responses" => form # "church"
    BY DEF serverPersonal, Where
  <2> QED BY <2>1, <2>2, <2>3, <2>4 DEF steps
<1>2. Failing(serverEmergency(form, RelationOther(d)), d.emergency) \subseteq steps[3]
  BY DEF Failing, serverEmergency, steps
<1>3. "consent_accepted" \in steps[1]
  BY DEF steps
<1> QED BY <1>1, <1>2, <1>3 DEF serverRules, serverRules_NoConsent, Where

(* The variables have their types, and the page of the code lets its       *)
(* visitor get on: the captcha is there while a mail may be asked for, and *)
(* a token that is of no use any more comes with a message.                *)
THEOREM DeviceStaysInOrder == DeviceSpec => []DeviceConsistent
<1>1. DeviceInv => DeviceTypeOK
  BY DEF DeviceInv, FormSide, SetupInv, FormInv, PeopleInv, VerifySide, VerifyInv, DeviceTypeOK
<1>2. DeviceInv => CaptchaConsistent
  BY DEF DeviceInv, VerifySide, WidgetInv, CaptchaConsistent
<1> QED BY <1>1, <1>2, DeviceAlways, PTL DEF DeviceConsistent

(* Nothing that the owner of a confirmed registration entered is left in   *)
(* the form or the draft that the next person finds on the device.         *)
THEOREM NothingIsLeft == DeviceSpec => []ConfirmedLeavesNothing
<1>1. DeviceInv => ConfirmedLeavesNothing
  BY DEF DeviceInv, FormSide, PeopleInv, ConfirmedLeavesNothing
<1> QED BY <1>1, DeviceAlways, PTL

(* The rules of the browser and those of the server mirror each other but  *)
(* for the texts that ServerOnly and BrowserOnly name, on all three forms  *)
(* and whatever the organizer requires.                                    *)
THEOREM RulesStayMirrored == DeviceSpec => []RulesMirror
<1>1. Mirrors = Forms
  BY AllMirrored DEF Mirrors
<1>2. DeviceInv => form \in Forms
  BY PublicAssumption DEF DeviceInv, FormSide, SetupInv, PublicConstants
<1>3. DeviceInv => RulesMirror
  BY <1>1, <1>2 DEF RulesMirror
<1> QED BY <1>3, DeviceAlways, PTL

(* A church registration is begun only with a consent that was given on    *)
(* this visit of the form and not taken back.                              *)
THEOREM ConsentIsGiven == DeviceSpec => ConsentGivenHere
<1>1. ASSUME DeviceInv, begun, form = "church" PROVE ticked
  <2>1. sending # NoForm /\ serverRules(sending) = {} /\ open
    BY <1>1 DEF begun, DeviceInv, FormSide, FormInv
  <2>2. sending.disclaimer.consent_accepted
    BY <1>1, <2>1 DEF serverRules, Where
  <2> QED BY <1>1, <2>1, <2>2 DEF DeviceInv, FormSide, ConsentInv
<1> QED BY <1>1, DeviceAlways, PTL DEF ConsentGivenHere

(* A form that the server refuses shows an error on the step it lands on,  *)
(* but for the one error that no step owns.                                *)
THEOREM RejectionsShow == DeviceSpec => RejectionShown
<1>1. ASSUME DeviceInv, Refused PROVE steps[cur'] \cap srvErr' # {} \/ srvErr' = {"identity"}
  <2>1. PICK errs : /\ errs \in {serverRules(sending), {"identity"}} /\ errs # {}
                    /\ srvErr' = errs /\ cur' = JumpTarget(steps, errs) /\ form' = form
    BY <1>1 DEF Refused, Refuse, event
  <2>2. steps' = steps
    BY <2>1 DEF steps
  <2>3. CASE \E i \in 1..3 : steps[i] \cap errs # {}
    BY <1>1, <2>1, <2>3, Jumps DEF DeviceInv, FormSide, FormInv
  <2>4. CASE ~ \E i \in 1..3 : steps[i] \cap errs # {}
    <3>1. serverRules(sending) \subseteq {"identity"} \cup steps[1] \cup steps[2] \cup steps[3]
      BY RulesOwned
    <3> QED BY <2>1, <2>4, <3>1
  <2> QED BY <2>3, <2>4
<1> QED BY <1>1, DeviceAlways, PTL DEF RejectionShown

(* The server never tells the visitor to wait when the page did not, but   *)
(* after an answer that was lost or, where the device's clock is ahead,    *)
(* after a reload.                                                         *)
THEOREM SendsStayPaced == DeviceSpec => SendsPaced
<1>1. ASSUME DeviceInv, SendAnswered("too early")
      PROVE  "lost" \in doubt \/ (skew > 0 /\ "reload" \in doubt)
  <2>1. posting # "no" /\ "too early" \in Outcomes
    BY <1>1 DEF SendAnswered
  <2>2. ch.retry > 0
    BY <1>1, <2>1, AfterOK, PublicAssumption DEF DeviceInv, VerifySide, VerifyInv, PublicConstants
  <2> QED BY <1>1, <2>1, <2>2 DEF DeviceInv, VerifySide, PacedInv
<1> QED BY <1>1, DeviceAlways, PTL DEF SendsPaced
====

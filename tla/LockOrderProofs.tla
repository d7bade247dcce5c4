--------------------------- MODULE LockOrderProofs ---------------------------
(***************************************************************************)
(* Proofs about LockOrder: for any number of threads and any duties, the   *)
(* agent's locks are taken in one order, handlers included, and nobody     *)
(* waits in a circle.  That takes a logging level above trace, a level     *)
(* above debug if AsyncGetCallTrace returns unknown errors, and threads    *)
(* that do not share an arena of the heap; without one of these TLC finds  *)
(* a deadlock.                                                             *)
(***************************************************************************)
EXTENDS LockOrder, TLAPS

\* The order in which locks are taken.
Rank(lock) ==
    CASE lock = "class_prep"   -> 1
      [] lock = "user_threads" -> 2
      [] lock = "logger"       -> 3
      [] lock = "heap"         -> 4
      [] lock = "in_scope"     -> 5
      [] lock = "frame"        -> 6

\* From holding `before' to holding `after' only locks of higher rank are taken.
Upwards(before, after) ==
    \A lock \in after \ before : \A held \in before : Rank(held) < Rank(lock)

\* A piece of code that takes only some locks, in order, from nothing to nothing.
Piece(p, locks) ==
    /\ p \in Seq(SUBSET Locks)
    /\ \A i \in 1 .. Len(p) : p[i] \subseteq locks
    /\ \A i \in 1 .. Len(p) : Upwards(IF i = 1 THEN {} ELSE p[i - 1], p[i])
    /\ Len(p) > 0 => p[Len(p)] = {}

\* What is left of it when some steps are done, with what is held now.
Path(p, locks) ==
    /\ p \in Seq(SUBSET Locks) /\ Len(p) > 0
    /\ \A i \in 1 .. Len(p) : p[i] \subseteq locks
    /\ \A i \in 2 .. Len(p) : Upwards(p[i - 1], p[i])
    /\ p[Len(p)] = {}

\* The locks of the threads' own code from a rank on.
From(n) == {lock \in Locks \ {"frame"} : Rank(lock) >= n}

-----------------------------------------------------------------------------
(* Pieces of code *)

\* No code is a piece of code.
LEMMA NothingPiece == ASSUME NEW locks PROVE Piece(Nothing, locks)
<1> QED BY DEF Piece, Nothing

\* A piece that takes few locks takes no others.
LEMMA WidenPiece ==
    ASSUME NEW few, NEW locks, few \subseteq locks, NEW p, Piece(p, few)
    PROVE  Piece(p, locks)
<1> QED BY DEF Piece

\* One piece after the other.
LEMMA JoinPieces ==
    ASSUME NEW locks, NEW p, NEW q, Piece(p, locks), Piece(q, locks)
    PROVE  Piece(p \o q, locks)
<1> USE DEF Piece
<1> DEFINE r == p \o q
<1>1. r \in Seq(SUBSET Locks) /\ Len(r) = Len(p) + Len(q)
      /\ Len(p) \in Nat /\ Len(q) \in Nat
    OBVIOUS
<1>2. \A i \in 1 .. Len(r) : r[i] = IF i <= Len(p) THEN p[i] ELSE q[i - Len(p)]
    OBVIOUS
<1>3. \A i \in 1 .. Len(r) : r[i] \subseteq locks
    <2> SUFFICES ASSUME NEW i \in 1 .. Len(r) PROVE r[i] \subseteq locks
        OBVIOUS
    <2>1. CASE i <= Len(p) BY <2>1, <1>1, <1>2
    <2>2. CASE i > Len(p)
        <3>1. i - Len(p) \in 1 .. Len(q) BY <2>2, <1>1
        <3> QED BY <3>1, <2>2, <1>1, <1>2
    <2> QED BY <2>1, <2>2, <1>1
<1>4. ASSUME NEW i \in 1 .. Len(r)
      PROVE  Upwards(IF i = 1 THEN {} ELSE r[i - 1], r[i])
    <2>1. CASE i <= Len(p)
        <3>1. i \in 1 .. Len(p) /\ r[i] = p[i] /\ (i # 1 => r[i - 1] = p[i - 1])
            BY <2>1, <1>1, <1>2
        <3> QED BY <3>1
    <2>2. CASE i = Len(p) + 1
        <3>1. 1 \in 1 .. Len(q) /\ r[i] = q[1]
            BY <2>2, <1>1, <1>2
        <3>2. (IF i = 1 THEN {} ELSE r[i - 1]) = {}
            BY <2>2, <1>1, <1>2
        <3>3. Upwards({}, q[1])
            BY <3>1
        <3> QED BY <3>1, <3>2, <3>3
    <2>3. CASE i > Len(p) + 1
        <3>1. i - Len(p) \in 1 .. Len(q) /\ i - Len(p) # 1 /\ i # 1
            BY <2>3, <1>1
        <3>2. r[i] = q[i - Len(p)]
            BY <2>3, <1>1, <1>2
        <3>3. r[i - 1] = q[i - Len(p) - 1]
            <4>1. i - 1 \in 1 .. Len(r) /\ i - 1 > Len(p) /\ (i - 1) - Len(p) = i - Len(p) - 1
                BY <2>3, <1>1
            <4> QED BY <4>1, <1>1, <1>2
        <3>4. Upwards(q[i - Len(p) - 1], q[i - Len(p)])
            BY <3>1
        <3> QED BY <3>1, <3>2, <3>3, <3>4
    <2> QED BY <2>1, <2>2, <2>3, <1>1
<1>5. Len(r) > 0 => r[Len(r)] = {}
    <2>1. CASE Len(q) = 0 BY <2>1, <1>1, <1>2
    <2>2. CASE Len(q) > 0
        <3>1. Len(r) \in 1 .. Len(r) /\ ~(Len(r) <= Len(p)) /\ Len(r) - Len(p) = Len(q)
            BY <2>2, <1>1
        <3> QED BY <3>1, <2>2, <1>2
    <2> QED BY <2>1, <2>2, <1>1
<1> QED BY <1>1, <1>3, <1>4, <1>5

\* A critical section: its lock has to come before those taken inside.
LEMMA HoldPiece ==
    ASSUME NEW lock \in Locks, NEW locks, NEW inner, lock \in locks, inner \subseteq locks,
           NEW body, Piece(body, inner),
           \A other \in inner : other \in Locks => Rank(lock) < Rank(other)
    PROVE  Piece(Hold(lock, body), locks)
<1> DEFINE n == Len(body)
           r == Hold(lock, body)
<1>1. n \in Nat /\ body \in Seq(SUBSET Locks)
    BY DEF Piece
<1>2. /\ r \in Seq(SUBSET Locks) /\ Len(r) = n + 2
      /\ r[1] = {lock} /\ r[n + 2] = {}
      /\ \A i \in 1 .. n : r[i + 1] = body[i] \cup {lock}
    <2> DEFINE middle == [i \in 1 .. n |-> body[i] \cup {lock}]
    <2>1. middle \in Seq(SUBSET Locks) /\ Len(middle) = n
        BY <1>1
    <2>2. <<{lock}>> \in Seq(SUBSET Locks) /\ <<{}>> \in Seq(SUBSET Locks)
        OBVIOUS
    <2> HIDE DEF middle
    <2>3. r = <<{lock}>> \o middle \o <<{}>>
        BY DEF Hold, middle
    <2> HIDE DEF r
    <2>4. r \in Seq(SUBSET Locks) /\ Len(r) = n + 2
        BY <2>1, <2>2, <2>3, <1>1
    <2>5. r[1] = {lock} /\ r[n + 2] = {}
        BY <2>1, <2>2, <2>3, <1>1
    <2>6. \A i \in 1 .. n : r[i + 1] = middle[i]
        BY <2>1, <2>2, <2>3, <1>1
    <2> QED BY <2>4, <2>5, <2>6, <1>1 DEF middle
<1> HIDE DEF r
<1>3. ASSUME NEW i \in 1 .. Len(r) PROVE r[i] \subseteq locks
    <2>1. CASE i = 1 \/ i = n + 2 BY <2>1, <1>2
    <2>2. CASE i - 1 \in 1 .. n
        <3>1. r[i] = body[i - 1] \cup {lock} BY <2>2, <1>1, <1>2
        <3> QED BY <3>1, <2>2 DEF Piece
    <2> QED BY <2>1, <2>2, <1>1, <1>2
<1>4. ASSUME NEW i \in 1 .. Len(r)
      PROVE  Upwards(IF i = 1 THEN {} ELSE r[i - 1], r[i])
    <2>1. CASE i = 1 \/ i = n + 2
        BY <2>1, <1>1, <1>2 DEF Upwards
    <2>2. CASE i = 2 /\ i # n + 2
        <3>1. 1 \in 1 .. n /\ r[2] = body[1] \cup {lock} /\ body[1] \subseteq inner
              /\ body[1] \subseteq Locks
            BY <2>2, <1>1, <1>2 DEF Piece
        <3> QED BY <3>1, <2>2, <1>2 DEF Upwards
    <2>3. CASE i > 2 /\ i # n + 2
        <3>1. i - 1 \in 1 .. n /\ i - 2 \in 1 .. n
            BY <2>3, <1>1, <1>2
        <3>2. r[i] = body[i - 1] \cup {lock} /\ r[i - 1] = body[i - 2] \cup {lock}
            <4>1. (i - 1) + 1 = i /\ (i - 2) + 1 = i - 1 BY <2>3
            <4> QED BY <3>1, <4>1, <1>2
        <3>3. Upwards(body[i - 2], body[i - 1])
            BY <3>1, <2>3 DEF Piece
        <3>4. body[i - 1] \subseteq inner /\ body[i - 1] \subseteq Locks
            BY <3>1, <1>1 DEF Piece
        <3>5. Upwards(r[i - 1], r[i])
            BY <3>2, <3>3, <3>4 DEF Upwards
        <3> QED BY <3>5, <2>3
    <2> QED BY <2>1, <2>2, <2>3, <1>1, <1>2
<1> QED BY <1>1, <1>2, <1>3, <1>4 DEF Piece, r

-----------------------------------------------------------------------------
(* The agent's code, piece by piece *)

\* What the order rests on: no logging inside in_scope_lock, none in a handler, and no
\* arena that threads share.
QuietAndPrivate ==
    /\ LoggingLevel > trace /\ ~SharedHeap
    /\ UnknownErrors => LoggingLevel > debug

USE DEF trace, debug, info, error, off

\* The ranks, one by one.
LEMMA Ranks ==
    /\ Rank("class_prep") = 1 /\ Rank("user_threads") = 2 /\ Rank("logger") = 3
    /\ Rank("heap") = 4 /\ Rank("in_scope") = 5 /\ Rank("frame") = 6
<1> QED BY DEF Rank

\* A critical section of a thread's own code, whose inside takes higher locks.
LEMMA HoldFrom ==
    ASSUME NEW lock \in Locks \ {"frame"}, NEW n \in Nat, n <= Rank(lock),
           NEW body, Piece(body, From(Rank(lock) + 1))
    PROVE  Piece(Hold(lock, body), From(n))
<1>1. Rank(lock) \in Nat
    BY Ranks DEF Locks
<1>2. From(Rank(lock) + 1) \subseteq From(n) /\ lock \in From(n)
    BY <1>1, Ranks DEF From, Locks
<1>3. \A other \in From(Rank(lock) + 1) : other \in Locks => Rank(lock) < Rank(other)
    BY <1>1, Ranks DEF From, Locks
<1> HIDE DEF From
<1> QED BY <1>2, <1>3, HoldPiece

\* Logging takes the logger's mutex or nothing.
LEMMA LogPiece ==
    ASSUME NEW severity PROVE Piece(Log(severity), From(3))
<1>1. Piece(Nothing, From(3)) /\ Piece(Nothing, From(Rank("logger") + 1))
    BY NothingPiece
<1>2. Piece(Hold("logger", Nothing), From(3))
    BY <1>1, HoldFrom, Ranks DEF Locks
<1> QED BY <1>1, <1>2 DEF Log

\* Without a shared arena the heap takes no lock that another thread may want.
LEMMA HeapIsNothing == QuietAndPrivate => Heap = Nothing
<1> QED BY DEF QuietAndPrivate, Heap

\* Nor do trace lines that are not logged.
LEMMA TraceIsNothing == QuietAndPrivate => Log(trace) = Nothing
<1> QED BY ConstantsAssumption DEF QuietAndPrivate, Log

\* Filling in_scope_ids takes in_scope_lock, and nothing while it has it.
LEMMA AddInScopeMethodsPiece ==
    ASSUME QuietAndPrivate PROVE Piece(AddInScopeMethods, From(3))
<1>1. Log(trace) \o Heap = Nothing
    BY HeapIsNothing, TraceIsNothing DEF Nothing
<1>2. Piece(Hold("in_scope", Nothing), From(3))
    BY NothingPiece, HoldFrom, Ranks DEF Locks
<1> QED BY <1>1, <1>2, LogPiece, JoinPieces DEF AddInScopeMethods

\* A callback takes its locks in order, none of them frame_lock.
LEMMA CallbackPieces ==
    ASSUME QuietAndPrivate, NEW name \in CallbackNames, NEW path \in Callback(name)
    PROVE  Piece(path, From(1))
<1> DEFINE Fine(p) == Piece(p, From(3))
<1>1. From(3) \subseteq From(1) /\ From(2) \subseteq From(1)
    BY Ranks DEF From, Locks
<1>2. \A severity : Fine(Log(severity))
    BY LogPiece
<1>3. Fine(Nothing) /\ Heap = Nothing
    BY NothingPiece, HeapIsNothing
<1>4. Fine(AddInScopeMethods)
    BY AddInScopeMethodsPiece
<1>5. \A p, q : Fine(p) /\ Fine(q) => Fine(p \o q)
    BY JoinPieces
<1>6. \A p : Fine(p) => Piece(p, From(1))
    BY <1>1, WidenPiece
<1>7. \A p, q : Piece(p, From(1)) /\ Piece(q, From(1)) => Piece(p \o q, From(1))
    BY JoinPieces
<1>8. Piece(Hold("user_threads", Nothing), From(1))
    BY NothingPiece, HoldFrom, Ranks DEF Locks
<1>9. \A p : Fine(p) => Piece(Hold("class_prep", p), From(1))
    <2> SUFFICES ASSUME NEW p, Fine(p) PROVE Piece(Hold("class_prep", p), From(1))
        OBVIOUS
    <2>1. From(3) \subseteq From(Rank("class_prep") + 1)
        BY Ranks DEF From, Locks
    <2> QED BY <2>1, WidenPiece, HoldFrom, Ranks DEF Locks
<1> HIDE DEF Fine
<1>10. ASSUME path \in ThreadStart PROVE Piece(path, From(1))
    BY <1>10, <1>2, <1>3, <1>5, <1>6, <1>7, <1>8 DEF ThreadStart
<1>11. ASSUME path \in ThreadEnd PROVE Piece(path, From(1))
    BY <1>11, <1>2, <1>3, <1>5, <1>6, <1>7, <1>8 DEF ThreadEnd
<1>12. ASSUME path \in ClassPrepare PROVE Piece(path, From(1))
    <2>1. PICK prepared \in ClassPrepared :
              path = Log(trace) \o Hold("class_prep", Heap \o Log(trace) \o prepared)
        BY <1>12 DEF ClassPrepare
    <2>2. \A point \in ProgressPoint : Fine(point)
        BY <1>2, <1>3, <1>5 DEF ProgressPoint
    <2>3. Fine(prepared)
        <3>1. CASE prepared = Log(error) BY <3>1, <1>2
        <3>2. CASE prepared # Log(error)
            <4> DEFINE Whole(scope, point) == Log(debug) \o scope \o Heap \o point
            <4>1. \A scope \in {Nothing, AddInScopeMethods}, point \in ProgressPoint :
                      Fine(Whole(scope, point))
                BY <2>2, <1>2, <1>3, <1>4, <1>5
            <4>2. ClassPrepared = {Log(error)} \cup
                      {Whole(scope, point) :
                          scope \in {Nothing, AddInScopeMethods}, point \in ProgressPoint}
                BY DEF ClassPrepared
            <4> HIDE DEF Whole
            <4> QED BY <3>2, <4>1, <4>2
        <3> QED BY <3>1, <3>2
    <2> QED BY <2>1, <2>3, <1>2, <1>3, <1>5, <1>6, <1>7, <1>9
<1>13. ASSUME path \in VMInit PROVE Piece(path, From(1))
    BY <1>13, <1>2, <1>6, <1>12 DEF VMInit
<1>14. ASSUME path \in VMDeath PROVE Piece(path, From(1))
    <2>1. Fine(Hold("in_scope", Heap))
        BY <1>3, NothingPiece, HoldFrom, Ranks DEF Locks, Fine
    <2> QED BY <1>14, <2>1, <1>2, <1>5, <1>6 DEF VMDeath
<1> QED BY <1>10, <1>11, <1>12, <1>13, <1>14 DEF Callback, CallbackNames

\* The agent thread never holds two locks.
LEMMA AgentPieces ==
    ASSUME QuietAndPrivate, NEW path \in AgentCode
    PROVE  Piece(path, Locks)
<1> DEFINE Fine(p) == Piece(p, Locks)
<1>1. \A severity : Fine(Log(severity))
    BY LogPiece, WidenPiece DEF From
<1>2. \A lock \in Locks : Fine(Hold(lock, Nothing))
    <2> SUFFICES ASSUME NEW lock \in Locks PROVE Fine(Hold(lock, Nothing))
        OBVIOUS
    <2>1. Piece(Nothing, {}) BY NothingPiece
    <2> QED BY <2>1, HoldPiece
<1>3. Fine(Nothing) /\ Heap = Nothing
    BY NothingPiece, HeapIsNothing
<1>4. \A p, q : Fine(p) /\ Fine(q) => Fine(p \o q)
    BY JoinPieces
<1>5. "user_threads" \in Locks /\ "frame" \in Locks
    BY DEF Locks
<1> HIDE DEF Fine
<1>6. Fine(AgentRound)
    BY <1>1, <1>2, <1>4, <1>5 DEF AgentRound
<1>7. Fine(path)
    BY <1>1, <1>2, <1>3, <1>4, <1>5, <1>6 DEF AgentCode
<1> QED BY <1>7 DEF Fine

\* A handler takes in_scope_lock, if its thread does not have it, and frame_lock.
HandlerLocks(held) == {"in_scope", "frame"} \ held

LEMMA HandlerPieces ==
    ASSUME QuietAndPrivate, NEW held \in SUBSET (Locks \ {"frame"}), NEW path \in Handle(held)
    PROVE  Piece(path, HandlerLocks(held))
<1>1. Piece(Nothing, HandlerLocks(held)) /\ Piece(Nothing, {})
    BY NothingPiece
<1>2. UnknownErrors => Log(debug) = Nothing
    BY ConstantsAssumption DEF QuietAndPrivate, Log
<1>3. Piece(Hold("frame", Nothing), {"frame"})
    BY <1>1, HoldPiece DEF Locks
<1>4. {"frame"} \subseteq HandlerLocks(held)
    BY DEF HandlerLocks
<1>5. \A store \in StoreFrame : Piece(store, {"frame"})
    BY <1>3, NothingPiece DEF StoreFrame
<1>6. ASSUME "in_scope" \notin held, NEW store \in StoreFrame
      PROVE  Piece(Hold("in_scope", store), HandlerLocks(held))
    BY <1>4, <1>5, <1>6, HoldPiece, Ranks DEF HandlerLocks, Locks
<1>7. \A store \in StoreFrame : Piece(store, HandlerLocks(held))
    BY <1>4, <1>5, WidenPiece
<1> QED BY <1>1, <1>2, <1>6, <1>7 DEF Handle, Sampling

-----------------------------------------------------------------------------
(* What is left of a piece *)

\* Before its first step a piece is left as a whole.
LEMMA StartPath ==
    ASSUME NEW locks, NEW p, Piece(p, locks)
    PROVE  Path(<<{}>> \o p, locks)
<1> DEFINE r == <<{}>> \o p
<1>1. p \in Seq(SUBSET Locks) /\ Len(p) \in Nat
    BY DEF Piece
<1>2. /\ r \in Seq(SUBSET Locks) /\ Len(r) = Len(p) + 1 /\ r[1] = {}
      /\ \A i \in 2 .. Len(r) : r[i] = p[i - 1]
    BY <1>1
<1> HIDE DEF r
<1>3. ASSUME NEW i \in 1 .. Len(r) PROVE r[i] \subseteq locks
    <2>1. CASE i = 1 BY <2>1, <1>2
    <2>2. CASE i # 1
        <3>1. i \in 2 .. Len(r) /\ i - 1 \in 1 .. Len(p) BY <2>2, <1>1, <1>2
        <3> QED BY <3>1, <1>2 DEF Piece
    <2> QED BY <2>1, <2>2
<1>4. ASSUME NEW i \in 2 .. Len(r) PROVE Upwards(r[i - 1], r[i])
    <2>1. i - 1 \in 1 .. Len(p) /\ r[i] = p[i - 1] BY <1>1, <1>2
    <2>2. CASE i = 2 BY <2>1, <2>2, <1>2 DEF Upwards
    <2>3. CASE i # 2
        <3>1. i - 1 \in 2 .. Len(r) /\ i - 1 # 1 BY <2>3, <1>1, <1>2
        <3>2. r[i - 1] = p[(i - 1) - 1] BY <3>1, <1>2
        <3>3. Upwards(p[(i - 1) - 1], p[i - 1]) BY <2>1, <3>1 DEF Piece
        <3> QED BY <2>1, <3>2, <3>3
    <2> QED BY <2>2, <2>3
<1>5. r[Len(r)] = {}
    <2>1. CASE Len(p) = 0 BY <2>1, <1>2
    <2>2. CASE Len(p) # 0
        <3>1. Len(r) \in 2 .. Len(r) /\ Len(r) - 1 = Len(p) BY <2>2, <1>1, <1>2
        <3> QED BY <3>1, <2>2, <1>1, <1>2 DEF Piece
    <2> QED BY <2>1, <2>2
<1>6. Path(r, locks)
    BY <1>1, <1>2, <1>3, <1>4, <1>5 DEF Path
<1> QED BY <1>6 DEF r

\* A path that is not over has a next step.
LEMMA NotOver ==
    ASSUME NEW locks, NEW p, Path(p, locks), ~Over(p)
    PROVE  Len(p) \in Nat /\ Len(p) > 1
<1>1. \A n \in Nat : n > 0 /\ n # 1 => n > 1
    OBVIOUS
<1>2. Len(p) \in Nat /\ Len(p) > 0
    BY DEF Path
<1>3. Len(p) # 1
    BY DEF Over
<1> QED BY <1>1, <1>2, <1>3, Zenon

\* After a step the rest is left.
LEMMA RestPath ==
    ASSUME NEW locks, NEW p, Path(p, locks), ~Over(p)
    PROVE  Path(Tail(p), locks)
<1> DEFINE r == Tail(p)
<1>1. p \in Seq(SUBSET Locks) /\ Len(p) \in Nat /\ Len(p) > 1
    BY NotOver DEF Path
<1>2. /\ r \in Seq(SUBSET Locks) /\ Len(r) = Len(p) - 1
      /\ \A i \in 1 .. Len(r) : r[i] = p[i + 1]
    BY <1>1
<1> HIDE DEF r
<1>3. ASSUME NEW i \in 1 .. Len(r) PROVE r[i] \subseteq locks
    BY <1>1, <1>2 DEF Path
<1>4. ASSUME NEW i \in 2 .. Len(r) PROVE Upwards(r[i - 1], r[i])
    <2>1. i - 1 \in 1 .. Len(r) /\ (i - 1) + 1 = i /\ i + 1 \in 2 .. Len(p) BY <1>1, <1>2
    <2>2. r[i] = p[i + 1] /\ r[i - 1] = p[i] BY <2>1, <1>2
    <2>3. Upwards(p[(i + 1) - 1], p[i + 1]) BY <2>1 DEF Path
    <2> QED BY <2>2, <2>3
<1>5. r[Len(r)] = {}
    <2>1. Len(r) \in 1 .. Len(r) /\ Len(r) + 1 = Len(p) BY <1>1, <1>2
    <2> QED BY <2>1, <1>2 DEF Path
<1>6. Path(r, locks)
    BY <1>1, <1>2, <1>3, <1>4, <1>5 DEF Path
<1> QED BY <1>6 DEF r

\* What is held now is among the locks of the path.
LEMMA HeadPath ==
    ASSUME NEW locks, NEW p, Path(p, locks)
    PROVE  Head(p) = p[1] /\ Head(p) \subseteq locks /\ Head(p) \subseteq Locks
<1>1. p \in Seq(SUBSET Locks) /\ Len(p) > 0 /\ \A i \in 1 .. Len(p) : p[i] \subseteq locks
    BY DEF Path
<1>2. 1 \in 1 .. Len(p) /\ Head(p) = p[1]
    BY <1>1
<1> QED BY <1>1, <1>2

\* When nothing is left, nothing is held.
LEMMA OverPath ==
    ASSUME NEW locks, NEW p, Path(p, locks), Over(p)
    PROVE  Head(p) = {} /\ \A others : Path(p, others)
<1> QED BY DEF Path, Over, Upwards

-----------------------------------------------------------------------------
(* The invariant *)

\* Threads go through their pieces in order, without frame_lock; handlers go through
\* theirs, without a lock their thread has.
IInv ==
    /\ code \in [Actors -> Seq(SUBSET Locks)] /\ handler \in [Actors -> Seq(SUBSET Locks)]
    /\ \A t \in Threads :
          /\ Path(code[t], Locks \ {"frame"})
          /\ Path(handler[t], HandlerLocks(Head(code[t])))
    /\ Path(code[Agent], Locks) /\ handler[Agent] = <<{}>>

\* It holds when nobody does anything.
LEMMA InitIInv == Init => IInv
<1> SUFFICES ASSUME Init PROVE IInv
    OBVIOUS
<1>1. \A locks : Path(<<{}>>, locks)
    BY DEF Path
<1> QED BY <1>1 DEF Init, IInv, Actors

\* Every step keeps it: one is begun with a whole piece, and goes on with the rest.
LEMMA NextIInv == QuietAndPrivate => (IInv /\ [Next]_vars => IInv')
<1> SUFFICES ASSUME QuietAndPrivate, IInv, [Next]_vars PROVE IInv'
    OBVIOUS
<1> USE ConstantsAssumption DEF IInv, Actors
<1>1. ASSUME NEW t \in Threads, RunCallback(t) PROVE IInv'
    <2>1. PICK name \in Duties[t] : \E path \in Callback(name) :
              code' = [code EXCEPT ![t] = <<{}>> \o path]
        BY <1>1 DEF RunCallback
    <2>2. PICK path \in Callback(name) : code' = [code EXCEPT ![t] = <<{}>> \o path]
        BY <2>1
    <2>3. name \in CallbackNames
        BY <2>1
    <2>4. Piece(path, From(1)) /\ From(1) \subseteq Locks \ {"frame"}
        BY <2>3, <2>2, CallbackPieces DEF From
    <2>5. Path(<<{}>> \o path, Locks \ {"frame"})
        BY <2>4, WidenPiece, StartPath
    <2>6. \A others : Path(handler[t], others)
        BY <1>1, OverPath DEF RunCallback
    <2>7. <<{}>> \o path \in Seq(SUBSET Locks)
        BY <2>5 DEF Path
    <2> QED BY <2>2, <2>5, <2>6, <2>7, <1>1 DEF RunCallback
<1>2. CASE RunAgent
    <2>1. PICK path \in AgentCode : code' = [code EXCEPT ![Agent] = <<{}>> \o path]
        BY <1>2 DEF RunAgent
    <2>2. Path(<<{}>> \o path, Locks)
        BY AgentPieces, StartPath
    <2>3. <<{}>> \o path \in Seq(SUBSET Locks)
        BY <2>2 DEF Path
    <2> QED BY <2>1, <2>2, <2>3, <1>2 DEF RunAgent
<1>3. ASSUME NEW t \in Threads, CodeStep(t) PROVE IInv'
    <2>1. Path(Tail(code[t]), Locks \ {"frame"}) /\ \A others : Path(handler[t], others)
        BY <1>3, RestPath, OverPath DEF CodeStep
    <2>2. Tail(code[t]) \in Seq(SUBSET Locks)
        BY <2>1 DEF Path
    <2> QED BY <2>1, <2>2, <1>3 DEF CodeStep
<1>4. CASE CodeStep(Agent)
    <2>1. Path(Tail(code[Agent]), Locks)
        BY <1>4, RestPath DEF CodeStep
    <2>2. Tail(code[Agent]) \in Seq(SUBSET Locks)
        BY <2>1 DEF Path
    <2> QED BY <2>1, <2>2, <1>4 DEF CodeStep
<1>5. ASSUME NEW t \in Threads, Signal(t) PROVE IInv'
    <2>1. PICK path \in Handle(Head(code[t])) :
              handler' = [handler EXCEPT ![t] = <<{}>> \o path]
        BY <1>5 DEF Signal
    <2>2. Head(code[t]) \in SUBSET (Locks \ {"frame"})
        BY DEF Path
    <2>3. Path(<<{}>> \o path, HandlerLocks(Head(code[t])))
        BY <2>1, <2>2, HandlerPieces, StartPath
    <2>4. <<{}>> \o path \in Seq(SUBSET Locks)
        BY <2>3 DEF Path
    <2> QED BY <2>1, <2>3, <2>4, <1>5 DEF Signal
<1>6. ASSUME NEW t \in Threads, HandlerStep(t) PROVE IInv'
    <2>1. Path(Tail(handler[t]), HandlerLocks(Head(code[t])))
        BY <1>6, RestPath DEF HandlerStep
    <2>2. Tail(handler[t]) \in Seq(SUBSET Locks)
        BY <2>1 DEF Path
    <2> QED BY <2>1, <2>2, <1>6 DEF HandlerStep
<1>7. CASE UNCHANGED vars
    BY <1>7 DEF vars
<1> QED BY <1>1, <1>2, <1>3, <1>4, <1>5, <1>6, <1>7 DEF Next

-----------------------------------------------------------------------------
(* Nobody waits in a circle *)

\* What a thread waits for comes after everything it holds, its handler included.
LEMMA WaitsUpwards ==
    ASSUME IInv, NEW t \in Actors, NEW lock \in Blocking(t), NEW held \in HeldBy(t)
    PROVE  Rank(held) < Rank(lock)
<1> USE DEF IInv, Actors
<1>1. \A locks, p : Path(p, locks) =>
          \A taken \in Wanted(p) : taken \in locks /\ \A has \in Head(p) : Rank(has) < Rank(taken)
    <2> SUFFICES ASSUME NEW locks, NEW p, Path(p, locks), NEW taken \in Wanted(p)
                 PROVE  taken \in locks /\ \A has \in Head(p) : Rank(has) < Rank(taken)
        OBVIOUS
    <2>1. ~Over(p) /\ taken \in p[2] \ p[1]
        BY DEF Wanted
    <2>2. 2 \in 2 .. Len(p) /\ 2 \in 1 .. Len(p)
        BY <2>1, NotOver
    <2>3. Upwards(p[2 - 1], p[2]) /\ p[2] \subseteq locks
        BY <2>2 DEF Path
    <2> QED BY <2>1, <2>3, HeadPath DEF Upwards
<1>2. Head(code[t]) \subseteq Locks /\ (t \in Threads => "frame" \notin Head(code[t]))
    <2>1. CASE t \in Threads
        <3>1. Path(code[t], Locks \ {"frame"}) BY <2>1
        <3> QED BY <3>1, HeadPath
    <2>2. CASE t = Agent
        BY <2>2, HeadPath, ConstantsAssumption
    <2> QED BY <2>1, <2>2
<1>3. CASE Over(handler[t])
    <2>1. Head(handler[t]) = {}
        BY <1>3, OverPath
    <2>2. lock \in Wanted(code[t]) /\ held \in Head(code[t])
        BY <1>3, <2>1 DEF Blocking, HeldBy
    <2>3. \E locks : Path(code[t], locks)
        OBVIOUS
    <2> QED BY <1>1, <2>2, <2>3
<1>4. CASE ~Over(handler[t])
    <2>1. t \in Threads /\ Path(handler[t], HandlerLocks(Head(code[t])))
        <3>1. Len(handler[Agent]) = 1 OBVIOUS
        <3> QED BY <3>1, <1>4 DEF Over
    <2>2. /\ lock \in HandlerLocks(Head(code[t]))
          /\ \A has \in Head(handler[t]) : Rank(has) < Rank(lock)
        BY <1>4, <2>1, <1>1 DEF Blocking
    <2>3. \A low \in Locks \ {"frame"} : \A high \in {"in_scope", "frame"} \ {low} :
              Rank(low) < Rank(high)
        BY Ranks DEF Locks
    <2>4. ASSUME held \in Head(code[t]) PROVE Rank(held) < Rank(lock)
        <3>1. held \in Locks \ {"frame"} /\ lock \in {"in_scope", "frame"} \ {held}
            BY <2>1, <2>2, <2>4, <1>2 DEF HandlerLocks
        <3> QED BY <3>1, <2>3
    <2> QED BY <2>2, <2>4 DEF HeldBy
<1> QED BY <1>3, <1>4

\* In a circle of waiting threads each would hold a higher lock than the one before.
LEMMA NoCircle == IInv => NoDeadlock
<1> SUFFICES ASSUME IInv, NEW group \in (SUBSET Actors) \ {{}},
                    \A t \in group : \E u \in group : WaitsFor(t, u)
             PROVE  FALSE
    BY DEF NoDeadlock
<1>1. \A t \in Actors : HeldBy(t) \subseteq Locks
    <2> SUFFICES ASSUME NEW t \in Actors PROVE HeldBy(t) \subseteq Locks
        OBVIOUS
    <2>1. \E locks : Path(code[t], locks)
        BY DEF IInv, Actors
    <2>2. Head(handler[t]) \subseteq Locks
        <3>1. CASE t \in Threads
            <4>1. \E locks : Path(handler[t], locks) BY <3>1 DEF IInv
            <4> QED BY <4>1, HeadPath
        <3>2. CASE t = Agent BY <3>2 DEF IInv
        <3> QED BY <3>1, <3>2 DEF Actors
    <2> QED BY <2>1, <2>2, HeadPath DEF HeldBy
<1> DEFINE Holds(n) == \E t \in group : \E lock \in HeldBy(t) : Rank(lock) >= n
<1>2. \A t \in group : \E u \in group : \E lock \in HeldBy(u) : lock \in Blocking(t)
    BY DEF WaitsFor
<1>3. Holds(1)
    <2>1. PICK t \in group : TRUE OBVIOUS
    <2>2. PICK u \in group : \E lock \in HeldBy(u) : lock \in Blocking(t) BY <1>2
    <2> QED BY <2>2, <1>1, Ranks DEF Locks
<1>4. ASSUME NEW n \in 1 .. 6, Holds(n) PROVE Holds(n + 1)
    <2>1. PICK t \in group : \E held \in HeldBy(t) : Rank(held) >= n
        BY <1>4
    <2>2. PICK held \in HeldBy(t) : Rank(held) >= n
        BY <2>1
    <2>3. PICK u \in group : \E lock \in HeldBy(u) : lock \in Blocking(t)
        BY <1>2
    <2>4. PICK lock \in HeldBy(u) : lock \in Blocking(t)
        BY <2>3
    <2>5. Rank(held) < Rank(lock)
        BY <2>2, <2>4, WaitsUpwards
    <2>6. Rank(held) \in Nat /\ Rank(lock) \in Nat
        BY <2>2, <2>4, <1>1, Ranks DEF Locks
    <2> QED BY <2>2, <2>4, <2>5, <2>6
<1>5. ~Holds(7)
    BY <1>1, Ranks DEF Locks
<1> HIDE DEF Holds
<1>6. Holds(1 + 1) /\ Holds(2 + 1) /\ Holds(3 + 1) /\ Holds(4 + 1) /\ Holds(5 + 1) /\ Holds(6 + 1)
    BY <1>3, <1>4
<1> QED BY <1>5, <1>6

\* Whatever threads there are and whatever callbacks they run: with a logging level
\* above trace and arenas of their own, nobody waits in a circle for the agent's locks,
\* neither a callback nor the agent thread nor a handler on top of either.
THEOREM DeadlockFree == QuietAndPrivate => (Spec => []NoDeadlock)
<1> SUFFICES ASSUME QuietAndPrivate PROVE Spec => []NoDeadlock
    OBVIOUS
<1>1. IInv /\ [Next]_vars => IInv'
    BY NextIInv
<1> QED BY InitIInv, <1>1, NoCircle, PTL DEF Spec

=============================================================================

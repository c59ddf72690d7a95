--------------------------- MODULE Memory_proofs ---------------------------
(***************************************************************************)
(* Proofs about Memory, for any facts, questions, values and number of     *)
(* open requests.                                                          *)
(*                                                                         *)
(* Three layers.  Types, with the course a request takes by itself; what   *)
(* a request has written against the rows that are committed, from which   *)
(* the intervals follow; and what it has read and will make of the         *)
(* interview and the profile.                                              *)
(***************************************************************************)
EXTENDS Memory, FiniteSetTheorems, TLAPS

-----------------------------------------------------------------------------
(* The facts of a transcript, in the order of the script *)

\* How many of the facts come before k, and k.
Rank(F) == [k \in F |-> Cardinality({j \in F : j < k}) + 1]

\* Among finitely many numbers each rank up to their number is somebody's.
LEMMA EveryRankIsTaken ==
  ASSUME NEW F, IsFiniteSet(F), F \subseteq Nat, NEW n \in 1..Cardinality(F)
  PROVE  \E k \in F : Cardinality({j \in F : j < k}) = n - 1
<1> DEFINE Before(k) == {j \in F : j < k}
           c == Cardinality(F)
<1>1. c \in Nat
  BY FS_CardinalityType
<1>2. \A k \in F : IsFiniteSet(Before(k)) /\ Cardinality(Before(k)) \in Nat
  <2> TAKE k \in F
  <2>1. Before(k) \in SUBSET F
    OBVIOUS
  <2>2. IsFiniteSet(Before(k))
    BY <2>1, FS_Subset
  <2> QED  BY <2>2, FS_CardinalityType
<1>3. \A k \in F : Cardinality(Before(k)) < c
  <2> TAKE k \in F
  <2>1. Before(k) \in SUBSET F /\ Before(k) # F
    OBVIOUS
  <2>2. Cardinality(Before(k)) <= c /\ Cardinality(Before(k)) # c
    BY <2>1, FS_Subset
  <2> QED  BY <1>1, <1>2, <2>2
<1>4. \A j, k \in F : j < k => Cardinality(Before(j)) < Cardinality(Before(k))
  <2> SUFFICES ASSUME NEW j \in F, NEW k \in F, j < k
               PROVE  Cardinality(Before(j)) < Cardinality(Before(k))
    OBVIOUS
  <2>1. Before(j) \in SUBSET Before(k) /\ Before(j) # Before(k)
    <3>1. j \in Before(k) /\ j \notin Before(j)
      OBVIOUS
    <3>2. \A i \in F : i < j => i < k
      OBVIOUS
    <3> QED  BY <3>1, <3>2
  <2>2. /\ Cardinality(Before(j)) <= Cardinality(Before(k))
        /\ Cardinality(Before(j)) # Cardinality(Before(k))
    BY <1>2, <2>1, FS_Subset
  <2> QED  BY <1>2, <2>2
<1> DEFINE f == Rank(F)
<1>5. \A k \in F : f[k] = Cardinality(Before(k)) + 1
  BY DEF Rank
<1>6. f \in [F -> 1..c]
  BY <1>1, <1>2, <1>3 DEF Rank
<1>7. \A j, k \in F : f[j] = f[k] => j = k
  <2> SUFFICES ASSUME NEW j \in F, NEW k \in F, f[j] = f[k], j # k PROVE FALSE
    OBVIOUS
  <2>1. Cardinality(Before(j)) = Cardinality(Before(k))
    BY <1>2, <1>5
  <2>2. j < k \/ k < j
    OBVIOUS
  <2> QED  BY <1>2, <1>4, <2>1, <2>2
<1>8. f \in Injection(F, 1..c)
  BY <1>6, <1>7 DEF Injection, IsInjective
<1>9. IsFiniteSet(1..c) /\ Cardinality(1..c) = c
  <2>1. 1 \in Int /\ c \in Int
    BY <1>1
  <2> QED  BY <1>1, <2>1, FS_Interval
<1>10. f \in Surjection(F, 1..c)
  BY <1>8, <1>9, FS_Injection
<1>11. PICK k \in F : f[k] = n
  BY <1>10 DEF Surjection
<1> QED  BY <1>2, <1>5, <1>11

\* OrderedFacts lists facts of the transcript, each with its answer.
LEMMA OrderedFactsType ==
  ASSUME NEW given \in [Asked -> Answer]
  PROVE  /\ OrderedFacts(given) \in Seq(Keys \X Values)
         /\ Len(OrderedFacts(given)) = Cardinality(FactsFrom(given))
         /\ FactsFrom(given) # {} => OrderedFacts(given) # <<>>
<1> DEFINE F == FactsFrom(given)
           Nth(n) == CHOOSE k \in F : Cardinality({j \in F : j < k}) = n - 1
<1>1. F \subseteq Asked /\ F \subseteq Keys /\ F \subseteq Nat
  BY MemoryAssumption DEF FactsFrom
<1>2. IsFiniteSet(F)
  BY <1>1, FS_Subset, MemoryAssumption
<1>3. Cardinality(F) \in Nat
  BY <1>2, FS_CardinalityType
<1>4. \A n \in 1..Cardinality(F) : Nth(n) \in F
  <2> TAKE n \in 1..Cardinality(F)
  <2>1. \E k \in F : Cardinality({j \in F : j < k}) = n - 1
    BY <1>1, <1>2, EveryRankIsTaken
  <2> QED  BY <2>1
<1>5. \A k \in F : k \in Keys /\ given[k] \in Values
  BY <1>1 DEF FactsFrom
<1>6. OrderedFacts(given) = [n \in 1..Cardinality(F) |-> <<Nth(n), given[Nth(n)]>>]
  BY Zenon DEF OrderedFacts
<1> HIDE DEF F, Nth
<1>7. \A n \in 1..Cardinality(F) : <<Nth(n), given[Nth(n)]>> \in Keys \X Values
  BY <1>4, <1>5
<1>8. OrderedFacts(given) \in Seq(Keys \X Values) /\ Len(OrderedFacts(given)) = Cardinality(F)
  BY <1>3, <1>6, <1>7
<1>9. F # {} => Cardinality(F) # 0
  BY <1>2, FS_EmptySet
<1> QED  BY <1>8, <1>9 DEF F

-----------------------------------------------------------------------------
(* Types, and the course of a request *)

\* What a request has done by the time it is where it is.
Flow(x) ==
  /\ x.for = "answer" => x.key \in Asked /\ x.turn # None
  /\ x.for # "answer" => x.turn = None
  /\ x.pc \in {"append", "finish"} => x.for = "answer" /\ ~x.asks
  /\ x.pc \in {"clock", "current", "write", "project"} => x.todo # <<>>
  /\ x.pc = "upsert" => x.read # None
  /\ x.pc = "upsert" /\ x.todo = <<>> => x.asks
  /\ x.pc = "profile" => x.asks /\ x.todo = <<>>
  /\ x.pc = "complete" => x.asks /\ x.todo = <<>> /\ x.wrote # None
  /\ x.pc = "commit" /\ x.asks => x.done # "no" /\ x.wrote # None
  /\ x.pc \in {"finish", "commit"} => x.todo = <<>>
  /\ x.done # "no" => x.pc = "commit" /\ x.asks
  /\ x.pc # "upsert" => x.wrote = x.read
  /\ x.wrote # None => x.read # None

RequestsFlow == \A r \in Requests : req[r] # Idle => Flow(req[r])

LEMMA OpenRequest ==
  ASSUME TypeOK, NEW r \in Requests, req[r].pc # "idle"
  PROVE  req[r] \in Open /\ req[r] # Idle
  BY DEF TypeOK, Idle

LEMMA NotIdle == \A x \in Open : x # Idle /\ x.pc # "idle"
  BY DEF Open, Idle

\* A request that has finished with a fact, or has none, goes on as its list and
\* its kind say.
Ready(x) ==
  /\ x.for = "answer" => x.key \in Asked /\ x.turn # None
  /\ x.for # "answer" => x.turn = None
  /\ x.wrote = x.read
  /\ x.done = "no"

LEMMA Continued ==
  ASSUME NEW x \in Open, Ready(x)
  PROVE  /\ Continue(x) \in Open /\ Flow(Continue(x))
         /\ Continue(x).pc = (IF x.todo # <<>> THEN "clock"
                              ELSE IF x.asks THEN "profile"
                              ELSE IF x.for = "answer" THEN "finish"
                              ELSE "commit")
         /\ Continue(x).for = x.for /\ Continue(x).key = x.key /\ Continue(x).turn = x.turn
         /\ Continue(x).todo = x.todo /\ Continue(x).asks = x.asks /\ Continue(x).own = x.own
         /\ Continue(x).read = x.read /\ Continue(x).wrote = x.wrote
         /\ Continue(x).done = x.done
<1> DEFINE p == IF x.todo # <<>> THEN "clock"
                ELSE IF x.asks THEN "profile"
                ELSE IF x.for = "answer" THEN "finish"
                ELSE "commit"
<1>1. Continue(x) = [x EXCEPT !.at = 0, !.cur = 0, !.pc = p]
  BY DEF Continue
<1>2. 0 \in Nat /\ p \in {"append", "clock", "current", "write", "project", "upsert",
                            "finish", "profile", "complete", "commit"}
  OBVIOUS
<1>3. Continue(x) \in Open
  <2> HIDE DEF p
  <2> QED  BY <1>1, <1>2, ZenonT(40) DEF Open
<1>4. /\ Continue(x).pc = p
      /\ Continue(x).for = x.for /\ Continue(x).key = x.key /\ Continue(x).turn = x.turn
      /\ Continue(x).todo = x.todo /\ Continue(x).asks = x.asks /\ Continue(x).own = x.own
      /\ Continue(x).read = x.read /\ Continue(x).wrote = x.wrote
      /\ Continue(x).done = x.done
  <2> HIDE DEF p
  <2> QED  BY <1>1 DEF Open
<1>5. Flow(Continue(x))
  BY <1>4 DEF Flow, Ready
<1> QED  BY <1>3, <1>4, <1>5

\* So does one that has dealt with the first fact of its list.
LEMMA AssertedNext ==
  ASSUME NEW x \in Open, Ready(x), x.todo # <<>>
  PROVE  /\ Asserted(x) \in Open /\ Flow(Asserted(x))
         /\ Asserted(x).pc = (IF Tail(x.todo) # <<>> THEN "clock"
                              ELSE IF x.asks THEN "profile"
                              ELSE IF x.for = "answer" THEN "finish"
                              ELSE "commit")
         /\ Asserted(x).for = x.for /\ Asserted(x).key = x.key /\ Asserted(x).turn = x.turn
         /\ Asserted(x).todo = Tail(x.todo) /\ Asserted(x).asks = x.asks
         /\ Asserted(x).own = x.own /\ Asserted(x).read = x.read
         /\ Asserted(x).wrote = x.wrote /\ Asserted(x).done = x.done
<1> DEFINE y == [x EXCEPT !.todo = Tail(@)]
<1>1. x.todo \in Seq(Keys \X Values)
  BY DEF Open
<1>2. Tail(x.todo) \in Seq(Keys \X Values)
  BY <1>1
<1>3. y \in Open /\ y.todo = Tail(x.todo)
  BY <1>2 DEF Open
<1>4. /\ y.for = x.for /\ y.key = x.key /\ y.turn = x.turn /\ y.asks = x.asks
      /\ y.own = x.own /\ y.read = x.read /\ y.wrote = x.wrote /\ y.done = x.done
  BY DEF Open
<1>5. Ready(y)
  BY <1>4 DEF Ready
<1>6. Asserted(x) = Continue(y)
  BY DEF Asserted
<1> HIDE DEF y
<1>7. /\ Continue(y) \in Open /\ Flow(Continue(y))
      /\ Continue(y).pc = (IF y.todo # <<>> THEN "clock"
                           ELSE IF y.asks THEN "profile"
                           ELSE IF y.for = "answer" THEN "finish"
                           ELSE "commit")
      /\ Continue(y).for = y.for /\ Continue(y).key = y.key /\ Continue(y).turn = y.turn
      /\ Continue(y).todo = y.todo /\ Continue(y).asks = y.asks /\ Continue(y).own = y.own
      /\ Continue(y).read = y.read /\ Continue(y).wrote = y.wrote
      /\ Continue(y).done = y.done
  BY <1>3, <1>5, Continued
<1> QED  BY <1>3, <1>4, <1>6, <1>7

-----------------------------------------------------------------------------
(* What each step makes of its request *)

\* What a request read from the database, and the head of its list, are typed.
LEMMA Reading ==
  ASSUME TypeOK, NEW r \in Requests, req[r] \in Open
  PROVE  /\ \A k \in Keys : /\ OpenRow(k) \in 0..Len(facts[k])
                            /\ Believed(k) \in Values \cup {None}
         /\ Visible(r) \in Beliefs
         /\ Transcript(r) \in [Asked -> Answer]
         /\ req[r].todo # <<>> => Key(r) \in Keys /\ Value(r) \in Values
<1>1. ASSUME NEW k \in Keys
      PROVE  OpenRow(k) \in 0..Len(facts[k]) /\ Believed(k) \in Values \cup {None}
  <2>1. facts[k] \in Seq(Row) /\ Len(facts[k]) \in Nat
    BY DEF TypeOK
  <2>2. OpenRow(k) \in 0..Len(facts[k])
    BY <2>1 DEF OpenRow
  <2>3. \A i \in 1..Len(facts[k]) : facts[k][i].value \in Values
    <3>1. \A i \in 1..Len(facts[k]) : facts[k][i] \in Row
      BY <2>1
    <3> QED  BY <3>1 DEF Row
  <2> QED  BY <2>1, <2>2, <2>3 DEF Believed
<1>2. Visible(r) \in Beliefs
  <2>1. \A k \in Keys : req[r].own[k] # None => req[r].own[k].value \in Values
    BY DEF Open, Written
  <2> QED  BY <1>1, <2>1 DEF Visible, Beliefs
<1>3. Transcript(r) \in [Asked -> Answer]
  <2>1. req[r].turn \in Answer
    BY DEF Open
  <2> QED  BY <2>1 DEF Transcript, TypeOK
<1>4. req[r].todo # <<>> => Key(r) \in Keys /\ Value(r) \in Values
  <2>1. req[r].todo \in Seq(Keys \X Values)
    BY DEF Open
  <2>2. req[r].todo # <<>> => Head(req[r].todo) \in Keys \X Values
    BY <2>1
  <2> QED  BY <2>2 DEF Key, Value
<1> QED  BY <1>1, <1>2, <1>3, <1>4

\* Only r's request moves, and nothing that is stored.
Alone(r) == /\ \A q \in Requests \ {r} : req'[q] = req[q]
            /\ req'[r] \in Open /\ Flow(req'[r])

\* What a request is about does not change.
Life(x, y) == y.for = x.for /\ y.key = x.key /\ y.turn = x.turn

LEMMA AppendTurnMoves ==
  ASSUME TypeOK, RequestsFlow, NEW r \in Requests, AppendTurn(r)
  PROVE  /\ Alone(r) /\ UNCHANGED <<clock, stored>>
         /\ req[r] \in Open /\ Flow(req[r]) /\ req[r].pc = "append"
         /\ Life(req[r], req'[r]) /\ req'[r].own = req[r].own
         /\ req'[r].asks = req[r].asks
         /\ req'[r].todo = (IF req[r].turn = "skip" THEN <<>> ELSE <<<<req[r].key, req[r].turn>>>>)
         /\ req'[r].read = req[r].read /\ req'[r].wrote = req[r].wrote
         /\ req'[r].done = req[r].done
         /\ req'[r].pc \in {"clock", "finish"}
         /\ \A q \in Requests \ {r} : req[q] # Idle => ~Appended(q)
<1>1. req[r].pc = "append"
  BY DEF AppendTurn
<1>2. req[r] \in Open /\ Flow(req[r])
  BY <1>1, OpenRequest DEF RequestsFlow
<1> DEFINE todo == IF req[r].turn = "skip" THEN <<>> ELSE <<<<req[r].key, req[r].turn>>>>
           y == [req[r] EXCEPT !.todo = todo]
<1>3. req'[r] = Continue(y) /\ \A q \in Requests \ {r} : req'[q] = req[q]
  BY Zenon DEF AppendTurn, TypeOK
<1>4. todo \in Seq(Keys \X Values)
  <2>1. req[r].key \in Keys /\ req[r].turn \in Values \cup {"skip"}
    BY <1>1, <1>2, MemoryAssumption DEF Open, Flow, Answer
  <2> QED  BY <2>1
<1>5. y \in Open
  <2> HIDE DEF todo
  <2> QED  BY <1>2, <1>4, Zenon DEF Open
<1>6. /\ Life(req[r], y) /\ y.own = req[r].own /\ y.asks = req[r].asks
      /\ y.read = req[r].read /\ y.wrote = req[r].wrote /\ y.done = req[r].done
      /\ y.todo = todo
  <2> HIDE DEF todo
  <2> QED  BY <1>2 DEF Open, Life
<1>11. todo = (IF req[r].turn = "skip" THEN <<>> ELSE <<<<req[r].key, req[r].turn>>>>)
  OBVIOUS
<1> HIDE DEF y, todo
<1>7. Ready(y) /\ y.for = "answer" /\ ~y.asks
  BY <1>1, <1>2, <1>6 DEF Flow, Ready, Life
<1>8. /\ Continue(y) \in Open /\ Flow(Continue(y))
      /\ Life(y, Continue(y)) /\ Continue(y).own = y.own
      /\ Continue(y).read = y.read /\ Continue(y).wrote = y.wrote
      /\ Continue(y).done = y.done /\ Continue(y).pc \in {"clock", "finish"}
      /\ Continue(y).asks = y.asks /\ Continue(y).todo = y.todo
  BY <1>5, <1>7, Continued DEF Life
<1>9. \A q \in Requests \ {r} : req[q] # Idle => ~Appended(q)
  BY DEF AppendTurn, Others
<1>10. UNCHANGED <<clock, stored>>
  BY DEF AppendTurn
<1> QED  BY <1>1, <1>2, <1>3, <1>6, <1>8, <1>9, <1>10, <1>11 DEF Alone, Life

LEMMA ReadClockMoves ==
  ASSUME TypeOK, RequestsFlow, NEW r \in Requests, ReadClock(r)
  PROVE  /\ Alone(r) /\ UNCHANGED stored /\ clock' = clock + 1
         /\ req[r] \in Open /\ Flow(req[r]) /\ req[r].pc = "clock"
         /\ Life(req[r], req'[r]) /\ req'[r].asks = req[r].asks
         /\ req'[r].own = req[r].own /\ req'[r].todo = req[r].todo
         /\ req'[r].read = req[r].read /\ req'[r].wrote = req[r].wrote
         /\ req'[r].done = req[r].done
         /\ req'[r].pc = "current" /\ req'[r].at = clock'
<1>1. req[r].pc = "clock"
  BY DEF ReadClock
<1>2. req[r] \in Open /\ Flow(req[r])
  BY <1>1, OpenRequest DEF RequestsFlow
<1> DEFINE y == [req[r] EXCEPT !.at = clock', !.pc = "current"]
<1>3. req'[r] = y /\ \A q \in Requests \ {r} : req'[q] = req[q]
  BY <1>2 DEF ReadClock, TypeOK
<1>4. clock' \in Nat /\ clock' = clock + 1 /\ UNCHANGED stored
  BY DEF ReadClock, TypeOK
<1>5. y \in Open
  BY <1>2, <1>4, ZenonT(40) DEF Open
<1>6. /\ Life(req[r], y) /\ y.own = req[r].own /\ y.todo = req[r].todo /\ y.asks = req[r].asks
      /\ y.read = req[r].read /\ y.wrote = req[r].wrote /\ y.done = req[r].done
      /\ y.pc = "current" /\ y.at = clock'
  BY <1>2 DEF Open, Life
<1> HIDE DEF y
<1>7. Flow(y)
  BY <1>1, <1>2, <1>6 DEF Flow, Life
<1> QED  BY <1>1, <1>2, <1>3, <1>4, <1>5, <1>6, <1>7 DEF Alone

\* The value is believed already, or the open row is noted.
LEMMA ReadCurrentMoves ==
  ASSUME TypeOK, RequestsFlow, NEW r \in Requests, ReadCurrent(r)
  PROVE  /\ Alone(r) /\ UNCHANGED <<clock, stored>>
         /\ req[r] \in Open /\ Flow(req[r]) /\ req[r].pc = "current"
         /\ Life(req[r], req'[r]) /\ req'[r].asks = req[r].asks
         /\ req'[r].own = req[r].own
         /\ req'[r].read = req[r].read /\ req'[r].wrote = req[r].wrote
         /\ req'[r].done = req[r].done
         /\ req[r].todo # <<>>
         /\ \/ /\ \/ req'[r].pc \in {"clock", "profile", "finish"}
                  \/ req'[r].pc = "commit" /\ req'[r].for # "answer"
               /\ req'[r].todo = Tail(req[r].todo)
            \/ /\ req'[r].pc = "write" /\ req'[r].at = req[r].at
               /\ req'[r].todo = req[r].todo /\ req'[r].cur = OpenRow(Key(r))
               /\ Visible(r)[Key(r)] # Value(r)
<1>1. req[r].pc = "current"
  BY DEF ReadCurrent
<1>2. req[r] \in Open /\ Flow(req[r])
  BY <1>1, OpenRequest DEF RequestsFlow
<1>3. UNCHANGED <<clock, stored>> /\ \A q \in Requests \ {r} : req'[q] = req[q]
  BY DEF ReadCurrent, TypeOK
<1>4. CASE Visible(r)[Key(r)] = Value(r)
  <2>1. req'[r] = Asserted(req[r])
    BY <1>4 DEF ReadCurrent, TypeOK
  <2>2. Ready(req[r]) /\ req[r].todo # <<>>
    BY <1>1, <1>2 DEF Ready, Flow
  <2> QED  BY <1>1, <1>2, <1>3, <2>1, <2>2, AssertedNext DEF Alone, Life
<1>5. CASE Visible(r)[Key(r)] # Value(r)
  <2> DEFINE y == [req[r] EXCEPT !.cur = OpenRow(Key(r)), !.pc = "write"]
  <2>1. req'[r] = y
    BY <1>5 DEF ReadCurrent, TypeOK
  <2>2. req[r].todo # <<>>
    BY <1>1, <1>2 DEF Flow
  <2>3. OpenRow(Key(r)) \in Nat
    BY <1>2, <2>2, Reading
  <2>4. y \in Open
    BY <1>2, <2>3, Zenon DEF Open
  <2>5. /\ Life(req[r], y) /\ y.own = req[r].own /\ y.todo = req[r].todo /\ y.asks = req[r].asks
        /\ y.read = req[r].read /\ y.wrote = req[r].wrote /\ y.done = req[r].done
        /\ y.pc = "write" /\ y.at = req[r].at /\ y.cur = OpenRow(Key(r))
    <3> DEFINE o == OpenRow(Key(r))
    <3>1. y = [req[r] EXCEPT !.cur = o, !.pc = "write"] /\ o = OpenRow(Key(r))
      OBVIOUS
    <3> HIDE DEF y, o
    <3> QED  BY <1>2, <3>1 DEF Open, Life
  <2> HIDE DEF y
  <2>6. Flow(y)
    BY <1>1, <1>2, <2>5 DEF Flow, Life
  <2> QED  BY <1>1, <1>2, <1>3, <1>5, <2>1, <2>2, <2>4, <2>5, <2>6 DEF Alone
<1> QED  BY <1>4, <1>5

\* The row that was read is still the open one, nobody else holds the key, and
\* no interval ends before it begins.
LEMMA WriteMoves ==
  ASSUME TypeOK, RequestsFlow, NEW r \in Requests, Write(r)
  PROVE  /\ Alone(r) /\ UNCHANGED <<clock, stored>>
         /\ req[r] \in Open /\ Flow(req[r]) /\ req[r].pc = "write"
         /\ Life(req[r], req'[r]) /\ req'[r].asks = req[r].asks
         /\ req'[r].read = req[r].read /\ req'[r].wrote = req[r].wrote
         /\ req'[r].done = req[r].done
         /\ req'[r].pc = "project" /\ req'[r].todo = req[r].todo
         /\ Key(r) \in Keys /\ Key(r)' = Key(r)
         /\ req'[r].own = [req[r].own EXCEPT ![Key(r)] =
                [closes |-> OpenRow(Key(r)), value |-> Value(r), at |-> req[r].at]]
         /\ \A q \in Requests \ {r} : req[q] # Idle => req[q].own[Key(r)] = None
         /\ OpenRow(Key(r)) # 0 => req[r].at >= facts[Key(r)][OpenRow(Key(r))].from
<1>1. req[r].pc = "write"
  BY DEF Write
<1>2. req[r] \in Open /\ Flow(req[r])
  BY <1>1, OpenRequest DEF RequestsFlow
<1>3. UNCHANGED <<clock, stored>> /\ \A q \in Requests \ {r} : req'[q] = req[q]
  BY DEF Write, TypeOK
<1> DEFINE w == [closes |-> OpenRow(Key(r)), value |-> Value(r), at |-> req[r].at]
           own == [req[r].own EXCEPT ![Key(r)] = w]
           y == [req[r] EXCEPT !.own = own, !.pc = "project"]
<1>4. OpenRow(Key(r)) = req[r].cur
  BY DEF Write
<1>5. req'[r] = y
  BY <1>2, <1>4 DEF Write, TypeOK
<1>6. Key(r) \in Keys /\ Value(r) \in Values /\ OpenRow(Key(r)) \in Nat
  BY <1>1, <1>2, Reading DEF Flow
<1>7. w \in Written
  BY <1>2, <1>6 DEF Written, Open
<1>8. req[r].own \in [Keys -> Written \cup {None}]
  BY <1>2 DEF Open
<1>9. own \in [Keys -> Written \cup {None}]
  <2> HIDE DEF w
  <2> QED  BY <1>6, <1>7, <1>8
<1>10. y \in Open
  <2> HIDE DEF own
  <2> QED  BY <1>2, <1>9, Zenon DEF Open
<1>11. /\ Life(req[r], y) /\ y.own = own /\ y.todo = req[r].todo /\ y.asks = req[r].asks
       /\ y.read = req[r].read /\ y.wrote = req[r].wrote /\ y.done = req[r].done
       /\ y.pc = "project"
  <2> HIDE DEF own
  <2> QED  BY <1>2 DEF Open, Life
<1>12. own = [req[r].own EXCEPT ![Key(r)] =
                [closes |-> OpenRow(Key(r)), value |-> Value(r), at |-> req[r].at]]
  OBVIOUS
<1> HIDE DEF y, own, w
<1>13. Flow(y)
  BY <1>1, <1>2, <1>11 DEF Flow, Life
<1>14. Key(r)' = Key(r)
  BY <1>5, <1>11 DEF Key
<1>15. /\ \A q \in Requests \ {r} : req[q] # Idle => req[q].own[Key(r)] = None
       /\ OpenRow(Key(r)) # 0 => req[r].at >= facts[Key(r)][OpenRow(Key(r))].from
  BY <1>4 DEF Write, Others
<1> QED  BY <1>1, <1>2, <1>3, <1>5, <1>6, <1>10, <1>11, <1>12, <1>13, <1>14, <1>15 DEF Alone

\* There is no profile yet, or the facts are read for it.
LEMMA RefreshMoves ==
  ASSUME TypeOK, RequestsFlow, NEW r \in Requests, Refresh(r)
  PROVE  /\ Alone(r) /\ UNCHANGED <<clock, stored>>
         /\ req[r] \in Open /\ Flow(req[r]) /\ req[r].pc = "project"
         /\ Life(req[r], req'[r]) /\ req'[r].asks = req[r].asks
         /\ req'[r].own = req[r].own
         /\ req'[r].wrote = req[r].wrote /\ req'[r].done = req[r].done
         /\ req[r].todo # <<>>
         /\ \/ /\ profile = None /\ req'[r].read = req[r].read
               /\ req'[r].todo = Tail(req[r].todo)
               /\ \/ req'[r].pc \in {"clock", "profile", "finish"}
                  \/ req'[r].pc = "commit" /\ req'[r].for # "answer"
            \/ /\ profile # None /\ req'[r].pc = "upsert" /\ req'[r].read = Visible(r)
               /\ req'[r].todo = req[r].todo
<1>1. req[r].pc = "project"
  BY DEF Refresh
<1>2. req[r] \in Open /\ Flow(req[r])
  BY <1>1, OpenRequest DEF RequestsFlow
<1>3. UNCHANGED <<clock, stored>> /\ \A q \in Requests \ {r} : req'[q] = req[q]
  BY DEF Refresh, TypeOK
<1>4. CASE profile = None
  <2>1. req'[r] = Asserted(req[r])
    BY <1>4 DEF Refresh, TypeOK
  <2>2. Ready(req[r]) /\ req[r].todo # <<>>
    BY <1>1, <1>2 DEF Ready, Flow
  <2> QED  BY <1>1, <1>2, <1>3, <1>4, <2>1, <2>2, AssertedNext DEF Alone, Life
<1>5. CASE profile # None
  <2> DEFINE y == [req[r] EXCEPT !.read = Visible(r), !.pc = "upsert"]
  <2>1. req'[r] = y
    BY <1>5 DEF Refresh, TypeOK
  <2>2. Visible(r) \in Beliefs /\ Visible(r) # None
    <3>1. Visible(r) \in Beliefs
      BY <1>2, Reading
    <3>2. None \notin Beliefs
      BY NoBeliefAssumption
    <3> QED  BY <3>1, <3>2
  <2>3. y \in Open
    BY <1>2, <2>2, Zenon DEF Open
  <2>4. /\ Life(req[r], y) /\ y.own = req[r].own /\ y.todo = req[r].todo /\ y.asks = req[r].asks
        /\ y.read = Visible(r) /\ y.wrote = req[r].wrote /\ y.done = req[r].done
        /\ y.pc = "upsert"
    BY <1>2 DEF Open, Life
  <2> HIDE DEF y
  <2>5. Flow(y) /\ req[r].todo # <<>>
    BY <1>1, <1>2, <2>2, <2>4 DEF Flow, Life
  <2> QED  BY <1>1, <1>2, <1>3, <1>5, <2>1, <2>3, <2>4, <2>5 DEF Alone
<1> QED  BY <1>4, <1>5

\* Every question that applies has its answer, and one of them is not a skip.
Answered(given) == Through(given) /\ FactsFrom(given) # {}

LEMMA FinishMoves ==
  ASSUME TypeOK, RequestsFlow, NEW r \in Requests, FinishIfDone(r)
  PROVE  /\ Alone(r) /\ UNCHANGED <<clock, stored>>
         /\ req[r] \in Open /\ Flow(req[r]) /\ req[r].pc = "finish"
         /\ Life(req[r], req'[r]) /\ req'[r].own = req[r].own
         /\ req'[r].read = req[r].read /\ req'[r].wrote = req[r].wrote
         /\ req'[r].done = req[r].done
         /\ \/ /\ req'[r].pc = "clock" /\ req'[r].asks
               /\ req'[r].todo = OrderedFacts(Transcript(r))
            \/ /\ req'[r].pc = "commit" /\ ~Answered(Transcript(r))
               /\ req'[r].todo = <<>> /\ req'[r].asks = req[r].asks
<1>1. req[r].pc = "finish"
  BY DEF FinishIfDone
<1>2. req[r] \in Open /\ Flow(req[r])
  BY <1>1, OpenRequest DEF RequestsFlow
<1>3. UNCHANGED <<clock, stored>> /\ \A q \in Requests \ {r} : req'[q] = req[q]
  BY DEF FinishIfDone, TypeOK
<1>4. Transcript(r) \in [Asked -> Answer]
  BY <1>2, Reading
<1>5. CASE Answered(Transcript(r))
  <2> DEFINE todo == OrderedFacts(Transcript(r))
             y == [req[r] EXCEPT !.todo = todo, !.asks = TRUE]
  <2>1. req'[r] = Continue(y)
    BY <1>5, Zenon DEF FinishIfDone, TypeOK, Answered
  <2>2. todo \in Seq(Keys \X Values) /\ todo # <<>>
    BY <1>4, <1>5, OrderedFactsType DEF Answered
  <2>3. y \in Open
    <3> HIDE DEF todo
    <3> QED  BY <1>2, <2>2, Zenon DEF Open
  <2>4. /\ Life(req[r], y) /\ y.own = req[r].own /\ y.todo = todo /\ y.asks
        /\ y.read = req[r].read /\ y.wrote = req[r].wrote /\ y.done = req[r].done
    <3> HIDE DEF todo
    <3> QED  BY <1>2 DEF Open, Life
  <2>7. todo = OrderedFacts(Transcript(r))
    OBVIOUS
  <2> HIDE DEF y, todo
  <2>5. Ready(y)
    BY <1>1, <1>2, <2>4 DEF Flow, Ready, Life
  <2>6. /\ Continue(y) \in Open /\ Flow(Continue(y))
        /\ Life(y, Continue(y)) /\ Continue(y).own = y.own
        /\ Continue(y).read = y.read /\ Continue(y).wrote = y.wrote
        /\ Continue(y).done = y.done /\ Continue(y).pc = "clock"
        /\ Continue(y).todo = y.todo /\ Continue(y).asks = y.asks
    BY <2>2, <2>3, <2>4, <2>5, Continued DEF Life
  <2> QED  BY <1>1, <1>2, <1>3, <2>1, <2>4, <2>6, <2>7 DEF Alone, Life
<1>6. CASE ~Answered(Transcript(r))
  <2> DEFINE y == [req[r] EXCEPT !.pc = "commit"]
  <2>1. req'[r] = y
    BY <1>6, Zenon DEF FinishIfDone, TypeOK, Answered
  <2>2. y \in Open
    BY <1>2, Zenon DEF Open
  <2>3. /\ Life(req[r], y) /\ y.own = req[r].own /\ y.todo = req[r].todo /\ y.asks = req[r].asks
        /\ y.read = req[r].read /\ y.wrote = req[r].wrote /\ y.done = req[r].done
        /\ y.pc = "commit"
    BY <1>2 DEF Open, Life
  <2> HIDE DEF y
  <2>4. Flow(y) /\ y.todo = <<>>
    BY <1>1, <1>2, <2>3 DEF Flow, Life
  <2> QED  BY <1>1, <1>2, <1>3, <1>6, <2>1, <2>2, <2>3, <2>4 DEF Alone
<1> QED  BY <1>5, <1>6

LEMMA ProjectMoves ==
  ASSUME TypeOK, RequestsFlow, NEW r \in Requests, Project(r)
  PROVE  /\ Alone(r) /\ UNCHANGED <<clock, stored>>
         /\ req[r] \in Open /\ Flow(req[r]) /\ req[r].pc = "profile"
         /\ Life(req[r], req'[r]) /\ req'[r].own = req[r].own
         /\ req'[r].wrote = req[r].wrote /\ req'[r].done = req[r].done
         /\ req'[r].read = Visible(r) /\ req'[r].pc = "upsert"
         /\ req'[r].asks /\ req'[r].todo = <<>> /\ req[r].asks /\ req[r].todo = <<>>
<1>1. req[r].pc = "profile"
  BY DEF Project
<1>2. req[r] \in Open /\ Flow(req[r])
  BY <1>1, OpenRequest DEF RequestsFlow
<1>3. UNCHANGED <<clock, stored>> /\ \A q \in Requests \ {r} : req'[q] = req[q]
  BY DEF Project, TypeOK
<1> DEFINE y == [req[r] EXCEPT !.read = Visible(r), !.pc = "upsert"]
<1>4. req'[r] = y
  BY DEF Project, TypeOK
<1>5. Visible(r) \in Beliefs /\ Visible(r) # None
  <2>1. Visible(r) \in Beliefs
    BY <1>2, Reading
  <2> QED  BY <2>1, NoBeliefAssumption
<1>6. y \in Open
  BY <1>2, <1>5, Zenon DEF Open
<1>7. /\ Life(req[r], y) /\ y.own = req[r].own /\ y.todo = req[r].todo /\ y.asks = req[r].asks
      /\ y.read = Visible(r) /\ y.wrote = req[r].wrote /\ y.done = req[r].done
      /\ y.pc = "upsert"
  BY <1>2 DEF Open, Life
<1> HIDE DEF y
<1>8. Flow(y) /\ y.asks /\ y.todo = <<>> /\ req[r].asks /\ req[r].todo = <<>>
  BY <1>1, <1>2, <1>5, <1>7 DEF Flow, Life
<1> QED  BY <1>1, <1>2, <1>3, <1>4, <1>6, <1>7, <1>8 DEF Alone

\* After the last upsert of the interview its session is completed; after that of
\* a correction the list goes on.
LEMMA UpsertMoves ==
  ASSUME TypeOK, RequestsFlow, NEW r \in Requests, Upsert(r)
  PROVE  /\ Alone(r) /\ UNCHANGED <<clock, stored>>
         /\ req[r] \in Open /\ Flow(req[r]) /\ req[r].pc = "upsert"
         /\ Life(req[r], req'[r]) /\ req'[r].asks = req[r].asks
         /\ req'[r].own = req[r].own
         /\ req'[r].read = req[r].read /\ req'[r].wrote = req[r].read
         /\ req'[r].done = req[r].done
         /\ \/ /\ req[r].todo = <<>> /\ req'[r].pc = "complete"
               /\ req'[r].todo = req[r].todo
            \/ /\ req[r].todo # <<>> /\ req'[r].todo = Tail(req[r].todo)
               /\ \/ req'[r].pc \in {"clock", "profile", "finish"}
                  \/ req'[r].pc = "commit" /\ req'[r].for # "answer"
<1>1. req[r].pc = "upsert"
  BY DEF Upsert
<1>2. req[r] \in Open /\ Flow(req[r])
  BY <1>1, OpenRequest DEF RequestsFlow
<1>3. UNCHANGED <<clock, stored>> /\ \A q \in Requests \ {r} : req'[q] = req[q]
  BY DEF Upsert, TypeOK
<1> DEFINE x == [req[r] EXCEPT !.wrote = req[r].read]
<1>4. req'[r] = IF x.todo = <<>> THEN [x EXCEPT !.pc = "complete"] ELSE Asserted(x)
  BY Zenon DEF Upsert, TypeOK
<1>5. x \in Open
  <2>1. req[r].read \in Beliefs \cup {None}
    BY <1>2 DEF Open
  <2> QED  BY <1>2, <2>1, Zenon DEF Open
<1>6. /\ Life(req[r], x) /\ x.own = req[r].own /\ x.todo = req[r].todo /\ x.asks = req[r].asks
      /\ x.read = req[r].read /\ x.wrote = req[r].read /\ x.done = req[r].done
      /\ x.pc = "upsert"
  <2> DEFINE b == req[r].read
  <2>1. x = [req[r] EXCEPT !.wrote = b]
    OBVIOUS
  <2>2. b = req[r].read
    OBVIOUS
  <2> HIDE DEF b, x
  <2> QED  BY <1>1, <1>2, <2>1, <2>2 DEF Open, Life
<1> HIDE DEF x
<1>7. CASE x.todo = <<>>
  <2> DEFINE y == [x EXCEPT !.pc = "complete"]
  <2>1. y \in Open
    BY <1>5, Zenon DEF Open
  <2>2. /\ Life(x, y) /\ y.own = x.own /\ y.todo = x.todo /\ y.asks = x.asks
        /\ y.read = x.read /\ y.wrote = x.wrote /\ y.done = x.done /\ y.pc = "complete"
    BY <1>5 DEF Open, Life
  <2>3. req'[r] = y
    BY <1>4, <1>7
  <2> HIDE DEF y
  <2>4. Flow(y)
    BY <1>1, <1>2, <1>6, <1>7, <2>2 DEF Flow, Life
  <2> QED  BY <1>1, <1>2, <1>3, <1>6, <1>7, <2>1, <2>2, <2>3, <2>4 DEF Alone, Life
<1>8. CASE x.todo # <<>>
  <2>1. req'[r] = Asserted(x)
    BY <1>4, <1>8
  <2>2. Ready(x)
    BY <1>1, <1>2, <1>6 DEF Flow, Ready, Life
  <2>3. /\ Asserted(x) \in Open /\ Flow(Asserted(x))
        /\ Life(x, Asserted(x)) /\ Asserted(x).own = x.own
        /\ Asserted(x).read = x.read /\ Asserted(x).wrote = x.wrote
        /\ Asserted(x).done = x.done /\ Asserted(x).asks = x.asks
        /\ Asserted(x).todo = Tail(x.todo)
        /\ \/ Asserted(x).pc \in {"clock", "profile", "finish"}
           \/ Asserted(x).pc = "commit" /\ Asserted(x).for # "answer"
    BY <1>5, <1>8, <2>2, AssertedNext DEF Life
  <2> QED  BY <1>1, <1>2, <1>3, <1>6, <1>8, <2>1, <2>3 DEF Alone, Life
<1> QED  BY <1>7, <1>8

LEMMA CompleteMoves ==
  ASSUME TypeOK, RequestsFlow, NEW r \in Requests, Complete(r)
  PROVE  /\ Alone(r) /\ UNCHANGED <<clock, stored>>
         /\ req[r] \in Open /\ Flow(req[r]) /\ req[r].pc = "complete"
         /\ Life(req[r], req'[r]) /\ req'[r].own = req[r].own
         /\ req'[r].read = req[r].read /\ req'[r].wrote = req[r].wrote
         /\ req'[r].asks = req[r].asks /\ req'[r].todo = req[r].todo
         /\ req'[r].pc = "commit"
         /\ req'[r].done = (IF interview = "completed" THEN "again" ELSE "first")
         /\ \A q \in Requests \ {r} : req[q] # Idle => req[q].done = "no"
<1>1. req[r].pc = "complete"
  BY DEF Complete
<1>2. req[r] \in Open /\ Flow(req[r])
  BY <1>1, OpenRequest DEF RequestsFlow
<1>3. /\ UNCHANGED <<clock, stored>> /\ \A q \in Requests \ {r} : req'[q] = req[q]
      /\ \A q \in Requests \ {r} : req[q] # Idle => req[q].done = "no"
  BY DEF Complete, TypeOK, Others
<1> DEFINE d == IF interview = "completed" THEN "again" ELSE "first"
           y == [req[r] EXCEPT !.pc = "commit", !.done = d]
<1>4. req'[r] = y
  BY DEF Complete, TypeOK
<1>5. d \in {"no", "first", "again"} /\ d # "no"
  OBVIOUS
<1>6. y \in Open
  <2> HIDE DEF d
  <2> QED  BY <1>2, <1>5, ZenonT(40) DEF Open
<1>7. /\ Life(req[r], y) /\ y.own = req[r].own /\ y.todo = req[r].todo /\ y.asks = req[r].asks
      /\ y.read = req[r].read /\ y.wrote = req[r].wrote /\ y.done = d
      /\ y.pc = "commit"
  <2> HIDE DEF d
  <2> QED  BY <1>2 DEF Open, Life
<1> HIDE DEF y
<1>8. Flow(y)
  BY <1>1, <1>2, <1>5, <1>7 DEF Flow, Life
<1> QED  BY <1>1, <1>2, <1>3, <1>4, <1>6, <1>7, <1>8 DEF Alone

\* A request is opened with nothing written and nothing read.
LEMMA RequestMoves ==
  ASSUME TypeOK, NEW r \in Requests, Request(r)
  PROVE  /\ Alone(r) /\ UNCHANGED <<clock, stored>> /\ req[r] = Idle
         /\ req'[r].own = [k \in Keys |-> None]
         /\ req'[r].read = None /\ req'[r].wrote = None /\ req'[r].done = "no"
         /\ req'[r].pc \in {"append", "clock"}
         /\ req'[r].turn # None \/ req'[r].asks => interview # None
         /\ req'[r].turn # None => req'[r].pc = "append"
         /\ \/ req'[r].asks /\ req'[r].for # "correct" /\ req'[r].todo = OrderedFacts(answers)
            \/ ~req'[r].asks /\ req'[r].for = "answer" /\ req'[r].todo = <<>>
            \/ /\ ~req'[r].asks /\ req'[r].for = "correct"
               /\ \E v \in Values : req'[r].todo = <<<<req'[r].key, v>>>>
<1>1. /\ req[r] = Idle /\ UNCHANGED <<clock, stored>>
      /\ \A q \in Requests \ {r} : req'[q] = req[q]
  BY DEF Request, Correct, AnswerQuestion, ConfirmProfile, TypeOK
<1>2. /\ None \in Answer /\ <<>> \in Seq(Keys \X Values) /\ 0 \in Nat
      /\ [k \in Keys |-> None] \in [Keys -> Written \cup {None}]
  BY DEF Answer
<1>3. Blank \in Open
  <2> DEFINE none == [k \in Keys |-> None]
  <2>1. none \in [Keys -> Written \cup {None}]
    BY <1>2
  <2>2. Blank = [pc |-> "clock", for |-> "correct", key |-> None, turn |-> None, todo |-> <<>>,
                 asks |-> FALSE, at |-> 0, cur |-> 0, own |-> none,
                 read |-> None, wrote |-> None, done |-> "no"]
    BY DEF Blank
  <2> HIDE DEF none
  <2> QED  BY <1>2, <2>1, <2>2 DEF Open
<1>4. /\ Blank.pc = "clock" /\ Blank.for = "correct" /\ Blank.turn = None /\ Blank.asks = FALSE
      /\ Blank.own = [k \in Keys |-> None] /\ Blank.read = None /\ Blank.wrote = None
      /\ Blank.done = "no" /\ Blank.todo = <<>>
  BY Zenon DEF Blank
<1> DEFINE Opened(y) ==
      /\ y \in Open /\ Flow(y) /\ y.own = [k \in Keys |-> None]
      /\ y.read = None /\ y.wrote = None /\ y.done = "no"
      /\ y.pc \in {"append", "clock"}
      /\ y.turn # None \/ y.asks => interview # None
      /\ y.turn # None => y.pc = "append"
      /\ \/ y.asks /\ y.for # "correct" /\ y.todo = OrderedFacts(answers)
         \/ ~y.asks /\ y.for = "answer" /\ y.todo = <<>>
         \/ ~y.asks /\ y.for = "correct" /\ \E v \in Values : y.todo = <<<<y.key, v>>>>
<1>5. ASSUME NEW k \in Keys, NEW v \in Values, Correct(r, k, v) PROVE Opened(req'[r])
  <2> DEFINE todo == <<<<k, v>>>>
             y == [Blank EXCEPT !.key = k, !.todo = todo]
  <2>1. req'[r] = y
    BY <1>5 DEF Correct, TypeOK
  <2>2. todo \in Seq(Keys \X Values) /\ todo # <<>>
    OBVIOUS
  <2> HIDE DEF todo
  <2>3. y \in Open
    BY <1>3, <2>2, Zenon DEF Open
  <2>4. /\ y.pc = Blank.pc /\ y.for = Blank.for /\ y.turn = Blank.turn /\ y.asks = Blank.asks
        /\ y.own = Blank.own /\ y.read = Blank.read /\ y.wrote = Blank.wrote
        /\ y.done = Blank.done /\ y.todo = todo /\ y.key = k
    BY <1>3 DEF Open
  <2>5. y.todo = <<<<k, v>>>>
    BY <2>4 DEF todo
  <2> HIDE DEF y
  <2> QED  BY <1>4, <2>1, <2>2, <2>3, <2>4, <2>5 DEF Flow
<1>6. ASSUME NEW k \in Asked, NEW a \in Values \cup {"skip"}, AnswerQuestion(r, k, a)
      PROVE  Opened(req'[r])
  <2> DEFINE y == [Blank EXCEPT !.pc = "append", !.for = "answer", !.key = k, !.turn = a]
  <2>1. req'[r] = y /\ interview = "in_progress"
    BY <1>6, Zenon DEF AnswerQuestion, TypeOK
  <2>2. a \in Answer /\ k \in Keys \cup {None} /\ a # None /\ interview # None
    BY <2>1, MemoryAssumption DEF Answer
  <2>3. y \in Open
    BY <1>3, <2>2, Zenon DEF Open
  <2>4. /\ y.pc = "append" /\ y.for = "answer" /\ y.turn = a /\ y.key = k
        /\ y.asks = Blank.asks /\ y.own = Blank.own /\ y.read = Blank.read
        /\ y.wrote = Blank.wrote /\ y.done = Blank.done /\ y.todo = Blank.todo
    BY <1>3 DEF Open
  <2> HIDE DEF y
  <2> QED  BY <1>4, <2>1, <2>2, <2>3, <2>4 DEF Flow
<1>7. ASSUME ConfirmProfile(r) PROVE Opened(req'[r])
  <2> DEFINE todo == OrderedFacts(answers)
             y == [Blank EXCEPT !.for = "confirm", !.todo = todo, !.asks = TRUE]
  <2>1. req'[r] = y /\ interview # None
    BY <1>7, Zenon DEF ConfirmProfile, TypeOK
  <2>2. todo \in Seq(Keys \X Values) /\ todo # <<>>
    BY <1>7, OrderedFactsType DEF ConfirmProfile, TypeOK
  <2> HIDE DEF todo
  <2>3. y \in Open
    BY <1>3, <2>2, Zenon DEF Open
  <2>4. /\ y.pc = Blank.pc /\ y.for = "confirm" /\ y.turn = Blank.turn /\ y.asks
        /\ y.own = Blank.own /\ y.read = Blank.read /\ y.wrote = Blank.wrote
        /\ y.done = Blank.done /\ y.todo = todo
    BY <1>3 DEF Open
  <2>5. y.todo = OrderedFacts(answers)
    BY <2>4 DEF todo
  <2> HIDE DEF y
  <2> QED  BY <1>4, <2>1, <2>2, <2>3, <2>4, <2>5 DEF Flow
<1>8. Opened(req'[r])
  BY <1>5, <1>6, <1>7 DEF Request
<1> QED  BY <1>1, <1>8, Zenon DEF Alone

-----------------------------------------------------------------------------
(* Types *)

\* The steps of an open request that leave what is stored alone.
Moves(r) ==
  \/ AppendTurn(r) \/ ReadClock(r) \/ ReadCurrent(r) \/ Write(r) \/ Refresh(r)
  \/ FinishIfDone(r) \/ Project(r) \/ Upsert(r) \/ Complete(r)

\* Whatever happens, it happens to one request.
LEMMA NextCases ==
  ASSUME [Next]_vars
  PROVE  \/ Start
         \/ \E r \in Requests : Request(r) \/ Moves(r) \/ Commit(r) \/ Abort(r)
         \/ UNCHANGED vars
  BY DEF Next, Step, Moves

\* No request comes or goes.
LEMMA RequestsStay ==
  ASSUME TypeOK, [Next]_vars
  PROVE  req' = [q \in Requests |-> req'[q]]
<1>1. req = [q \in Requests |-> req[q]]
  BY DEF TypeOK
<1>2. CASE Start \/ UNCHANGED vars
  BY <1>1, <1>2 DEF Start, vars
<1>3. ASSUME NEW r \in Requests, NEW e, req' = [req EXCEPT ![r] = e]
      PROVE  req' = [q \in Requests |-> req'[q]]
  BY <1>1, <1>3
<1>4. ASSUME NEW r \in Requests, Request(r)
      PROVE  \E e : req' = [req EXCEPT ![r] = e]
  BY <1>4, Zenon DEF Request, Correct, AnswerQuestion, ConfirmProfile
<1>5. ASSUME NEW r \in Requests, AppendTurn(r) \/ ReadCurrent(r) \/ Refresh(r) \/ FinishIfDone(r)
                                   \/ Upsert(r) \/ Commit(r) \/ Abort(r)
      PROVE  \E e : req' = [req EXCEPT ![r] = e]
  BY <1>5, Zenon DEF AppendTurn, ReadCurrent, Refresh, FinishIfDone, Upsert, Commit, Abort
<1>6. ASSUME NEW r \in Requests, ReadClock(r) \/ Write(r) \/ Project(r) \/ Complete(r)
      PROVE  req' = [q \in Requests |-> req'[q]]
  BY <1>1, <1>6 DEF ReadClock, Write, Project, Complete
<1> QED  BY <1>2, <1>3, <1>4, <1>5, <1>6, NextCases DEF Moves

LEMMA MovesAlone ==
  ASSUME TypeOK, RequestsFlow, NEW r \in Requests, Request(r) \/ Moves(r)
  PROVE  Alone(r) /\ UNCHANGED stored /\ clock' \in Nat /\ clock' >= clock
<1>1. clock \in Nat
  BY DEF TypeOK
<1>2. CASE ReadClock(r)
  BY <1>1, <1>2, ReadClockMoves
<1>3. CASE Request(r) \/ AppendTurn(r) \/ ReadCurrent(r) \/ Write(r)
  <2>1. Alone(r) /\ UNCHANGED <<clock, stored>>
    BY <1>3, RequestMoves, AppendTurnMoves, ReadCurrentMoves, WriteMoves
  <2> QED  BY <1>1, <2>1
<1>4. CASE Refresh(r) \/ FinishIfDone(r) \/ Project(r) \/ Upsert(r) \/ Complete(r)
  <2>1. Alone(r) /\ UNCHANGED <<clock, stored>>
    BY <1>4, RefreshMoves, FinishMoves, ProjectMoves, UpsertMoves, CompleteMoves
  <2> QED  BY <1>1, <2>1
<1> QED  BY <1>2, <1>3, <1>4 DEF Moves

\* A row as it is once closed, and the row that a write adds.
Closed(row, t) == [row EXCEPT !.to = t]
Added(w, by) == [value |-> w.value, by |-> by, from |-> w.at, to |-> None]

LEMMA ClosedRow ==
  ASSUME NEW row \in Row, NEW t \in Nat
  PROVE  /\ Closed(row, t) \in Row /\ Closed(row, t).from = row.from
         /\ Closed(row, t).by = row.by
         /\ Closed(row, t).to = t /\ Closed(row, t).value = row.value
  BY DEF Closed, Row

LEMMA AddedRow ==
  ASSUME NEW w \in Written, NEW by \in {"human", "onboarding"}
  PROVE  /\ Added(w, by) \in Row /\ Added(w, by).from = w.at /\ Added(w, by).by = by
         /\ Added(w, by).to = None /\ Added(w, by).value = w.value
  BY DEF Added, Row, Written

\* What a commit makes of the rows of a key.
LEMMA CorrectedRows ==
  ASSUME NEW rows \in Seq(Row), NEW w \in Written, NEW by \in {"human", "onboarding"}
  PROVE  /\ Corrected(rows, w, by) \in Seq(Row)
         /\ Len(Corrected(rows, w, by)) = Len(rows) + 1
         /\ \A i \in 1..Len(rows) : Corrected(rows, w, by)[i] =
              IF i = w.closes THEN Closed(rows[i], w.at) ELSE rows[i]
         /\ Corrected(rows, w, by)[Len(rows) + 1] = Added(w, by)
<1> DEFINE closed == [i \in 1..Len(rows) |->
                        IF i = w.closes THEN Closed(rows[i], w.at) ELSE rows[i]]
<1>1. Corrected(rows, w, by) = Append(closed, Added(w, by))
  BY Zenon DEF Corrected, Closed, Added
<1>2. Added(w, by) \in Row /\ w.at \in Nat
  BY AddedRow DEF Written
<1>3. \A i \in 1..Len(rows) : closed[i] \in Row
  <2> TAKE i \in 1..Len(rows)
  <2>1. rows[i] \in Row
    OBVIOUS
  <2> QED  BY <1>2, <2>1, ClosedRow
<1>4. closed \in Seq(Row) /\ Len(closed) = Len(rows)
  BY <1>3
<1>5. \A i \in 1..Len(rows) : closed[i] =
        IF i = w.closes THEN Closed(rows[i], w.at) ELSE rows[i]
  OBVIOUS
<1> HIDE DEF closed
<1>6. /\ Append(closed, Added(w, by)) \in Seq(Row)
      /\ Len(Append(closed, Added(w, by))) = Len(closed) + 1
      /\ \A i \in 1..Len(closed) : Append(closed, Added(w, by))[i] = closed[i]
      /\ Append(closed, Added(w, by))[Len(closed) + 1] = Added(w, by)
  BY <1>2, <1>4
<1> QED  BY <1>1, <1>4, <1>5, <1>6

LEMMA CommitMoves ==
  ASSUME TypeOK, RequestsFlow, NEW r \in Requests, Commit(r)
  PROVE  /\ req[r] \in Open /\ Flow(req[r]) /\ req[r].pc = "commit" /\ req[r] # Idle
         /\ req'[r] = Idle /\ \A q \in Requests \ {r} : req'[q] = req[q]
         /\ facts' \in [Keys -> Seq(Row)]
         /\ \A k \in Keys :
              IF req[r].own[k] = None THEN facts'[k] = facts[k]
              ELSE req[r].own[k] \in Written /\ facts'[k] = Corrected(facts[k], req[r].own[k], Source(r))
         /\ answers' = (IF req[r].turn = None THEN answers ELSE Transcript(r))
         /\ profile' = (IF req[r].wrote = None THEN profile ELSE req[r].wrote)
         /\ interview' = (IF req[r].done = "no" THEN interview ELSE "completed")
         /\ triggers' = (IF req[r].done = "first" THEN triggers + 1 ELSE triggers)
         /\ missed' = missed \cup Missed(r) /\ UNCHANGED clock
<1>1. req[r].pc = "commit"
  BY DEF Commit
<1>2. req[r] \in Open /\ Flow(req[r]) /\ req[r] # Idle
  BY <1>1, OpenRequest DEF RequestsFlow
<1>3. /\ req'[r] = Idle /\ \A q \in Requests \ {r} : req'[q] = req[q]
      /\ profile' = (IF req[r].wrote = None THEN profile ELSE req[r].wrote)
      /\ interview' = (IF req[r].done = "no" THEN interview ELSE "completed")
      /\ triggers' = (IF req[r].done = "first" THEN triggers + 1 ELSE triggers)
      /\ missed' = missed \cup Missed(r) /\ UNCHANGED clock
  BY DEF Commit, TypeOK
<1>4. \A k \in Keys : req[r].own[k] \in Written \cup {None} /\ facts[k] \in Seq(Row)
  BY <1>2 DEF Open, TypeOK
<1>5. Source(r) \in {"human", "onboarding"}
  BY DEF Source
<1>6. facts' = [k \in Keys |-> IF req[r].own[k] = None THEN facts[k]
                               ELSE Corrected(facts[k], req[r].own[k], Source(r))]
  BY DEF Commit
<1>7. \A k \in Keys : (IF req[r].own[k] = None THEN facts[k]
                       ELSE Corrected(facts[k], req[r].own[k], Source(r))) \in Seq(Row)
  BY <1>4, <1>5, CorrectedRows
<1>8. answers' = (IF req[r].turn = None THEN answers ELSE Transcript(r))
  <2>1. answers \in [Asked -> Answer]
    BY DEF TypeOK
  <2>2. CASE req[r].turn = None
    BY <2>2 DEF Commit
  <2>3. CASE req[r].turn # None
    <3>1. answers' = [answers EXCEPT ![req[r].key] = req[r].turn]
      BY <2>3 DEF Commit
    <3> QED  BY <2>1, <2>3, <3>1 DEF Transcript
  <2> QED  BY <2>2, <2>3
<1> QED  BY <1>1, <1>2, <1>3, <1>4, <1>6, <1>7, <1>8

Types == TypeOK /\ RequestsFlow

LEMMA TypesInit == Init => Types
  BY DEF Init, Types, TypeOK, RequestsFlow, Answer

LEMMA FunctionByValue ==
  ASSUME NEW S, NEW T, NEW f, f = [x \in S |-> f[x]], \A x \in S : f[x] \in T
  PROVE  f \in [S -> T]
<1> DEFINE g == [x \in S |-> f[x]]
<1>1. g \in [S -> T]
  OBVIOUS
<1> QED  BY <1>1, Zenon

LEMMA FlowNext ==
  ASSUME \A q \in Requests : req'[q] # Idle => Flow(req'[q])
  PROVE  RequestsFlow'
  BY Zenon DEF RequestsFlow, Flow, Idle

LEMMA TypesStep == Types /\ [Next]_vars => Types'
<1> SUFFICES ASSUME Types, [Next]_vars PROVE Types'
  OBVIOUS
<1>0. TypeOK /\ RequestsFlow /\ req' = [q \in Requests |-> req'[q]]
  BY RequestsStay DEF Types
<1>1. \A q \in Requests : /\ req[q] \in Open \cup {Idle}
                          /\ req[q] # Idle => Flow(req[q])
  BY <1>0 DEF TypeOK, RequestsFlow
<1>2. CASE Start
  BY <1>2, <1>0 DEF Start, Types, TypeOK, RequestsFlow
<1>3. CASE UNCHANGED vars
  BY <1>3, <1>0 DEF vars, Types, TypeOK, RequestsFlow
<1>4. ASSUME NEW r \in Requests, Request(r) \/ Moves(r) PROVE Types'
  <2>1. Alone(r) /\ UNCHANGED stored /\ clock' \in Nat
    BY <1>0, <1>4, MovesAlone
  <2>2. \A q \in Requests : /\ req'[q] \in Open \cup {Idle}
                            /\ req'[q] # Idle => Flow(req'[q])
    BY <1>1, <2>1 DEF Alone
  <2>3. TypeOK'
    <3>1. req' \in [Requests -> Open \cup {Idle}]
      BY <1>0, <2>2, FunctionByValue
    <3> QED  BY <1>0, <2>1, <3>1 DEF TypeOK, stored
  <2> QED  BY <2>2, <2>3, FlowNext DEF Types
<1>5. ASSUME NEW r \in Requests, Commit(r) PROVE Types'
  <2>1. /\ req[r] \in Open
        /\ req'[r] = Idle /\ \A q \in Requests \ {r} : req'[q] = req[q]
        /\ facts' \in [Keys -> Seq(Row)]
        /\ answers' = (IF req[r].turn = None THEN answers ELSE Transcript(r))
        /\ profile' = (IF req[r].wrote = None THEN profile ELSE req[r].wrote)
        /\ interview' = (IF req[r].done = "no" THEN interview ELSE "completed")
        /\ triggers' = (IF req[r].done = "first" THEN triggers + 1 ELSE triggers)
        /\ missed' = missed \cup Missed(r) /\ UNCHANGED clock
    BY <1>0, <1>5, CommitMoves
  <2>2. \A q \in Requests : /\ req'[q] \in Open \cup {Idle}
                            /\ req'[q] # Idle => Flow(req'[q])
    BY <1>1, <2>1
  <2>3. Transcript(r) \in [Asked -> Answer] /\ req[r].wrote \in Beliefs \cup {None}
    BY <1>0, <2>1, Reading DEF Open
  <2>4. Missed(r) \subseteq Keys
    BY DEF Missed, Writes
  <2>5. answers' \in [Asked -> Answer] /\ profile' \in Beliefs \cup {None}
        /\ interview' \in {None, "in_progress", "completed"} /\ triggers' \in Nat
        /\ missed' \subseteq Keys /\ clock' \in Nat
    BY <1>0, <2>1, <2>3, <2>4 DEF TypeOK
  <2>6. TypeOK'
    <3>1. req' \in [Requests -> Open \cup {Idle}]
      BY <1>0, <2>2, FunctionByValue
    <3> QED  BY <2>1, <2>5, <3>1 DEF TypeOK
  <2> QED  BY <2>2, <2>6, FlowNext DEF Types
<1>6. ASSUME NEW r \in Requests, Abort(r) PROVE Types'
  <2>1. UNCHANGED <<clock, stored>> /\ \A q \in Requests : req'[q] \in {req[q], Idle}
    BY <1>0, <1>6 DEF Abort, TypeOK
  <2>2. \A q \in Requests : /\ req'[q] \in Open \cup {Idle}
                            /\ req'[q] # Idle => Flow(req'[q])
    BY <1>1, <2>1
  <2>3. TypeOK'
    <3>1. req' \in [Requests -> Open \cup {Idle}]
      BY <1>0, <2>2, FunctionByValue
    <3> QED  BY <1>0, <2>1, <3>1 DEF TypeOK, stored
  <2> QED  BY <2>2, <2>3, FlowNext DEF Types
<1> QED  BY <1>2, <1>3, <1>4, <1>5, <1>6, NextCases

\* The state of Memory is typed, and every open request follows the order of the
\* handlers of MemoryService and OnboardingService.
THEOREM TypeCorrect == Spec => []TypeOK
<1>1. Types => TypeOK
  BY DEF Types
<1> QED  BY <1>1, TypesInit, TypesStep, PTL DEF Spec

-----------------------------------------------------------------------------
(* The intervals *)

Timed == {"current", "write"}

\* Nothing is believed from an instant the clock has not reached.
Past == \A k \in Keys : \A i \in 1..Len(facts[k]) : facts[k][i].from <= clock

\* What a request has read of the clock is its own: no row begins then, committed
\* or not, and nobody else has read it.
Fresh ==
  \A r \in Requests : req[r] # Idle /\ req[r].pc \in Timed =>
    /\ req[r].at <= clock
    /\ \A k \in Keys : \A i \in 1..Len(facts[k]) : facts[k][i].from # req[r].at
    /\ \A q \in Requests : \A k \in Keys :
         req[q] # Idle /\ req[q].own[k] # None => req[q].own[k].at # req[r].at
    /\ \A q \in Requests \ {r} :
         req[q] # Idle /\ req[q].pc \in Timed => req[q].at # req[r].at

\* A row that is written and not committed follows the open row of its key.
Pending ==
  \A r \in Requests : \A k \in Keys : req[r] # Idle /\ req[r].own[k] # None =>
    /\ req[r].own[k].closes = OpenRow(k)
    /\ req[r].own[k].at <= clock
    /\ OpenRow(k) # 0 => facts[k][OpenRow(k)].from < req[r].own[k].at

\* One writer to a key: the lock on its open row, or on its place in the index.
Exclusive ==
  \A q, r \in Requests : \A k \in Keys :
    /\ req[q] # Idle /\ req[q].own[k] # None
    /\ req[r] # Idle /\ req[r].own[k] # None
    => q = r

Intervals == IntervalsMeet /\ Past /\ Fresh /\ Pending /\ Exclusive

LEMMA IntervalsInit == Init => Intervals
  BY DEF Init, Intervals, IntervalsMeet, Past, Fresh, Pending, Exclusive, Idle

\* A step that neither reads the clock nor writes or commits a row.
Quiet ==
  /\ UNCHANGED <<clock, facts>>
  /\ \A q \in Requests : req'[q] # Idle =>
       /\ \/ req'[q].own = [k \in Keys |-> None]
          \/ req[q] # Idle /\ req'[q].own = req[q].own
       /\ req'[q].pc \in Timed =>
            req[q] # Idle /\ req[q].pc \in Timed /\ req'[q].at = req[q].at

LEMMA QuietSteps ==
  ASSUME TypeOK, RequestsFlow, [Next]_vars
  PROVE  \/ Quiet
         \/ \E r \in Requests : ReadClock(r) \/ Write(r) \/ Commit(r)
<1>1. CASE Start \/ UNCHANGED vars
  BY <1>1 DEF Start, vars, Quiet
<1>2. ASSUME NEW r \in Requests, Request(r) PROVE Quiet
  <2>1. /\ Alone(r) /\ UNCHANGED <<clock, stored>>
        /\ req'[r].own = [k \in Keys |-> None] /\ req'[r].pc \notin Timed
    BY <1>2, RequestMoves DEF Timed
  <2> QED  BY <2>1 DEF Alone, Quiet, stored
<1>3. ASSUME NEW r \in Requests, Moves(r), ~ReadClock(r), ~Write(r) PROVE Quiet
  <2>1. CASE ReadCurrent(r)
    <3>1. /\ Alone(r) /\ UNCHANGED <<clock, stored>>
          /\ req[r] \in Open /\ req'[r].own = req[r].own /\ req[r].pc \in Timed
          /\ req'[r].pc \in Timed => req'[r].at = req[r].at
      BY <2>1, ReadCurrentMoves DEF Timed
    <3> QED  BY <3>1, NotIdle DEF Alone, Quiet, stored
  <2>2. CASE AppendTurn(r) \/ Refresh(r) \/ FinishIfDone(r)
    <3>1. /\ Alone(r) /\ UNCHANGED <<clock, stored>>
          /\ req[r] \in Open /\ req'[r].own = req[r].own /\ req'[r].pc \notin Timed
      BY <2>2, AppendTurnMoves, RefreshMoves, FinishMoves DEF Timed
    <3> QED  BY <3>1, NotIdle DEF Alone, Quiet, stored
  <2>3. CASE Project(r) \/ Upsert(r) \/ Complete(r)
    <3>1. /\ Alone(r) /\ UNCHANGED <<clock, stored>>
          /\ req[r] \in Open /\ req'[r].own = req[r].own /\ req'[r].pc \notin Timed
      BY <2>3, ProjectMoves, UpsertMoves, CompleteMoves DEF Timed
    <3> QED  BY <3>1, NotIdle DEF Alone, Quiet, stored
  <2> QED  BY <1>3, <2>1, <2>2, <2>3 DEF Moves
<1>4. ASSUME NEW r \in Requests, Abort(r) PROVE Quiet
  <2>1. UNCHANGED <<clock, facts>> /\ \A q \in Requests : req'[q] \in {req[q], Idle}
    BY <1>4 DEF Abort, TypeOK, stored
  <2> QED  BY <2>1 DEF Quiet
<1> QED  BY <1>1, <1>2, <1>3, <1>4, NextCases

LEMMA QuietIntervals ==
  ASSUME Intervals, Quiet
  PROVE  Intervals'
<1> USE DEF Intervals, Quiet
<1>1. \A k \in Keys : OpenRow(k)' = OpenRow(k)
  BY DEF OpenRow
<1>2. IntervalsMeet' /\ Past'
  BY DEF IntervalsMeet, Past
<1>3. \A q \in Requests : \A k \in Keys : req'[q] # Idle /\ req'[q].own[k] # None =>
        req[q] # Idle /\ req'[q].own[k] = req[q].own[k]
  OBVIOUS
<1>4. Fresh'
  BY <1>3 DEF Fresh, Idle
<1>5. Pending'
  BY <1>1, <1>3 DEF Pending, Idle
<1>6. Exclusive'
  BY <1>3 DEF Exclusive, Idle
<1> QED  BY <1>2, <1>4, <1>5, <1>6

\* Numbers that the proofs compare.
LEMMA Instants ==
  ASSUME TypeOK
  PROVE  /\ clock \in Nat
         /\ \A k \in Keys : /\ facts[k] \in Seq(Row) /\ Len(facts[k]) \in Nat
                            /\ \A i \in 1..Len(facts[k]) :
                                 facts[k][i] \in Row /\ facts[k][i].from \in Nat
         /\ \A q \in Requests : req[q] # Idle =>
              /\ req[q] \in Open /\ req[q].at \in Nat
              /\ \A k \in Keys : req[q].own[k] # None =>
                   req[q].own[k] \in Written /\ req[q].own[k].at \in Nat
<1>1. clock \in Nat /\ \A k \in Keys : facts[k] \in Seq(Row)
  BY DEF TypeOK
<1>2. \A k \in Keys : Len(facts[k]) \in Nat /\ \A i \in 1..Len(facts[k]) : facts[k][i] \in Row
  BY <1>1
<1>3. \A x \in Row : x.from \in Nat
  BY DEF Row
<1>4. \A q \in Requests : req[q] # Idle => req[q] \in Open
  BY DEF TypeOK
<1>5. \A x \in Open : x.at \in Nat /\ x.own \in [Keys -> Written \cup {None}]
  BY DEF Open
<1>6. \A w \in Written : w.at \in Nat
  BY DEF Written
<1>7. \A q \in Requests : req[q] # Idle => \A k \in Keys : req[q].own[k] \in Written \cup {None}
  BY <1>4, <1>5
<1> QED  BY <1>1, <1>2, <1>3, <1>4, <1>5, <1>6, <1>7

\* The clock moves with every reading, so what it says is new.
LEMMA ReadClockIntervals ==
  ASSUME TypeOK, RequestsFlow, Intervals, NEW r \in Requests, ReadClock(r)
  PROVE  Intervals'
<1>1. /\ \A q \in Requests \ {r} : req'[q] = req[q]
      /\ req'[r] # Idle /\ req[r] # Idle /\ req'[r].own = req[r].own
      /\ req[r].pc = "clock" /\ req'[r].pc = "current" /\ req'[r].at = clock + 1
      /\ facts' = facts /\ clock' = clock + 1
  BY ReadClockMoves, NotIdle DEF Alone, stored
<1>2. \A k \in Keys : OpenRow(k)' = OpenRow(k)
  BY <1>1 DEF OpenRow
<1>3. \A q \in Requests : /\ req'[q] # Idle <=> req[q] # Idle
                          /\ req'[q].own = req[q].own
  BY <1>1
<1>4. IntervalsMeet' /\ Past'
  BY <1>1, Instants DEF Intervals, IntervalsMeet, Past
<1>5. Fresh'
  <2> SUFFICES ASSUME NEW p \in Requests, req'[p] # Idle, req'[p].pc \in Timed
               PROVE  /\ req'[p].at <= clock + 1
                      /\ \A k \in Keys : \A i \in 1..Len(facts[k]) :
                           facts[k][i].from # req'[p].at
                      /\ \A q \in Requests : \A k \in Keys :
                           req'[q] # Idle /\ req'[q].own[k] # None =>
                             req'[q].own[k].at # req'[p].at
                      /\ \A q \in Requests \ {p} :
                           req'[q] # Idle /\ req'[q].pc \in Timed => req'[q].at # req'[p].at
    BY <1>1 DEF Fresh, Idle
  <2>1. CASE p = r
    <3>1. \A q \in Requests \ {r} : req[q] # Idle /\ req[q].pc \in Timed => req[q].at <= clock
      BY DEF Intervals, Fresh
    <3>2. \A q \in Requests : \A k \in Keys : req[q] # Idle /\ req[q].own[k] # None =>
            req[q].own[k].at <= clock
      BY DEF Intervals, Pending
    <3>3. \A k \in Keys : \A i \in 1..Len(facts[k]) : facts[k][i].from <= clock
      BY DEF Intervals, Past
    <3> QED  BY <1>1, <1>3, <2>1, <3>1, <3>2, <3>3, Instants
  <2>2. CASE p # r
    <3>1. req'[p] = req[p]
      BY <1>1, <2>2
    <3>2. /\ req[p].at <= clock
          /\ \A k \in Keys : \A i \in 1..Len(facts[k]) : facts[k][i].from # req[p].at
          /\ \A q \in Requests : \A k \in Keys :
               req[q] # Idle /\ req[q].own[k] # None => req[q].own[k].at # req[p].at
          /\ \A q \in Requests \ {p} :
               req[q] # Idle /\ req[q].pc \in Timed => req[q].at # req[p].at
      BY <3>1 DEF Intervals, Fresh
    <3>3. req[p].at \in Nat /\ clock \in Nat
      BY <3>1, Instants
    <3> QED  BY <1>1, <1>3, <3>1, <3>2, <3>3
  <2> QED  BY <2>1, <2>2
<1>6. Pending'
  <2>1. \A q \in Requests : \A k \in Keys : req[q] # Idle /\ req[q].own[k] # None =>
          /\ req[q].own[k].closes = OpenRow(k) /\ req[q].own[k].at <= clock
          /\ req[q].own[k].at \in Nat
          /\ OpenRow(k) # 0 => facts[k][OpenRow(k)].from < req[q].own[k].at
    BY Instants DEF Intervals, Pending
  <2>2. clock \in Nat
    BY Instants
  <2> QED  BY <1>1, <1>2, <1>3, <2>1, <2>2 DEF Pending, Idle
<1>7. Exclusive'
  BY <1>3 DEF Intervals, Exclusive, Idle
<1> QED  BY <1>4, <1>5, <1>6, <1>7 DEF Intervals

\* The row that a request writes begins when it read the clock, after the one it
\* closes.
LEMMA WriteIntervals ==
  ASSUME TypeOK, RequestsFlow, Intervals, NEW r \in Requests, Write(r)
  PROVE  Intervals'
<1> DEFINE key == Key(r)
           w == [closes |-> OpenRow(key), value |-> Value(r), at |-> req[r].at]
<1>1. /\ \A q \in Requests \ {r} : req'[q] = req[q]
      /\ req'[r] # Idle /\ req[r] # Idle /\ key \in Keys
      /\ req'[r].own = [req[r].own EXCEPT ![key] = w]
      /\ req[r].pc = "write" /\ req'[r].pc = "project"
      /\ \A q \in Requests \ {r} : req[q] # Idle => req[q].own[key] = None
      /\ OpenRow(key) # 0 => req[r].at >= facts[key][OpenRow(key)].from
      /\ facts' = facts /\ clock' = clock
  BY WriteMoves, NotIdle DEF Alone, stored
<1>2. req[r].own \in [Keys -> Written \cup {None}]
  BY <1>1, Instants DEF Open
<1>3. \A k \in Keys : req'[r].own[k] = IF k = key THEN w ELSE req[r].own[k]
  <2> HIDE DEF w, key
  <2> QED  BY <1>1, <1>2
<1>4. w.at = req[r].at /\ w.closes = OpenRow(key)
  OBVIOUS
<1> HIDE DEF w, key
<1>5. \A k \in Keys : OpenRow(k)' = OpenRow(k)
  BY <1>1 DEF OpenRow
<1>6. /\ req[r].at <= clock
      /\ \A k \in Keys : \A i \in 1..Len(facts[k]) : facts[k][i].from # req[r].at
      /\ \A q \in Requests \ {r} : req[q] # Idle /\ req[q].pc \in Timed => req[q].at # req[r].at
  BY <1>1 DEF Intervals, Fresh, Timed
<1>7. \A q \in Requests : \A k \in Keys :
         IF q = r /\ k = key
         THEN req'[q].own[k].at = req[r].at /\ req'[q].own[k].closes = OpenRow(key)
         ELSE req'[q].own[k] = req[q].own[k]
  BY <1>1, <1>3, <1>4
<1>8. \A q \in Requests : req'[q] # Idle <=> req[q] # Idle
  BY <1>1
<1>9. IntervalsMeet' /\ Past'
  BY <1>1 DEF Intervals, IntervalsMeet, Past
<1>10. Fresh'
  <2> SUFFICES ASSUME NEW p \in Requests, req'[p] # Idle, req'[p].pc \in Timed
               PROVE  /\ req'[p].at <= clock
                      /\ \A k \in Keys : \A i \in 1..Len(facts[k]) :
                           facts[k][i].from # req'[p].at
                      /\ \A q \in Requests : \A k \in Keys :
                           req'[q] # Idle /\ req'[q].own[k] # None =>
                             req'[q].own[k].at # req'[p].at
                      /\ \A q \in Requests \ {p} :
                           req'[q] # Idle /\ req'[q].pc \in Timed => req'[q].at # req'[p].at
    BY <1>1 DEF Fresh, Idle
  <2>1. p # r /\ req'[p] = req[p]
    BY <1>1 DEF Timed
  <2>2. /\ req[p].at <= clock
        /\ \A k \in Keys : \A i \in 1..Len(facts[k]) : facts[k][i].from # req[p].at
        /\ \A q \in Requests : \A k \in Keys :
             req[q] # Idle /\ req[q].own[k] # None => req[q].own[k].at # req[p].at
        /\ \A q \in Requests \ {p} :
             req[q] # Idle /\ req[q].pc \in Timed => req[q].at # req[p].at
    BY <2>1 DEF Intervals, Fresh
  <2>3. req[r].at # req[p].at
    BY <1>6, <2>1
  <2>4. \A q \in Requests : \A k \in Keys : req'[q] # Idle /\ req'[q].own[k] # None =>
          req'[q].own[k].at # req[p].at
    BY <1>7, <1>8, <2>2, <2>3
  <2> QED  BY <1>1, <2>1, <2>2, <2>4 DEF Timed
<1>11. Pending'
  <2> SUFFICES ASSUME NEW q \in Requests, NEW k \in Keys, req'[q] # Idle, req'[q].own[k] # None
               PROVE  /\ req'[q].own[k].closes = OpenRow(k)
                      /\ req'[q].own[k].at <= clock
                      /\ OpenRow(k) # 0 => facts[k][OpenRow(k)].from < req'[q].own[k].at
    BY <1>1, <1>5 DEF Pending, Idle
  <2>1. CASE q = r /\ k = key
    <3>1. OpenRow(key) # 0 => /\ OpenRow(key) \in 1..Len(facts[key])
                              /\ facts[key][OpenRow(key)].from \in Nat
      BY <1>1, Instants, Reading
    <3>2. req[r].at \in Nat
      BY <1>1, Instants
    <3> QED  BY <1>1, <1>6, <1>7, <2>1, <3>1, <3>2
  <2>2. CASE ~(q = r /\ k = key)
    <3>1. req[q] # Idle /\ req'[q].own[k] = req[q].own[k]
      BY <1>7, <1>8, <2>2
    <3> QED  BY <3>1 DEF Intervals, Pending
  <2> QED  BY <2>1, <2>2
<1>12. Exclusive'
  <2> SUFFICES ASSUME NEW p \in Requests, NEW q \in Requests, NEW k \in Keys,
                      req'[p] # Idle, req'[p].own[k] # None,
                      req'[q] # Idle, req'[q].own[k] # None
               PROVE  p = q
    BY DEF Exclusive, Idle
  <2>1. CASE k = key
    <3>1. \A o \in Requests : req'[o] # Idle /\ req'[o].own[k] # None => o = r
      BY <1>1, <1>7, <1>8, <2>1
    <3> QED  BY <3>1
  <2>2. CASE k # key
    BY <1>7, <1>8, <2>2 DEF Intervals, Exclusive
  <2> QED  BY <2>1, <2>2
<1> QED  BY <1>9, <1>10, <1>11, <1>12 DEF Intervals

\* What the commit of r makes of the rows of each key.
LEMMA CommitRows ==
  ASSUME TypeOK, RequestsFlow, Pending, NEW r \in Requests, Commit(r), NEW k \in Keys
  PROVE  LET w == req[r].own[k] IN
         /\ w = None => /\ facts'[k] = facts[k]
                        /\ OpenRow(k)' = OpenRow(k) /\ Believed(k)' = Believed(k)
         /\ w # None =>
              /\ Len(facts'[k]) = Len(facts[k]) + 1
              /\ \A i \in 1..Len(facts[k]) : facts'[k][i] =
                   IF i = OpenRow(k) THEN Closed(facts[k][i], w.at) ELSE facts[k][i]
              /\ facts'[k][Len(facts[k]) + 1] = Added(w, Source(r))
              /\ OpenRow(k)' = Len(facts[k]) + 1 /\ Believed(k)' = w.value
<1> DEFINE w == req[r].own[k]
<1>1. CASE w = None
  <2>1. facts'[k] = facts[k]
    BY <1>1, CommitMoves
  <2>2. OpenRow(k)' = OpenRow(k)
    BY <2>1 DEF OpenRow
  <2>3. Believed(k)' = Believed(k)
    BY <2>1, <2>2 DEF Believed
  <2> QED  BY <1>1, <2>1, <2>2, <2>3
<1>2. CASE w # None
  <2>1. w \in Written /\ facts'[k] = Corrected(facts[k], w, Source(r)) /\ req[r] # Idle
    BY <1>2, CommitMoves
  <2>2. w.closes = OpenRow(k)
    BY <1>2, <2>1 DEF Pending
  <2>3. facts[k] \in Seq(Row) /\ Len(facts[k]) \in Nat /\ Source(r) \in {"human", "onboarding"}
    BY Instants DEF Source
  <2> HIDE DEF w
  <2>4. /\ Len(facts'[k]) = Len(facts[k]) + 1
        /\ \A i \in 1..Len(facts[k]) : facts'[k][i] =
             IF i = OpenRow(k) THEN Closed(facts[k][i], w.at) ELSE facts[k][i]
        /\ facts'[k][Len(facts[k]) + 1] = Added(w, Source(r))
        /\ facts'[k] \in Seq(Row)
    <3>1. /\ Corrected(facts[k], w, Source(r)) \in Seq(Row)
          /\ Len(Corrected(facts[k], w, Source(r))) = Len(facts[k]) + 1
          /\ \A i \in 1..Len(facts[k]) : Corrected(facts[k], w, Source(r))[i] =
               IF i = w.closes THEN Closed(facts[k][i], w.at) ELSE facts[k][i]
          /\ Corrected(facts[k], w, Source(r))[Len(facts[k]) + 1] = Added(w, Source(r))
      BY <2>1, <2>3, CorrectedRows, ZenonT(40)
    <3> QED  BY <2>1, <2>2, <3>1, Zenon
  <2>5. OpenRow(k)' = Len(facts[k]) + 1
    BY <2>1, <2>3, <2>4, AddedRow DEF OpenRow
  <2>6. Believed(k)' = w.value
    BY <2>1, <2>3, <2>4, <2>5, AddedRow DEF Believed
  <2> QED  BY <1>2, <2>4, <2>5, <2>6 DEF w
<1> QED  BY <1>1, <1>2

\* The instants of the rows a commit adds to, or leaves, for one key.
LEMMA CommitInstants ==
  ASSUME TypeOK, RequestsFlow, Intervals, NEW r \in Requests, Commit(r),
         NEW k \in Keys, req[r].own[k] # None
  PROVE  /\ Len(facts'[k]) = Len(facts[k]) + 1
         /\ \A i \in 1..Len(facts[k]) :
              /\ facts'[k][i].from = facts[k][i].from
              /\ facts'[k][i].to = IF i = OpenRow(k) THEN req[r].own[k].at ELSE facts[k][i].to
         /\ facts'[k][Len(facts[k]) + 1].from = req[r].own[k].at
         /\ facts'[k][Len(facts[k]) + 1].to = None
         /\ req[r].own[k].at <= clock /\ req[r].own[k].at \in Nat
         /\ OpenRow(k) # 0 => facts[k][OpenRow(k)].from < req[r].own[k].at
         /\ Len(facts[k]) \in Nat
         /\ Len(facts[k]) # 0 => OpenRow(k) = Len(facts[k])
<1>1. req[r] # Idle /\ Pending
  BY CommitMoves DEF Intervals
<1>2. /\ Len(facts'[k]) = Len(facts[k]) + 1
      /\ \A i \in 1..Len(facts[k]) : facts'[k][i] =
           IF i = OpenRow(k) THEN Closed(facts[k][i], req[r].own[k].at) ELSE facts[k][i]
      /\ facts'[k][Len(facts[k]) + 1] = Added(req[r].own[k], Source(r))
  BY <1>1, CommitRows
<1>3. /\ req[r].own[k] \in Written /\ req[r].own[k].at \in Nat
      /\ Source(r) \in {"human", "onboarding"} /\ \A i \in 1..Len(facts[k]) : facts[k][i] \in Row
      /\ Len(facts[k]) \in Nat /\ facts[k] \in Seq(Row)
  BY <1>1, Instants DEF Source
<1>4. \A i \in 1..Len(facts[k]) :
        /\ Closed(facts[k][i], req[r].own[k].at).from = facts[k][i].from
        /\ Closed(facts[k][i], req[r].own[k].at).to = req[r].own[k].at
  BY <1>3, ClosedRow
<1>5. /\ Added(req[r].own[k], Source(r)).from = req[r].own[k].at
      /\ Added(req[r].own[k], Source(r)).to = None
  BY <1>3, AddedRow
<1>6. /\ req[r].own[k].at <= clock
      /\ OpenRow(k) # 0 => facts[k][OpenRow(k)].from < req[r].own[k].at
  BY <1>1 DEF Pending
<1>7. Len(facts[k]) # 0 => OpenRow(k) = Len(facts[k])
  <2>1. Len(facts[k]) # 0 => facts[k][Len(facts[k])].to = None /\ facts[k] # <<>>
    BY <1>3 DEF Intervals, IntervalsMeet
  <2> QED  BY <2>1 DEF OpenRow
<1> QED  BY <1>2, <1>3, <1>4, <1>5, <1>6, <1>7

\* The row closes where the next begins: a commit leaves no gap and no overlap.
LEMMA CommitIntervals ==
  ASSUME TypeOK, RequestsFlow, Intervals, NEW r \in Requests, Commit(r)
  PROVE  Intervals'
<1>1. /\ req[r] # Idle /\ req'[r] = Idle /\ \A q \in Requests \ {r} : req'[q] = req[q]
      /\ clock' = clock
  BY CommitMoves
<1>2. Pending
  BY DEF Intervals
<1>3. \A k \in Keys : req[r].own[k] = None =>
        facts'[k] = facts[k] /\ OpenRow(k)' = OpenRow(k)
  BY <1>2, CommitRows
<1>4. ASSUME NEW k \in Keys, req[r].own[k] # None
      PROVE  /\ Len(facts'[k]) = Len(facts[k]) + 1
             /\ \A i \in 1..Len(facts[k]) :
                  /\ facts'[k][i].from = facts[k][i].from
                  /\ facts'[k][i].to = IF i = OpenRow(k) THEN req[r].own[k].at ELSE facts[k][i].to
             /\ facts'[k][Len(facts[k]) + 1].from = req[r].own[k].at
             /\ facts'[k][Len(facts[k]) + 1].to = None
  BY <1>4, CommitInstants
<1>5. ASSUME NEW k \in Keys, req[r].own[k] # None
      PROVE  /\ req[r].own[k].at <= clock /\ req[r].own[k].at \in Nat
             /\ OpenRow(k) # 0 => facts[k][OpenRow(k)].from < req[r].own[k].at
             /\ Len(facts[k]) \in Nat
             /\ Len(facts[k]) # 0 => OpenRow(k) = Len(facts[k])
  BY <1>5, CommitInstants
<1>6. IntervalsMeet'
  <2> SUFFICES ASSUME NEW k \in Keys, NEW i \in 1..Len(facts'[k])
               PROVE  IF i = Len(facts'[k]) THEN facts'[k][i].to = None
                      ELSE /\ facts'[k][i].to = facts'[k][i + 1].from
                           /\ facts'[k][i].from < facts'[k][i].to
    BY DEF IntervalsMeet
  <2>1. IF i = Len(facts[k]) THEN facts[k][i].to = None
        ELSE i \in 1..Len(facts[k]) => /\ facts[k][i].to = facts[k][i + 1].from
                                       /\ facts[k][i].from < facts[k][i].to
    <3>1. Len(facts[k]) \in Nat
      BY Instants
    <3>2. Len(facts'[k]) \in Nat
      BY <1>3, <1>4, <3>1
    <3> QED  BY <3>1, <3>2 DEF Intervals, IntervalsMeet
  <2>2. CASE req[r].own[k] = None
    BY <1>3, <2>1, <2>2
  <2>3. CASE req[r].own[k] # None
    <3> DEFINE n == Len(facts[k])
    <3>1. n \in Nat /\ Len(facts'[k]) = n + 1
      BY <1>4, <1>5, <2>3
    <3>2. CASE i = n + 1
      BY <1>4, <2>3, <3>1, <3>2
    <3>3. CASE i = n
      <4>1. n # 0 /\ OpenRow(k) = n /\ n \in 1..n
        BY <1>5, <2>3, <3>1, <3>3
      <4>2. facts'[k][n].to = req[r].own[k].at /\ facts'[k][n].from = facts[k][n].from
        BY <1>4, <2>3, <4>1
      <4> QED  BY <1>4, <1>5, <2>3, <3>1, <3>3, <4>1, <4>2
    <3>4. CASE i # n /\ i # n + 1
      <4>1. i \in 1..n /\ i + 1 \in 1..n /\ i # OpenRow(k)
        BY <1>5, <2>3, <3>1, <3>4
      <4>2. /\ facts'[k][i].to = facts[k][i].to /\ facts'[k][i].from = facts[k][i].from
            /\ facts'[k][i + 1].from = facts[k][i + 1].from
        BY <1>4, <2>3, <4>1
      <4> QED  BY <2>1, <3>1, <3>4, <4>1, <4>2
    <3> QED  BY <3>2, <3>3, <3>4
  <2> QED  BY <2>2, <2>3
\* The rows of a commit begin where they did, or where r read the clock.
<1>7. \A k \in Keys : \A i \in 1..Len(facts'[k]) :
        \/ i \in 1..Len(facts[k]) /\ facts'[k][i].from = facts[k][i].from
        \/ req[r].own[k] # None /\ facts'[k][i].from = req[r].own[k].at
  <2> TAKE k \in Keys
  <2> TAKE i \in 1..Len(facts'[k])
  <2>1. CASE req[r].own[k] = None
    BY <1>3, <2>1
  <2>2. CASE req[r].own[k] # None
    <3>1. Len(facts[k]) \in Nat
      BY <1>5, <2>2
    <3>2. i \in 1..Len(facts[k]) \/ i = Len(facts[k]) + 1
      BY <1>4, <2>2, <3>1
    <3> QED  BY <1>4, <2>2, <3>2
  <2> QED  BY <2>1, <2>2
<1>8. Past'
  BY <1>1, <1>5, <1>7 DEF Intervals, Past
<1>9. \A q \in Requests : req'[q] # Idle => req[q] # Idle /\ q # r /\ req'[q] = req[q]
  BY <1>1
<1>10. Fresh'
  <2> SUFFICES ASSUME NEW p \in Requests, req'[p] # Idle, req'[p].pc \in Timed
               PROVE  /\ req'[p].at <= clock
                      /\ \A k \in Keys : \A i \in 1..Len(facts'[k]) :
                           facts'[k][i].from # req'[p].at
                      /\ \A q \in Requests : \A k \in Keys :
                           req'[q] # Idle /\ req'[q].own[k] # None =>
                             req'[q].own[k].at # req'[p].at
                      /\ \A q \in Requests \ {p} :
                           req'[q] # Idle /\ req'[q].pc \in Timed => req'[q].at # req'[p].at
    BY <1>1 DEF Fresh, Idle
  <2>1. req[p] # Idle /\ req'[p] = req[p]
    BY <1>9
  <2>2. /\ req[p].at <= clock
        /\ \A k \in Keys : \A i \in 1..Len(facts[k]) : facts[k][i].from # req[p].at
        /\ \A q \in Requests : \A k \in Keys :
             req[q] # Idle /\ req[q].own[k] # None => req[q].own[k].at # req[p].at
        /\ \A q \in Requests \ {p} :
             req[q] # Idle /\ req[q].pc \in Timed => req[q].at # req[p].at
    BY <2>1 DEF Intervals, Fresh
  <2>3. \A k \in Keys : \A i \in 1..Len(facts'[k]) : facts'[k][i].from # req[p].at
    BY <1>1, <1>7, <2>2
  <2> QED  BY <1>9, <2>1, <2>2, <2>3
<1>11. Pending'
  <2> SUFFICES ASSUME NEW q \in Requests, NEW k \in Keys, req'[q] # Idle, req'[q].own[k] # None
               PROVE  /\ req'[q].own[k].closes = OpenRow(k)'
                      /\ req'[q].own[k].at <= clock
                      /\ OpenRow(k)' # 0 => facts'[k][OpenRow(k)'].from < req'[q].own[k].at
    BY <1>1 DEF Pending, Idle
  <2>1. req[q] # Idle /\ req'[q] = req[q] /\ q # r
    BY <1>9
  <2>2. req[r].own[k] = None
    BY <1>1, <2>1 DEF Intervals, Exclusive
  <2>3. facts'[k] = facts[k] /\ OpenRow(k)' = OpenRow(k)
    BY <1>3, <2>2
  <2> QED  BY <2>1, <2>3 DEF Intervals, Pending
<1>12. Exclusive'
  BY <1>9 DEF Intervals, Exclusive, Idle
<1> QED  BY <1>6, <1>8, <1>10, <1>11, <1>12 DEF Intervals

LEMMA IntervalsStep == Types /\ Intervals /\ [Next]_vars => Intervals'
<1> SUFFICES ASSUME Types, Intervals, [Next]_vars PROVE Intervals'
  OBVIOUS
<1>1. TypeOK /\ RequestsFlow
  BY DEF Types
<1> QED  BY <1>1, QuietSteps, QuietIntervals, ReadClockIntervals, WriteIntervals, CommitIntervals

\* The intervals of a fact meet, none ends before it begins and only the last is
\* open, whatever corrections of CorrectFact overlap.
THEOREM NoGapNoOverlap == Spec => []IntervalsMeet
<1>1. Intervals => IntervalsMeet
  BY DEF Intervals
<1> QED  BY <1>1, TypesInit, TypesStep, IntervalsInit, IntervalsStep, PTL DEF Spec

-----------------------------------------------------------------------------
(* As-of queries *)

LEMMA FactsChangeByCommit ==
  ASSUME TypeOK, RequestsFlow, [Next]_vars
  PROVE  facts' = facts \/ \E r \in Requests : Commit(r)
<1>1. CASE Start \/ UNCHANGED vars
  BY <1>1 DEF Start, vars
<1>2. ASSUME NEW r \in Requests, Request(r) \/ Moves(r) PROVE facts' = facts
  BY <1>2, MovesAlone DEF stored
<1>3. ASSUME NEW r \in Requests, Abort(r) PROVE facts' = facts
  BY <1>3 DEF Abort, stored
<1> QED  BY <1>1, <1>2, <1>3, NextCases

\* A row ends before the next begin; and no instant is left out from the first row
\* on.  The second is proved for all instants, the clock's or not: no induction
\* over the rows is needed, the steps that add them carry it.
Ordered ==
  \A k \in Keys : \A i, j \in 1..Len(facts[k]) :
    i < j => facts[k][i].to \in Nat /\ facts[k][i].to <= facts[k][j].from

Covered ==
  \A k \in Keys : \A t \in Nat :
    facts[k] # <<>> /\ facts[k][1].from <= t => AsOf(k, t) # {}

LEMMA TimelineInit == Init => Ordered /\ Covered
  BY DEF Init, Ordered, Covered

LEMMA CommitTimeline ==
  ASSUME TypeOK, RequestsFlow, Intervals, Ordered, Covered, NEW r \in Requests, Commit(r)
  PROVE  Ordered' /\ Covered'
<1>1. ASSUME NEW k \in Keys, req[r].own[k] = None
      PROVE  facts'[k] = facts[k]
  BY <1>1, CommitRows DEF Intervals
<1>2. ASSUME NEW k \in Keys, req[r].own[k] # None,
             NEW i \in 1..Len(facts'[k]), NEW j \in 1..Len(facts'[k]), i < j
      PROVE  facts'[k][i].to \in Nat /\ facts'[k][i].to <= facts'[k][j].from
  <2> DEFINE n == Len(facts[k])
             at == req[r].own[k].at
  <2>1. /\ n \in Nat /\ Len(facts'[k]) = n + 1 /\ at \in Nat
        /\ n # 0 => OpenRow(k) = n /\ facts[k][n].from < at
        /\ facts'[k][n + 1].from = at
    BY <1>2, CommitInstants
  <2>2. \A h \in 1..n : /\ facts'[k][h].from = facts[k][h].from /\ facts[k][h].from \in Nat
                        /\ facts'[k][h].to = IF h = n THEN at ELSE facts[k][h].to
    BY <1>2, CommitInstants, Instants
  <2>3. i \in 1..n /\ j \in 1..(n + 1)
    BY <1>2, <2>1
  <2> HIDE DEF n, at
  <2>4. CASE j = n + 1
    <3>1. CASE i = n
      BY <2>1, <2>2, <2>3, <2>4, <3>1
    <3>2. CASE i # n
      <4>1. n \in 1..n /\ i < n
        BY <2>1, <2>3, <3>2
      <4>2. facts[k][i].to \in Nat /\ facts[k][i].to <= facts[k][n].from
        BY <2>3, <4>1 DEF Ordered, n
      <4>3. facts'[k][i].to = facts[k][i].to
        BY <2>2, <2>3, <3>2
      <4>4. facts[k][n].from \in Nat /\ facts[k][n].from < at
        BY <2>1, <2>2, <4>1
      <4>5. facts'[k][j].from = at
        BY <2>1, <2>4
      <4> QED  BY <2>1, <4>2, <4>3, <4>4, <4>5
    <3> QED  BY <3>1, <3>2
  <2>5. CASE j # n + 1
    <3>1. j \in 1..n /\ i # n
      BY <1>2, <2>1, <2>3, <2>5
    <3>2. facts[k][i].to \in Nat /\ facts[k][i].to <= facts[k][j].from
      BY <1>2, <2>3, <3>1 DEF Ordered, n
    <3> QED  BY <2>2, <2>3, <3>1, <3>2
  <2> QED  BY <2>4, <2>5
<1>3. ASSUME NEW k \in Keys, req[r].own[k] # None,
             NEW t \in Nat, facts'[k][1].from <= t
      PROVE  \E i \in 1..Len(facts'[k]) :
               facts'[k][i].from <= t /\ (facts'[k][i].to = None \/ t < facts'[k][i].to)
  <2> DEFINE n == Len(facts[k])
             at == req[r].own[k].at
  <2>1. /\ n \in Nat /\ Len(facts'[k]) = n + 1 /\ at \in Nat
        /\ n # 0 => OpenRow(k) = n /\ facts[k][n].from < at
        /\ facts'[k][n + 1].from = at /\ facts'[k][n + 1].to = None
    BY <1>3, CommitInstants
  <2>2. \A h \in 1..n : /\ facts'[k][h].from = facts[k][h].from
                        /\ facts'[k][h].to = IF h = n THEN at ELSE facts[k][h].to
    BY <1>3, CommitInstants
  <2>3. facts[k] \in Seq(Row)
    BY Instants
  <2> HIDE DEF at
  <2>4. CASE at <= t
    <3>1. n + 1 \in 1..Len(facts'[k])
      BY <2>1
    <3> QED  BY <2>1, <2>4, <3>1
  <2>5. CASE t < at
    <3>1. n # 0
      BY <1>3, <2>1, <2>5
    <3>2. facts[k] # <<>> /\ facts[k][1].from <= t
      BY <1>3, <2>1, <2>2, <2>3, <3>1
    <3>3. PICK h \in 1..n :
            facts[k][h].from <= t /\ (facts[k][h].to = None \/ t < facts[k][h].to)
      BY <3>2 DEF Covered, AsOf
    <3>4. h \in 1..Len(facts'[k])
      BY <2>1
    <3> QED  BY <2>2, <2>5, <3>3, <3>4
  <2> QED  BY <2>1, <2>4, <2>5
<1>4. Ordered'
  <2> SUFFICES ASSUME NEW k \in Keys, NEW i \in 1..Len(facts'[k]), NEW j \in 1..Len(facts'[k]), i < j
               PROVE  facts'[k][i].to \in Nat /\ facts'[k][i].to <= facts'[k][j].from
    BY DEF Ordered
  <2> QED  BY <1>1, <1>2 DEF Ordered
<1>5. Covered'
  <2> SUFFICES ASSUME NEW k \in Keys, NEW t \in Nat, facts'[k] # <<>>, facts'[k][1].from <= t
               PROVE  \E i \in 1..Len(facts'[k]) :
                 facts'[k][i].from <= t /\ (facts'[k][i].to = None \/ t < facts'[k][i].to)
    BY DEF Covered, AsOf
  <2>1. CASE req[r].own[k] = None
    <3>1. AsOf(k, t) # {} /\ facts'[k] = facts[k]
      BY <1>1, <2>1 DEF Covered
    <3> QED  BY <3>1 DEF AsOf
  <2> QED  BY <1>3, <2>1
<1> QED  BY <1>4, <1>5

LEMMA TimelineStep ==
  ASSUME Types, Intervals, Ordered, Covered, [Next]_vars
  PROVE  Ordered' /\ Covered'
<1>1. CASE facts' = facts
  BY <1>1 DEF Ordered, Covered, AsOf
<1> QED  BY <1>1, CommitTimeline, FactsChangeByCommit DEF Types

\* OneBeliefAtATime: whatever corrections of CorrectFact overlap, an as-of query
\* for an instant since the first finds one row of org_profile_facts.
THEOREM AnAsOfQueryFindsOne == Spec => []OneBeliefAtATime
<1>1. Types /\ Ordered /\ Covered => OneBeliefAtATime
  <2> SUFFICES ASSUME Types, Ordered, Covered, NEW k \in Keys, NEW t \in 0..clock,
                      facts[k] # <<>>, facts[k][1].from <= t
               PROVE  \E i \in 1..Len(facts[k]) : AsOf(k, t) = {i}
    BY DEF OneBeliefAtATime
  <2>1. t \in Nat /\ Len(facts[k]) \in Nat
    BY Instants DEF Types
  <2>2. PICK i \in 1..Len(facts[k]) : i \in AsOf(k, t)
    BY <2>1 DEF Covered, AsOf
  <2>3. ASSUME NEW j \in AsOf(k, t), j # i PROVE FALSE
    <3>1. j \in 1..Len(facts[k]) /\ (i < j \/ j < i)
      BY <2>1, <2>3 DEF AsOf
    <3>2. \A h \in AsOf(k, t) : facts[k][h].from <= t /\ facts[k][h].from \in Nat
                                /\ (facts[k][h].to \in Nat => t < facts[k][h].to)
      BY MemoryAssumption, Instants DEF AsOf, Types
    <3>3. /\ i < j => facts[k][i].to \in Nat /\ facts[k][i].to <= facts[k][j].from
          /\ j < i => facts[k][j].to \in Nat /\ facts[k][j].to <= facts[k][i].from
      BY <3>1 DEF Ordered
    <3> QED  BY <2>1, <2>2, <2>3, <3>1, <3>2, <3>3
  <2> QED  BY <2>2, <2>3
<1>2. Types /\ Intervals /\ Ordered /\ Covered /\ [Next]_vars => (Ordered /\ Covered)'
  BY TimelineStep
<1> QED
  BY <1>1, <1>2, TypesInit, TypesStep, IntervalsInit, IntervalsStep, TimelineInit, PTL DEF Spec

-----------------------------------------------------------------------------
(* What has been believed *)

\* What a step leaves of the rows.
RowsStand ==
  \A k \in Keys : \A i \in 1..Len(facts[k]) :
    /\ Len(facts'[k]) >= Len(facts[k])
    /\ \E t \in {facts[k][i].to, facts'[k][i].to} :
         /\ facts'[k][i] = [facts[k][i] EXCEPT !.to = t]
         /\ facts[k][i].to # None => t = facts[k][i].to

LEMMA SameRow ==
  ASSUME NEW row \in Row
  PROVE  row = [row EXCEPT !.to = row.to]
  BY DEF Row

LEMMA RowsStandStep == Types /\ Intervals /\ [Next]_vars => RowsStand
<1> SUFFICES ASSUME Types, Intervals, [Next]_vars,
                    NEW k \in Keys, NEW i \in 1..Len(facts[k])
             PROVE  /\ Len(facts'[k]) >= Len(facts[k])
                    /\ \E t \in {facts[k][i].to, facts'[k][i].to} :
                         /\ facts'[k][i] = [facts[k][i] EXCEPT !.to = t]
                         /\ facts[k][i].to # None => t = facts[k][i].to
  BY DEF RowsStand
<1>1. TypeOK /\ RequestsFlow /\ Pending
  BY DEF Types, Intervals
<1>2. facts[k][i] \in Row /\ Len(facts[k]) \in Nat
  BY <1>1, Instants
<1>3. ASSUME facts'[k] = facts[k]
      PROVE  /\ Len(facts'[k]) >= Len(facts[k])
             /\ \E t \in {facts[k][i].to, facts'[k][i].to} :
                  /\ facts'[k][i] = [facts[k][i] EXCEPT !.to = t]
                  /\ facts[k][i].to # None => t = facts[k][i].to
  <2>1. facts'[k][i] = [facts[k][i] EXCEPT !.to = facts[k][i].to]
    BY <1>2, <1>3, SameRow
  <2> QED  BY <1>2, <1>3, <2>1
<1>4. ASSUME NEW r \in Requests, Commit(r), req[r].own[k] # None
      PROVE  /\ Len(facts'[k]) >= Len(facts[k])
             /\ \E t \in {facts[k][i].to, facts'[k][i].to} :
                  /\ facts'[k][i] = [facts[k][i] EXCEPT !.to = t]
                  /\ facts[k][i].to # None => t = facts[k][i].to
  <2> DEFINE at == req[r].own[k].at
  <2>1. /\ Len(facts'[k]) = Len(facts[k]) + 1
        /\ facts'[k][i] = IF i = OpenRow(k) THEN Closed(facts[k][i], at) ELSE facts[k][i]
    BY <1>1, <1>4, CommitRows
  <2>2. at \in Nat
    BY <1>1, <1>4, CommitMoves, Instants
  <2> HIDE DEF at
  <2>3. CASE i = OpenRow(k)
    <3>1. facts[k][i].to = None
      BY <1>2, <2>3 DEF OpenRow
    <3>2. facts'[k][i] = [facts[k][i] EXCEPT !.to = at]
      BY <2>1, <2>3 DEF Closed
    <3>3. facts'[k][i].to = at
      BY <1>2, <2>1, <2>2, <2>3, ClosedRow
    <3> QED  BY <1>2, <2>1, <3>1, <3>2, <3>3
  <2>4. CASE i # OpenRow(k)
    <3>1. facts'[k][i] = [facts[k][i] EXCEPT !.to = facts[k][i].to]
      BY <1>2, <2>1, <2>4, SameRow
    <3> QED  BY <1>2, <2>1, <3>1
  <2> QED  BY <2>3, <2>4
<1>5. ASSUME NEW r \in Requests, Commit(r), req[r].own[k] = None
      PROVE  facts'[k] = facts[k]
  BY <1>1, <1>5, CommitRows
<1> QED  BY <1>1, <1>3, <1>4, <1>5, FactsChangeByCommit

\* What was believed and has been superseded stays on record as it was: a commit
\* of CorrectFact closes the open row and touches no other.
THEOREM HistoryIsKept == Spec => HistoryStands
<1>1. Types /\ Intervals /\ [Next]_vars => [RowsStand]_vars
  BY RowsStandStep
<1> QED
  BY <1>1, TypesInit, TypesStep, IntervalsInit, IntervalsStep, PTL
  DEF Spec, HistoryStands, RowsStand

-----------------------------------------------------------------------------
(* The interview *)

\* What an open request has made of the interview.
Interview(r) ==
  /\ req[r].turn # None \/ req[r].asks => interview # None
  /\ req[r].done = "first" => interview # "completed"
  /\ req[r].done = "again" => interview = "completed"
  /\ req[r].read # None /\ profile = None =>
       /\ req[r].asks /\ req[r].todo = <<>>
       /\ req[r].pc \in {"upsert", "complete", "commit"}
  /\ req[r].pc = "commit" /\ req[r].for = "answer" /\ ~req[r].asks =>
       ~Answered(Transcript(r))

\* One position of the transcript, and one row of the session, to a transaction.
AppendsAlone ==
  \A q, r \in Requests :
    req[q] # Idle /\ Appended(q) /\ req[r] # Idle /\ Appended(r) => q = r

CompletesAlone ==
  \A q, r \in Requests :
    req[q] # Idle /\ req[q].done # "no" /\ req[r] # Idle /\ req[r].done # "no" => q = r

Interviews ==
  /\ interview = None => answers = [k \in Asked |-> None]
  /\ \A r \in Requests : req[r] # Idle => Interview(r)
  /\ AppendsAlone /\ CompletesAlone
  /\ AnsweredIsFinished /\ OneSweepAWholeProfile

LEMMA NothingAnswered == FactsFrom([k \in Asked |-> None]) = {}
  BY MemoryAssumption DEF FactsFrom

LEMMA InterviewsInit == Init => Interviews
<1> SUFFICES ASSUME Init PROVE Interviews
  OBVIOUS
<1>1. /\ answers = [k \in Asked |-> None] /\ interview = None /\ profile = None /\ triggers = 0
      /\ \A r \in Requests : req[r] = Idle
  BY DEF Init
<1>2. AnsweredIsFinished /\ OneSweepAWholeProfile
  BY <1>1, MemoryAssumption, NothingAnswered DEF AnsweredIsFinished, OneSweepAWholeProfile
<1> QED  BY <1>1, <1>2 DEF Interviews, AppendsAlone, CompletesAlone

\* Nobody else's part in the interview depends on what r does, until r commits.
LEMMA OthersInterview ==
  ASSUME NEW q \in Requests, req'[q] = req[q], UNCHANGED stored, Interview(q)
  PROVE  Interview(q)'
<1>1. Transcript(q)' = Transcript(q)
  BY DEF Transcript, stored
<1> QED
  BY <1>1, Zenon DEF Interview, Answered, Through, FactsFrom, Applicable, stored

\* What one step of a request makes of its part in the interview.
LEMMA MoverInterview ==
  ASSUME Types, Interviews, NEW r \in Requests, Request(r) \/ Moves(r)
  PROVE  /\ req'[r].turn # None \/ req'[r].asks => interview # None
         /\ req'[r].done = "first" => interview # "completed"
         /\ req'[r].done = "again" => interview = "completed"
         /\ req'[r].read # None /\ profile = None =>
              /\ req'[r].asks /\ req'[r].todo = <<>>
              /\ req'[r].pc \in {"upsert", "complete", "commit"}
         /\ req'[r].pc = "commit" /\ req'[r].for = "answer" /\ ~req'[r].asks =>
              ~Answered(Transcript(r)) /\ req'[r].turn = req[r].turn /\ req'[r].key = req[r].key
<1>1. TypeOK /\ RequestsFlow
  BY DEF Types
<1>2. CASE Request(r)
  BY <1>1, <1>2, RequestMoves
<1>3. ASSUME req[r] \in Open
      PROVE  /\ req[r].turn # None \/ req[r].asks => interview # None
             /\ req[r].done = "first" => interview # "completed"
             /\ req[r].done = "again" => interview = "completed"
             /\ req[r].read # None /\ profile = None =>
                  /\ req[r].asks /\ req[r].todo = <<>>
                  /\ req[r].pc \in {"upsert", "complete", "commit"}
             /\ req[r].for = "answer" => req[r].turn # None
  <2>1. req[r] # Idle
    BY <1>3, NotIdle
  <2> QED  BY <1>1, <2>1 DEF Interviews, Interview, RequestsFlow, Flow
<1>4. CASE AppendTurn(r)
  <2>1. req[r] \in Open /\ req[r].for = "answer"
    BY <1>1, <1>4, AppendTurnMoves DEF Flow
  <2> QED  BY <1>1, <1>3, <1>4, <2>1, AppendTurnMoves DEF Life
<1>5. CASE ReadClock(r)
  BY <1>1, <1>3, <1>5, ReadClockMoves DEF Life
<1>6. CASE ReadCurrent(r)
  BY <1>1, <1>3, <1>6, ReadCurrentMoves DEF Life
<1>7. CASE Write(r)
  BY <1>1, <1>3, <1>7, WriteMoves DEF Life
<1>8. CASE Refresh(r)
  BY <1>1, <1>3, <1>8, RefreshMoves DEF Life
<1>9. CASE FinishIfDone(r)
  <2>1. req[r] \in Open /\ req[r].for = "answer"
    BY <1>1, <1>9, FinishMoves DEF Flow
  <2> QED  BY <1>1, <1>3, <1>9, <2>1, FinishMoves DEF Life
<1>10. CASE Project(r)
  <2>1. req[r] \in Open /\ req[r].asks
    BY <1>1, <1>10, ProjectMoves DEF Flow
  <2> QED  BY <1>1, <1>3, <1>10, <2>1, ProjectMoves DEF Life
<1>11. CASE Upsert(r)
  BY <1>1, <1>3, <1>11, UpsertMoves DEF Life
<1>12. CASE Complete(r)
  <2>1. req[r] \in Open /\ req[r].asks /\ req[r].todo = <<>>
    BY <1>1, <1>12, CompleteMoves DEF Flow
  <2> QED  BY <1>1, <1>3, <1>12, <2>1, CompleteMoves DEF Life
<1> QED
  BY <1>2, <1>4, <1>5, <1>6, <1>7, <1>8, <1>9, <1>10, <1>11, <1>12 DEF Moves

\* Whoever appends, or completes, does so when nobody else has.
LEMMA MoverAlone ==
  ASSUME Types, NEW r \in Requests, Request(r) \/ Moves(r)
  PROVE  /\ req'[r].turn # None /\ req'[r].pc # "append" =>
              \/ req[r] # Idle /\ Appended(r)
              \/ \A q \in Requests \ {r} : req[q] # Idle => ~Appended(q)
         /\ req'[r].done # "no" =>
              \/ req[r] # Idle /\ req[r].done # "no"
              \/ \A q \in Requests \ {r} : req[q] # Idle => req[q].done = "no"
<1>1. TypeOK /\ RequestsFlow
  BY DEF Types
<1>2. CASE Request(r)
  BY <1>1, <1>2, RequestMoves
<1>3. CASE AppendTurn(r)
  BY <1>1, <1>3, AppendTurnMoves, NotIdle
<1>4. CASE Complete(r)
  BY <1>1, <1>4, CompleteMoves, NotIdle DEF Life, Appended
<1>5. CASE ReadClock(r) \/ ReadCurrent(r) \/ Write(r)
  BY <1>1, <1>5, ReadClockMoves, ReadCurrentMoves, WriteMoves, NotIdle, ZenonT(40) DEF Life, Appended
<1>6. CASE Refresh(r) \/ FinishIfDone(r)
  BY <1>1, <1>6, RefreshMoves, FinishMoves, NotIdle DEF Life, Appended
<1>7. CASE Project(r) \/ Upsert(r)
  BY <1>1, <1>7, ProjectMoves, UpsertMoves, NotIdle DEF Life, Appended
<1> QED  BY <1>2, <1>3, <1>4, <1>5, <1>6, <1>7 DEF Moves

\* Steps that change nothing that is stored.
LEMMA UnstoredInterviews ==
  ASSUME Types, Interviews, UNCHANGED stored, NEW r \in Requests,
         \A q \in Requests \ {r} : req'[q] = req[q],
         req'[r] # Idle => Request(r) \/ Moves(r)
  PROVE  Interviews'
<1>1. \A q \in Requests \ {r} : req'[q] # Idle => Interview(q)'
  BY OthersInterview DEF Interviews
<1>2. ASSUME req'[r] # Idle PROVE Interview(r)'
  <2>1. /\ interview' = interview /\ profile' = profile /\ answers' = answers
    BY DEF stored
  <2>2. /\ req'[r].turn # None \/ req'[r].asks => interview # None
        /\ req'[r].done = "first" => interview # "completed"
        /\ req'[r].done = "again" => interview = "completed"
        /\ req'[r].read # None /\ profile = None =>
             /\ req'[r].asks /\ req'[r].todo = <<>>
             /\ req'[r].pc \in {"upsert", "complete", "commit"}
        /\ req'[r].pc = "commit" /\ req'[r].for = "answer" /\ ~req'[r].asks =>
             ~Answered(Transcript(r)) /\ req'[r].turn = req[r].turn /\ req'[r].key = req[r].key
    BY <1>2, MoverInterview
  <2>3. req'[r].turn = req[r].turn /\ req'[r].key = req[r].key => Transcript(r)' = Transcript(r)
    BY <2>1 DEF Transcript
  <2>4. req'[r].pc = "commit" /\ req'[r].for = "answer" /\ ~req'[r].asks =>
          ~Answered(Transcript(r))'
    BY <2>2, <2>3, Zenon DEF Answered, Through, FactsFrom, Applicable
  <2> QED  BY <2>1, <2>2, <2>4, Zenon DEF Interview
<1>3. \A q \in Requests : req'[q] # Idle => Interview(q)'
  BY <1>1, <1>2
<1>4. AppendsAlone'
  <2> SUFFICES ASSUME NEW p \in Requests, NEW q \in Requests,
                      req'[p] # Idle, req'[p].turn # None, req'[p].pc # "append",
                      req'[q] # Idle, req'[q].turn # None, req'[q].pc # "append"
               PROVE  p = q
    BY DEF AppendsAlone, Appended, Idle
  <2>1. \A o \in Requests \ {r} : req'[o] # Idle /\ req'[o].turn # None /\ req'[o].pc # "append"
          => req[o] # Idle /\ Appended(o)
    BY DEF Appended
  <2>2. req'[r] # Idle /\ req'[r].turn # None /\ req'[r].pc # "append" =>
          \/ req[r] # Idle /\ Appended(r)
          \/ \A o \in Requests \ {r} : req[o] # Idle => ~Appended(o)
    BY MoverAlone
  <2>3. \A o, u \in Requests : req[o] # Idle /\ Appended(o) /\ req[u] # Idle /\ Appended(u) => o = u
    BY DEF Interviews, AppendsAlone
  <2> QED  BY <2>1, <2>2, <2>3
<1>5. CompletesAlone'
  <2> SUFFICES ASSUME NEW p \in Requests, NEW q \in Requests,
                      req'[p] # Idle, req'[p].done # "no", req'[q] # Idle, req'[q].done # "no"
               PROVE  p = q
    BY DEF CompletesAlone, Idle
  <2>1. req'[r] # Idle /\ req'[r].done # "no" =>
          \/ req[r] # Idle /\ req[r].done # "no"
          \/ \A o \in Requests \ {r} : req[o] # Idle => req[o].done = "no"
    BY MoverAlone
  <2>2. \A o, u \in Requests : req[o] # Idle /\ req[o].done # "no" /\
                               req[u] # Idle /\ req[u].done # "no" => o = u
    BY DEF Interviews, CompletesAlone
  <2> QED  BY <2>1, <2>2
<1>6. /\ interview' = None => answers' = [k \in Asked |-> None]
      /\ AnsweredIsFinished' /\ OneSweepAWholeProfile'
  <2>1. AnsweredIsFinished'
    BY Zenon DEF Interviews, AnsweredIsFinished, stored, Through, FactsFrom, Applicable
  <2> QED  BY <2>1 DEF Interviews, OneSweepAWholeProfile, stored
<1> QED  BY <1>3, <1>4, <1>5, <1>6, Zenon DEF Interviews, Idle

\* Starting the interview asks nothing yet.
LEMMA StartInterviews ==
  ASSUME Types, Interviews, Start
  PROVE  Interviews'
<1>1. /\ interview = None /\ interview' = "in_progress" /\ req' = req
      /\ answers' = answers /\ profile' = profile /\ triggers' = triggers
  BY DEF Start
<1>2. answers = [k \in Asked |-> None] /\ None # "in_progress" /\ None # "completed"
  BY <1>1, MemoryAssumption DEF Interviews
<1>3. \A r \in Requests : req[r] # Idle => Interview(r)'
  <2> SUFFICES ASSUME NEW r \in Requests, req[r] # Idle PROVE Interview(r)'
    OBVIOUS
  <2>1. Interview(r) /\ req[r] \in Open /\ Flow(req[r])
    BY DEF Interviews, Types, TypeOK, RequestsFlow
  <2>2. req[r].turn = None /\ ~req[r].asks /\ req[r].done # "again"
    BY <1>1, <1>2, <2>1 DEF Interview
  <2>3. req[r].for # "answer"
    BY <2>1, <2>2 DEF Flow
  <2> QED  BY <1>1, <1>2, <2>1, <2>2, <2>3 DEF Interview
<1>4. AppendsAlone' /\ CompletesAlone'
  BY <1>1 DEF Interviews, AppendsAlone, CompletesAlone, Appended, Idle
<1>5. AnsweredIsFinished'
  <2>1. FactsFrom(answers)' = {}
    BY <1>1, <1>2, NothingAnswered, Zenon DEF FactsFrom
  <2> QED  BY <2>1, Zenon DEF AnsweredIsFinished
<1>6. OneSweepAWholeProfile'
  BY <1>1, <1>2 DEF Interviews, OneSweepAWholeProfile
<1> QED  BY <1>1, <1>2, <1>3, <1>4, <1>5, <1>6 DEF Interviews, Idle

\* What r commits is what it found, and nobody else has appended or completed
\* meanwhile: an answer that leaves nothing open comes with the completion.
LEMMA CommitInterviews ==
  ASSUME Types, Interviews, NEW r \in Requests, Commit(r)
  PROVE  Interviews'
<1>1. /\ req[r] \in Open /\ Flow(req[r]) /\ req[r].pc = "commit" /\ req[r] # Idle
      /\ req'[r] = Idle /\ \A q \in Requests \ {r} : req'[q] = req[q]
      /\ answers' = (IF req[r].turn = None THEN answers ELSE Transcript(r))
      /\ profile' = (IF req[r].wrote = None THEN profile ELSE req[r].wrote)
      /\ interview' = (IF req[r].done = "no" THEN interview ELSE "completed")
      /\ triggers' = (IF req[r].done = "first" THEN triggers + 1 ELSE triggers)
  BY CommitMoves DEF Types
<1>2. Interview(r)
  BY <1>1 DEF Interviews
<1>3. \A q \in Requests : req'[q] # Idle => q # r /\ req[q] # Idle /\ req'[q] = req[q]
  BY <1>1
<1>4. None # "completed" /\ None # "in_progress"
  BY MemoryAssumption
<1>5. req[r].done \in {"no", "first", "again"}
  BY <1>1 DEF Open
<1>6. ASSUME NEW q \in Requests, req'[q] # Idle PROVE Interview(q)'
  <2>1. q # r /\ req[q] # Idle /\ req'[q] = req[q] /\ Interview(q) /\ Flow(req[q])
    BY <1>3, <1>6 DEF Interviews, Types, RequestsFlow
  <2>2. req[q].done # "no" => req[r].done = "no"
    BY <1>1, <2>1 DEF Interviews, CompletesAlone
  <2>3. req[q].pc = "commit" /\ req[q].for = "answer" => answers' = answers
    <3>1. Appended(r) <=> req[r].turn # None
      BY <1>1 DEF Appended
    <3>2. req[q].pc = "commit" /\ req[q].for = "answer" => Appended(q)
      BY <2>1 DEF Flow, Appended
    <3>3. Appended(q) => ~Appended(r)
      BY <1>1, <2>1 DEF Interviews, AppendsAlone
    <3> QED  BY <1>1, <3>1, <3>2, <3>3
  <2>4. answers' = answers => Transcript(q)' = Transcript(q)
    BY <2>1 DEF Transcript
  <2>5. req[q].pc = "commit" /\ req[q].for = "answer" /\ ~req[q].asks =>
          ~Answered(Transcript(q))'
    <3>1. req[q].pc = "commit" /\ req[q].for = "answer" /\ ~req[q].asks =>
            ~Answered(Transcript(q))
      BY <2>1 DEF Interview
    <3> QED  BY <2>3, <2>4, <3>1, Zenon DEF Answered, Through, FactsFrom, Applicable
  <2>6. /\ req[q].turn # None \/ req[q].asks => interview' # None
        /\ req[q].done = "first" => interview' # "completed"
        /\ req[q].done = "again" => interview' = "completed"
    BY <1>1, <1>4, <2>1, <2>2 DEF Interview
  <2>7. profile' = None => profile = None
    BY <1>1
  <2>8. req[q].read # None /\ profile' = None =>
          /\ req[q].asks /\ req[q].todo = <<>>
          /\ req[q].pc \in {"upsert", "complete", "commit"}
    BY <2>1, <2>7 DEF Interview
  <2> QED  BY <2>1, <2>5, <2>6, <2>8, Zenon DEF Interview
<1>7. AppendsAlone'
  <2>1. \A q \in Requests : req'[q] # Idle /\ Appended(q)' => req[q] # Idle /\ Appended(q)
    BY <1>3 DEF Appended
  <2> QED  BY <2>1 DEF Interviews, AppendsAlone, Idle
<1>8. CompletesAlone'
  BY <1>3 DEF Interviews, CompletesAlone, Idle
<1>9. interview' = None => answers' = [k \in Asked |-> None]
  <2>1. interview' = None => interview = None
    BY <1>1, <1>4
  <2>2. interview = None => req[r].turn = None
    BY <1>2 DEF Interview
  <2> QED  BY <1>1, <2>1, <2>2 DEF Interviews
<1>10. AnsweredIsFinished'
  <2>1. SUFFICES ASSUME interview' = "in_progress" PROVE ~Answered(answers)'
    BY Zenon DEF AnsweredIsFinished, Answered
  <2>2. req[r].done = "no" /\ interview = "in_progress"
    BY <1>1, <2>1
  <2>3. ~req[r].asks
    BY <1>1, <2>2 DEF Flow
  <2>4. ~Answered(answers')
    <3>1. CASE req[r].turn = None
      <4>1. ~Answered(answers)
        BY <2>2 DEF Interviews, AnsweredIsFinished, Answered
      <4> QED  BY <1>1, <3>1, <4>1
    <3>2. CASE req[r].turn # None
      <4>1. req[r].for = "answer"
        BY <1>1, <3>2 DEF Flow
      <4> QED  BY <1>1, <1>2, <2>3, <3>2, <4>1 DEF Interview
    <3> QED  BY <3>1, <3>2
  <2> QED  BY <2>4, Zenon DEF Answered, Through, FactsFrom, Applicable
<1>11. OneSweepAWholeProfile'
  <2>1. /\ triggers = IF interview = "completed" THEN 1 ELSE 0
        /\ profile # None <=> interview = "completed"
    BY DEF Interviews, OneSweepAWholeProfile
  <2>2. /\ req[r].done = "first" => interview # "completed"
        /\ req[r].done = "again" => interview = "completed"
    BY <1>2 DEF Interview
  <2>3. triggers' = IF interview' = "completed" THEN 1 ELSE 0
    BY <1>1, <1>5, <2>1, <2>2
  <2>4. req[r].done # "no" => req[r].wrote # None
    BY <1>1 DEF Flow
  <2>5. req[r].done = "no" /\ req[r].wrote # None => profile # None
    <3>1. req[r].wrote # None => req[r].read # None
      BY <1>1 DEF Flow
    <3>2. req[r].read # None /\ profile = None => req[r].asks
      BY <1>2 DEF Interview
    <3>3. req[r].asks => req[r].done # "no"
      BY <1>1 DEF Flow
    <3> QED  BY <3>1, <3>2, <3>3
  <2>6. profile' # None <=> interview' = "completed"
    BY <1>1, <2>1, <2>4, <2>5
  <2> QED  BY <2>3, <2>6 DEF OneSweepAWholeProfile
<1> QED  BY <1>6, <1>7, <1>8, <1>9, <1>10, <1>11, Zenon DEF Interviews, Idle

LEMMA InterviewsStep == Types /\ Interviews /\ [Next]_vars => Interviews'
<1> SUFFICES ASSUME Types, Interviews, [Next]_vars PROVE Interviews'
  OBVIOUS
<1>1. TypeOK /\ RequestsFlow
  BY DEF Types
<1>2. ASSUME NEW r \in Requests, Request(r) \/ Moves(r) PROVE Interviews'
  <2>1. Alone(r) /\ UNCHANGED stored
    BY <1>1, <1>2, MovesAlone
  <2> QED  BY <1>2, <2>1, UnstoredInterviews DEF Alone
<1>3. ASSUME NEW r \in Requests, Abort(r) PROVE Interviews'
  <2>1. UNCHANGED stored /\ req'[r] = Idle /\ \A q \in Requests \ {r} : req'[q] = req[q]
    BY <1>1, <1>3 DEF Abort, TypeOK, stored
  <2> QED  BY <2>1, UnstoredInterviews
<1>4. CASE UNCHANGED vars
  <2>1. UNCHANGED stored /\ \A q \in Requests : req'[q] = req[q]
    BY <1>4 DEF vars, stored
  <2>2. \A q \in Requests : req'[q] # Idle => Interview(q)'
    BY <2>1, OthersInterview DEF Interviews
  <2>3. AppendsAlone' /\ CompletesAlone'
    BY <2>1 DEF Interviews, AppendsAlone, CompletesAlone, Appended, Idle
  <2>4. AnsweredIsFinished'
    BY <2>1, Zenon DEF Interviews, AnsweredIsFinished, stored, Through, FactsFrom, Applicable
  <2>5. /\ interview' = None => answers' = [k \in Asked |-> None]
        /\ OneSweepAWholeProfile'
    BY <2>1 DEF Interviews, OneSweepAWholeProfile, stored
  <2> QED  BY <2>2, <2>3, <2>4, <2>5, Zenon DEF Interviews, Idle
<1> QED  BY <1>2, <1>3, <1>4, StartInterviews, CommitInterviews, NextCases

\* An interview with nothing left to answer is finished: of two requests that
\* answer the last two questions, the second to append sees what the first has
\* committed.
THEOREM AnsweredInterviewsFinish == Spec => []AnsweredIsFinished
<1>1. Interviews => AnsweredIsFinished
  BY DEF Interviews
<1> QED  BY <1>1, TypesInit, TypesStep, InterviewsInit, InterviewsStep, PTL DEF Spec

\* One interview asks for one sweep, with a profile for it to read: the row of the
\* session is locked before Complete looks at its status.
THEOREM InterviewsAskForOneSweep == Spec => []OneSweepAWholeProfile
<1>1. Interviews => OneSweepAWholeProfile
  BY DEF Interviews
<1> QED  BY <1>1, TypesInit, TypesStep, InterviewsInit, InterviewsStep, PTL DEF Spec

-----------------------------------------------------------------------------
(* The profile *)

\* What r has read for the profile is what it would read now, but for keys that a
\* commit has changed since, and for the fact it has just written.
UpToDate(r) ==
  req[r].read # None =>
    \A k \in Keys \ missed :
      req[r].read[k] = Visible(r)[k] \/ (req[r].pc = "project" /\ k = Key(r))

Projections ==
  /\ ProfileFollowsFacts
  /\ \A r \in Requests : req[r] # Idle => UpToDate(r)

LEMMA ProjectionsInit == Init => Projections
  BY DEF Init, Projections, ProfileFollowsFacts

\* What r sees depends on what is committed and what it has written itself.
LEMMA SeesTheSame ==
  ASSUME facts' = facts
  PROVE  /\ \A k \in Keys : Believed(k)' = Believed(k)
         /\ \A r \in Requests : \A k \in Keys :
              req'[r].own[k] = req[r].own[k] => Visible(r)'[k] = Visible(r)[k]
<1>1. \A k \in Keys : Believed(k)' = Believed(k)
  BY DEF Believed, OpenRow
<1>2. \A r \in Requests : \A k \in Keys :
        req'[r].own[k] = req[r].own[k] => Visible(r)'[k] = Visible(r)[k]
  BY <1>1 DEF Visible
<1> QED  BY <1>1, <1>2

\* A step of r leaves what it has read up to date.
LEMMA MoverUpToDate ==
  ASSUME Types, Interviews, Projections, NEW r \in Requests, Request(r) \/ Moves(r)
  PROVE  UpToDate(r)'
<1>1. TypeOK /\ RequestsFlow
  BY DEF Types
<1>2. UNCHANGED stored
  BY <1>1, MovesAlone
<1>3. /\ missed' = missed /\ facts' = facts
      /\ \A k \in Keys : req'[r].own[k] = req[r].own[k] => Visible(r)'[k] = Visible(r)[k]
  BY <1>2, SeesTheSame DEF stored
<1>4. ASSUME req[r] \in Open
      PROVE  req[r].read # None => \A k \in Keys \ missed :
               req[r].read[k] = Visible(r)[k] \/ (req[r].pc = "project" /\ k = Key(r))
  BY <1>4, NotIdle DEF Projections, UpToDate
<1>5. CASE Request(r)
  <2>1. req'[r].read = None
    BY <1>1, <1>5, RequestMoves
  <2> QED  BY <2>1 DEF UpToDate
<1>6. ASSUME req[r] \in Open, req[r].pc # "project",
             req'[r].read = req[r].read, req'[r].own = req[r].own
      PROVE  UpToDate(r)'
  BY <1>3, <1>4, <1>6 DEF UpToDate
<1>7. CASE AppendTurn(r) \/ ReadClock(r) \/ ReadCurrent(r)
  <2>1. /\ req[r] \in Open /\ req[r].pc # "project"
        /\ req'[r].read = req[r].read /\ req'[r].own = req[r].own
    BY <1>1, <1>7, AppendTurnMoves, ReadClockMoves, ReadCurrentMoves
  <2> QED  BY <1>6, <2>1
<1>8. CASE FinishIfDone(r) \/ Upsert(r) \/ Complete(r)
  <2>1. /\ req[r] \in Open /\ req[r].pc # "project"
        /\ req'[r].read = req[r].read /\ req'[r].own = req[r].own
    BY <1>1, <1>8, FinishMoves, UpsertMoves, CompleteMoves
  <2> QED  BY <1>6, <2>1
<1>9. ASSUME req'[r].read = Visible(r), req'[r].own = req[r].own
      PROVE  UpToDate(r)'
  BY <1>3, <1>9 DEF UpToDate
<1>10. CASE Project(r)
  BY <1>1, <1>9, <1>10, ProjectMoves
<1>11. CASE Refresh(r)
  <2>1. /\ req[r] \in Open /\ req[r].pc = "project" /\ req'[r].own = req[r].own
        /\ \/ profile = None /\ req'[r].read = req[r].read
           \/ req'[r].read = Visible(r)
    BY <1>1, <1>11, RefreshMoves
  <2>2. CASE profile = None /\ req'[r].read = req[r].read
    <3>1. req[r].read = None
      BY <2>1, <2>2, NotIdle DEF Interviews, Interview
    <3> QED  BY <2>2, <3>1 DEF UpToDate
  <2> QED  BY <1>9, <2>1, <2>2
<1>12. CASE Write(r)
  <2> DEFINE w == [closes |-> OpenRow(Key(r)), value |-> Value(r), at |-> req[r].at]
  <2>1. /\ req[r] \in Open /\ req[r].pc = "write" /\ req'[r].pc = "project"
        /\ req'[r].read = req[r].read /\ Key(r)' = Key(r)
        /\ req'[r].own = [req[r].own EXCEPT ![Key(r)] = w]
    BY <1>1, <1>12, WriteMoves
  <2> HIDE DEF w
  <2>2. \A k \in Keys : k # Key(r) => req'[r].own[k] = req[r].own[k]
    BY <2>1 DEF Open
  <2> QED  BY <1>3, <1>4, <2>1, <2>2 DEF UpToDate
<1> QED  BY <1>5, <1>7, <1>8, <1>10, <1>11, <1>12 DEF Moves

LEMMA UnstoredProjections ==
  ASSUME Types, Interviews, Projections, UNCHANGED stored, NEW r \in Requests,
         \A q \in Requests \ {r} : req'[q] = req[q],
         req'[r] # Idle => Request(r) \/ Moves(r)
  PROVE  Projections'
<1>1. /\ missed' = missed /\ facts' = facts /\ profile' = profile
      /\ \A k \in Keys : Believed(k)' = Believed(k)
      /\ \A q \in Requests : \A k \in Keys :
           req'[q].own[k] = req[q].own[k] => Visible(q)'[k] = Visible(q)[k]
  BY SeesTheSame DEF stored
<1>2. ProfileFollowsFacts'
  BY <1>1 DEF Projections, ProfileFollowsFacts
<1>3. \A q \in Requests \ {r} : req'[q] # Idle => UpToDate(q)'
  BY <1>1 DEF Projections, UpToDate, Key
<1>4. req'[r] # Idle => UpToDate(r)'
  BY MoverUpToDate
<1> QED  BY <1>2, <1>3, <1>4 DEF Projections, Idle

\* A commit puts the projection it took in place of the profile; what others have
\* changed since, and what it changes behind the back of others, is missed.
LEMMA CommitProjections ==
  ASSUME Types, Intervals, Projections, NEW r \in Requests, Commit(r)
  PROVE  Projections'
<1>1. /\ req[r] \in Open /\ Flow(req[r]) /\ req[r].pc = "commit" /\ req[r] # Idle
      /\ req'[r] = Idle /\ \A q \in Requests \ {r} : req'[q] = req[q]
      /\ profile' = (IF req[r].wrote = None THEN profile ELSE req[r].wrote)
      /\ missed' = missed \cup Missed(r)
  BY CommitMoves DEF Types
<1>2. \A k \in Keys :
        Believed(k)' = IF req[r].own[k] = None THEN Believed(k) ELSE req[r].own[k].value
  BY CommitRows DEF Types, Intervals
<1>3. \A k \in Keys : Believed(k)' = Visible(r)[k]
  BY <1>2 DEF Visible
<1>4. req[r].wrote = req[r].read
  BY <1>1 DEF Flow
<1>5. ProfileFollowsFacts'
  <2> SUFFICES ASSUME profile' # None, NEW k \in Keys \ missed'
               PROVE  profile'[k] = Believed(k)'
    BY DEF ProfileFollowsFacts
  <2>1. k \in Keys \ missed /\ k \notin Missed(r)
    BY <1>1
  <2>2. CASE req[r].wrote # None
    <3>1. req[r].read[k] = Visible(r)[k]
      BY <1>1, <1>4, <2>1, <2>2 DEF Projections, UpToDate
    <3> QED  BY <1>1, <1>3, <1>4, <2>2, <3>1
  <2>3. CASE req[r].wrote = None
    <3>1. profile' = profile /\ profile # None /\ req[r].read = None
      BY <1>1, <1>4, <2>3
    <3>2. req[r].own[k] = None
      BY <2>1, <3>1 DEF Missed, Writes
    <3> QED  BY <1>2, <2>1, <3>1, <3>2 DEF Projections, ProfileFollowsFacts
  <2> QED  BY <2>2, <2>3
<1>6. ASSUME NEW q \in Requests, req'[q] # Idle PROVE UpToDate(q)'
  <2>1. q # r /\ req[q] # Idle /\ req'[q] = req[q]
    BY <1>1, <1>6
  <2> SUFFICES ASSUME req[q].read # None, NEW k \in Keys \ missed'
               PROVE  req[q].read[k] = Visible(q)'[k] \/ (req[q].pc = "project" /\ k = Key(q))
    BY <2>1 DEF UpToDate, Key
  <2>2. q \in Others(r)
    BY <2>1 DEF Others
  <2>3. k \in Keys \ missed /\ req[r].own[k] = None
    BY <1>1, <2>2 DEF Missed, Writes
  <2>4. Visible(q)'[k] = Visible(q)[k]
    BY <1>2, <2>1, <2>3 DEF Visible
  <2> QED  BY <2>1, <2>3, <2>4 DEF Projections, UpToDate
<1> QED  BY <1>5, <1>6 DEF Projections, Idle

LEMMA ProjectionsStep ==
  Types /\ Intervals /\ Interviews /\ Projections /\ [Next]_vars => Projections'
<1> SUFFICES ASSUME Types, Intervals, Interviews, Projections, [Next]_vars PROVE Projections'
  OBVIOUS
<1>1. TypeOK /\ RequestsFlow
  BY DEF Types
<1>2. ASSUME NEW r \in Requests, Request(r) \/ Moves(r) PROVE Projections'
  <2>1. Alone(r) /\ UNCHANGED stored
    BY <1>1, <1>2, MovesAlone
  <2> QED  BY <1>2, <2>1, UnstoredProjections DEF Alone
<1>3. ASSUME NEW r \in Requests, Abort(r) PROVE Projections'
  <2>1. UNCHANGED stored /\ req'[r] = Idle /\ \A q \in Requests \ {r} : req'[q] = req[q]
    BY <1>1, <1>3 DEF Abort, TypeOK, stored
  <2> QED  BY <2>1, UnstoredProjections
<1>4. CASE Start \/ UNCHANGED vars
  <2>1. /\ missed' = missed /\ facts' = facts /\ profile' = profile /\ req' = req
    BY <1>4 DEF Start, vars
  <2>2. /\ \A k \in Keys : Believed(k)' = Believed(k)
        /\ \A r \in Requests : \A k \in Keys : Visible(r)'[k] = Visible(r)[k]
    BY <2>1, SeesTheSame
  <2> QED  BY <2>1, <2>2 DEF Projections, ProfileFollowsFacts, UpToDate, Key, Idle
<1> QED  BY <1>2, <1>3, <1>4, CommitProjections, NextCases

\* The profile that the Watcher reads is what is believed, but for the keys whose
\* change a projection taken at the same time has missed: writeProfileProjection
\* and refreshProfileProjection read without a lock.
THEOREM ProfileIsWhatWasSeen == Spec => []ProfileFollowsFacts
<1>1. Projections => ProfileFollowsFacts
  BY DEF Projections
<1> QED
  BY <1>1, TypesInit, TypesStep, IntervalsInit, IntervalsStep, InterviewsInit, InterviewsStep,
     ProjectionsInit, ProjectionsStep, PTL DEF Spec

-----------------------------------------------------------------------------
(* Every row is a change *)

\* OrderedFacts says of each fact what the transcript does.
LEMMA OrderedFactsAnswers ==
  ASSUME NEW given \in [Asked -> Answer], NEW n \in 1..Len(OrderedFacts(given))
  PROVE  /\ OrderedFacts(given)[n][1] \in Asked
         /\ OrderedFacts(given)[n][2] = given[OrderedFacts(given)[n][1]]
<1> DEFINE F == FactsFrom(given)
           Nth(m) == CHOOSE k \in F : Cardinality({j \in F : j < k}) = m - 1
<1>1. F \subseteq Asked /\ F \subseteq Nat
  BY MemoryAssumption DEF FactsFrom
<1>2. IsFiniteSet(F)
  BY <1>1, FS_Subset, MemoryAssumption
<1>3. Cardinality(F) \in Nat
  BY <1>2, FS_CardinalityType
<1>4. OrderedFacts(given) = [m \in 1..Cardinality(F) |-> <<Nth(m), given[Nth(m)]>>]
  BY Zenon DEF OrderedFacts
<1>5. Len(OrderedFacts(given)) = Cardinality(F)
  BY OrderedFactsType
<1>6. \A m \in 1..Cardinality(F) : Nth(m) \in F
  <2> TAKE m \in 1..Cardinality(F)
  <2>1. \E k \in F : Cardinality({j \in F : j < k}) = m - 1
    BY <1>1, <1>2, EveryRankIsTaken
  <2> QED  BY <2>1
<1>7. n \in 1..Cardinality(F)
  BY <1>5
<1>8. OrderedFacts(given)[n] = <<Nth(n), given[Nth(n)]>>
  <2> HIDE DEF F, Nth
  <2> QED  BY <1>4, <1>7
<1>9. Nth(n) \in Asked
  BY <1>1, <1>6, <1>7
<1> HIDE DEF F, Nth
<1> QED  BY <1>8, <1>9

\* What a request is to assert, and what it has written, never say two things of
\* a fact; until it confirms the interview, it is about one fact.
Agree(x) ==
  /\ \A i, j \in 1..Len(x.todo) : x.todo[i][1] = x.todo[j][1] => x.todo[i][2] = x.todo[j][2]
  /\ \A i \in 1..Len(x.todo) :
       x.own[x.todo[i][1]] # None => x.own[x.todo[i][1]].value = x.todo[i][2]
  /\ ~x.asks =>
       /\ \A i \in 1..Len(x.todo) :
            x.todo[i][1] = x.key /\ (x.for = "answer" => x.todo[i][2] = x.turn)
       /\ \A k \in Keys : x.own[k] # None =>
            k = x.key /\ (x.for = "answer" => x.own[k].value = x.turn)
  /\ x.for = "correct" => ~x.asks
  /\ x.for = "confirm" => x.asks

AllAgree == \A r \in Requests : req[r] # Idle => Agree(req[r])

\* A request that goes on with its list, or with the rest of it, still agrees.
LEMMA StillAgrees ==
  ASSUME NEW x \in Open, NEW y \in Open, Agree(x), Life(x, y),
         y.own = x.own, y.asks = x.asks,
         y.todo = x.todo \/ (x.todo # <<>> /\ y.todo = Tail(x.todo))
  PROVE  Agree(y)
<1>1. x.todo \in Seq(Keys \X Values) /\ y.todo \in Seq(Keys \X Values)
  BY DEF Open
<1>2. \A i \in 1..Len(y.todo) : \E j \in 1..Len(x.todo) : y.todo[i] = x.todo[j]
  <2>1. CASE y.todo = x.todo
    BY <2>1
  <2>2. CASE x.todo # <<>> /\ y.todo = Tail(x.todo)
    <3>1. Len(y.todo) = Len(x.todo) - 1 /\ Len(x.todo) \in Nat
      BY <1>1, <2>2
    <3>2. \A i \in 1..Len(y.todo) : i + 1 \in 1..Len(x.todo) /\ y.todo[i] = x.todo[i + 1]
      BY <1>1, <2>2, <3>1
    <3> QED  BY <3>2
  <2> QED  BY <2>1, <2>2
<1>3. \A i, j \in 1..Len(y.todo) : y.todo[i][1] = y.todo[j][1] => y.todo[i][2] = y.todo[j][2]
  <2> TAKE i, j \in 1..Len(y.todo)
  <2>1. PICK a \in 1..Len(x.todo) : y.todo[i] = x.todo[a]
    BY <1>2
  <2>2. PICK b \in 1..Len(x.todo) : y.todo[j] = x.todo[b]
    BY <1>2
  <2> QED  BY <2>1, <2>2 DEF Agree
<1>4. \A i \in 1..Len(y.todo) :
        /\ y.own[y.todo[i][1]] # None => y.own[y.todo[i][1]].value = y.todo[i][2]
        /\ ~y.asks => y.todo[i][1] = y.key /\ (y.for = "answer" => y.todo[i][2] = y.turn)
  <2> TAKE i \in 1..Len(y.todo)
  <2>1. PICK a \in 1..Len(x.todo) : y.todo[i] = x.todo[a]
    BY <1>2
  <2> QED  BY <2>1 DEF Agree, Life
<1>5. /\ ~y.asks => \A k \in Keys : y.own[k] # None =>
           k = y.key /\ (y.for = "answer" => y.own[k].value = y.turn)
      /\ y.for = "correct" => ~y.asks
      /\ y.for = "confirm" => y.asks
  BY DEF Agree, Life
<1> QED  BY <1>3, <1>4, <1>5 DEF Agree

LEMMA MoverAgrees ==
  ASSUME Types, AllAgree, NEW r \in Requests, Request(r) \/ Moves(r)
  PROVE  Agree(req'[r])
<1>1. TypeOK /\ RequestsFlow /\ answers \in [Asked -> Answer]
  BY DEF Types, TypeOK
<1>2. CASE Request(r)
  <2>1. /\ req'[r] \in Open /\ req'[r].own = [k \in Keys |-> None]
        /\ \/ req'[r].asks /\ req'[r].for # "correct" /\ req'[r].todo = OrderedFacts(answers)
           \/ ~req'[r].asks /\ req'[r].for = "answer" /\ req'[r].todo = <<>>
           \/ /\ ~req'[r].asks /\ req'[r].for = "correct"
              /\ \E v \in Values : req'[r].todo = <<<<req'[r].key, v>>>>
        /\ req'[r].for = "correct" => ~req'[r].asks
    BY <1>1, <1>2, RequestMoves DEF Alone
  <2> DEFINE x == req'[r]
  <2>2. \A k \in Keys : x.own[k] = None
    BY <2>1
  <2>3. x.todo \in Seq(Keys \X Values)
    BY <2>1 DEF Open
  <2>4. \A i \in 1..Len(x.todo) : x.todo[i][1] \in Keys
    BY <2>3
  <2>5. CASE x.asks
    <3>1. x.todo = OrderedFacts(answers) /\ x.for # "correct"
      BY <2>1, <2>5
    <3>2. \A i \in 1..Len(x.todo) : x.todo[i][2] = answers[x.todo[i][1]]
      BY <1>1, <3>1, OrderedFactsAnswers
    <3> QED  BY <2>2, <2>4, <2>5, <3>1, <3>2 DEF Agree
  <2>6. CASE ~x.asks
    <3>1. /\ x.todo = <<>> \/ (x.for = "correct" /\ \E v \in Values : x.todo = <<<<x.key, v>>>>)
          /\ x.for # "confirm"
      BY <2>1, <2>6
    <3>2. \A i \in 1..Len(x.todo) : i = 1 /\ x.todo[i][1] = x.key /\ x.for = "correct"
      BY <3>1
    <3> QED  BY <2>2, <2>4, <3>1, <3>2, <2>6 DEF Agree
  <2> QED  BY <2>5, <2>6
<1>3. ASSUME Moves(r) PROVE req[r] \in Open /\ req'[r] \in Open /\ Agree(req[r])
  <2>1. req[r] \in Open
    BY <1>1, <1>3, AppendTurnMoves, ReadClockMoves, ReadCurrentMoves, WriteMoves, RefreshMoves,
       FinishMoves, ProjectMoves, UpsertMoves, CompleteMoves, ZenonT(40) DEF Moves
  <2>2. req'[r] \in Open
    BY <1>1, <1>3, MovesAlone DEF Alone
  <2> QED  BY <2>1, <2>2, NotIdle DEF AllAgree
<1>4. CASE AppendTurn(r)
  <2> DEFINE x == req[r]
             y == req'[r]
  <2>1. /\ Agree(x) /\ y \in Open
        /\ Life(x, y) /\ y.own = x.own /\ y.asks = x.asks /\ Flow(x) /\ x.pc = "append"
        /\ y.todo = (IF x.turn = "skip" THEN <<>> ELSE <<<<x.key, x.turn>>>>)
    BY <1>1, <1>3, <1>4, AppendTurnMoves DEF Moves
  <2>2. ~x.asks /\ x.for = "answer"
    BY <2>1 DEF Flow
  <2>3. \A i \in 1..Len(y.todo) : y.todo[i] = <<x.key, x.turn>>
    BY <2>1
  <2>4. \A i \in 1..Len(y.todo) : y.todo[i][1] \in Keys
    <3>1. y.todo \in Seq(Keys \X Values)
      BY <2>1 DEF Open
    <3> QED  BY <3>1
  <2>5. \A k \in Keys : x.own[k] # None => k = x.key /\ x.own[k].value = x.turn
    BY <2>1, <2>2 DEF Agree
  <2> HIDE DEF x, y
  <2>6. Agree(y)
    BY <2>1, <2>2, <2>3, <2>4, <2>5 DEF Agree, Life
  <2> QED  BY <2>6 DEF y
<1>5. CASE FinishIfDone(r)
  <2> DEFINE x == req[r]
             y == req'[r]
  <2>1. /\ Agree(x) /\ y \in Open /\ x \in Open
        /\ Life(x, y) /\ y.own = x.own /\ Flow(x) /\ x.pc = "finish"
        /\ \/ y.asks /\ y.todo = OrderedFacts(Transcript(r))
           \/ y.todo = <<>> /\ y.asks = x.asks
    BY <1>1, <1>3, <1>5, FinishMoves DEF Moves
  <2>2. ~x.asks /\ x.for = "answer" /\ x.key \in Asked /\ x.turn # None
    BY <2>1 DEF Flow
  <2>3. \A k \in Keys : x.own[k] # None => k = x.key /\ x.own[k].value = x.turn
    BY <2>1, <2>2 DEF Agree
  <2>4. Transcript(r) \in [Asked -> Answer] /\ Transcript(r)[x.key] = x.turn
    BY <1>1, <2>1, <2>2, Reading DEF Transcript
  <2>5. CASE y.asks /\ y.todo = OrderedFacts(Transcript(r))
    <3>1. \A i \in 1..Len(y.todo) : y.todo[i][2] = Transcript(r)[y.todo[i][1]]
      BY <2>4, <2>5, OrderedFactsAnswers
    <3>2. \A i \in 1..Len(y.todo) : y.todo[i][1] \in Keys
      <4>1. y.todo \in Seq(Keys \X Values)
        BY <2>1 DEF Open
      <4> QED  BY <4>1
    <3> HIDE DEF x, y
    <3>3. Agree(y)
      BY <2>1, <2>2, <2>3, <2>4, <2>5, <3>1, <3>2 DEF Agree, Life
    <3> QED  BY <3>3 DEF y
  <2>6. CASE y.todo = <<>> /\ y.asks = x.asks
    <3>1. \A i \in 1..Len(y.todo) : FALSE
      BY <2>6
    <3> HIDE DEF x, y
    <3>2. Agree(y)
      BY <2>1, <2>2, <2>3, <2>6, <3>1 DEF Agree, Life
    <3> QED  BY <3>2 DEF y
  <2> QED  BY <2>1, <2>5, <2>6
<1>6. CASE Write(r)
  <2> DEFINE x == req[r]
             y == req'[r]
             key == Key(r)
             w == [closes |-> OpenRow(Key(r)), value |-> Value(r), at |-> req[r].at]
  <2>1. /\ Agree(x) /\ x \in Open /\ Flow(x) /\ x.pc = "write"
        /\ Life(x, y) /\ y.asks = x.asks /\ y.todo = x.todo
        /\ key \in Keys /\ y.own = [x.own EXCEPT ![key] = w]
    BY <1>1, <1>3, <1>6, WriteMoves DEF Moves
  <2>2. w.value = Value(r)
    OBVIOUS
  <2>3. x.todo \in Seq(Keys \X Values) /\ x.own \in [Keys -> Written \cup {None}] /\ x.todo # <<>>
    BY <2>1 DEF Open, Flow
  <2>4. 1 \in 1..Len(x.todo) /\ key = x.todo[1][1] /\ Value(r) = x.todo[1][2]
    BY <2>3 DEF Key, Value
  <2>5. \A i \in 1..Len(x.todo) : x.todo[i][1] \in Keys
    BY <2>3
  <2> HIDE DEF w, key, x, y
  <2>6. \A k \in Keys : y.own[k] = IF k = key THEN w ELSE x.own[k]
    BY <2>1, <2>3
  <2>7. \A i \in 1..Len(y.todo) :
          y.own[y.todo[i][1]] # None => y.own[y.todo[i][1]].value = y.todo[i][2]
    BY <2>1, <2>2, <2>4, <2>5, <2>6 DEF Agree
  <2>8. ~y.asks => \A k \in Keys : y.own[k] # None =>
          k = y.key /\ (y.for = "answer" => y.own[k].value = y.turn)
    BY <2>1, <2>2, <2>4, <2>6 DEF Agree, Life
  <2>9. Agree(y)
    BY <2>1, <2>7, <2>8 DEF Agree, Life
  <2> QED  BY <2>9 DEF y
<1>7. CASE ReadClock(r) \/ ReadCurrent(r) \/ Refresh(r)
  <2>1. /\ Life(req[r], req'[r]) /\ req'[r].own = req[r].own /\ req'[r].asks = req[r].asks
        /\ \/ req'[r].todo = req[r].todo
           \/ req[r].todo # <<>> /\ req'[r].todo = Tail(req[r].todo)
    BY <1>1, <1>7, ReadClockMoves, ReadCurrentMoves, RefreshMoves
  <2> QED  BY <1>3, <1>7, <2>1, StillAgrees DEF Moves
<1>8. CASE Project(r) \/ Upsert(r) \/ Complete(r)
  <2>1. /\ Life(req[r], req'[r]) /\ req'[r].own = req[r].own
        /\ req'[r].asks = req[r].asks \/ (req'[r].asks /\ req[r].asks)
        /\ \/ req'[r].todo = req[r].todo
           \/ req[r].todo # <<>> /\ req'[r].todo = Tail(req[r].todo)
    BY <1>1, <1>8, ProjectMoves, UpsertMoves, CompleteMoves
  <2>2. req'[r].asks = req[r].asks
    BY <1>3, <1>8, <2>1 DEF Moves, Open
  <2> QED  BY <1>3, <1>8, <2>1, <2>2, StillAgrees DEF Moves
<1> QED  BY <1>2, <1>4, <1>5, <1>6, <1>7, <1>8 DEF Moves

LEMMA AllAgreeStep == Types /\ AllAgree /\ [Next]_vars => AllAgree'
<1> SUFFICES ASSUME Types, AllAgree, [Next]_vars, NEW q \in Requests, req'[q] # Idle
             PROVE  Agree(req'[q])
  BY DEF AllAgree, Idle
<1>1. CASE req'[q] = req[q]
  BY <1>1 DEF AllAgree
<1>2. CASE Start \/ UNCHANGED vars
  BY <1>1, <1>2 DEF Start, vars
<1>3. ASSUME NEW r \in Requests, Request(r) \/ Moves(r) PROVE Agree(req'[q])
  <2>1. q = r \/ req'[q] = req[q]
    BY <1>3, MovesAlone DEF Alone, Types
  <2> QED  BY <1>1, <1>3, <2>1, MoverAgrees
<1>4. ASSUME NEW r \in Requests, Commit(r) \/ Abort(r) PROVE Agree(req'[q])
  <2>1. req'[q] = req[q]
    BY <1>4 DEF Commit, Abort, Types, TypeOK
  <2> QED  BY <1>1, <2>1
<1> QED  BY <1>2, <1>3, <1>4, NextCases

\* A request that is about to write has not written this fact, and while the row
\* it read is the open one, that row says something else.
Noted(r) ==
  LET k == Key(r) IN
  /\ req[r].own[k] = None
  /\ req[r].cur <= Len(facts[k])
  /\ req[r].cur = OpenRow(k) => Believed(k) # Value(r)

\* What is written and not committed is another value than the one it replaces.
Differs(r) == \A k \in Keys : req[r].own[k] # None => req[r].own[k].value # Believed(k)

Changes ==
  /\ AllAgree
  /\ \A r \in Requests : req[r] # Idle =>
       Differs(r) /\ (req[r].pc = "write" => Noted(r))
  /\ EveryRowIsAChange

LEMMA ChangesInit == Init => Changes
  BY DEF Init, Changes, AllAgree, EveryRowIsAChange

\* What one step of a request that is not its commit makes of it.
LEMMA MoverChanges ==
  ASSUME Types, Changes, NEW r \in Requests, Request(r) \/ Moves(r)
  PROVE  Differs(r)' /\ (req'[r].pc = "write" => Noted(r)')
<1>1. TypeOK /\ RequestsFlow
  BY DEF Types
<1>2. facts' = facts
  BY <1>1, MovesAlone DEF stored
<1>3. \A k \in Keys : Believed(k)' = Believed(k) /\ OpenRow(k)' = OpenRow(k)
  BY <1>2 DEF Believed, OpenRow
<1>4. CASE Request(r)
  <2>1. req'[r].own = [k \in Keys |-> None] /\ req'[r].pc # "write"
    BY <1>1, <1>4, RequestMoves
  <2> QED  BY <2>1 DEF Differs
<1>5. CASE Write(r)
  <2> DEFINE key == Key(r)
             w == [closes |-> OpenRow(Key(r)), value |-> Value(r), at |-> req[r].at]
  <2>1. /\ req[r] \in Open /\ req[r].pc = "write" /\ req'[r].pc = "project"
        /\ key \in Keys /\ req'[r].own = [req[r].own EXCEPT ![key] = w]
    BY <1>1, <1>5, WriteMoves
  <2>2. req[r].cur = OpenRow(key)
    BY <1>5 DEF Write
  <2>3. req[r] # Idle /\ req[r].own \in [Keys -> Written \cup {None}]
    BY <2>1, NotIdle DEF Open
  <2>4. Believed(key) # Value(r)
    BY <2>1, <2>2, <2>3 DEF Changes, Noted
  <2>5. w.value = Value(r)
    OBVIOUS
  <2> HIDE DEF w, key
  <2>6. \A k \in Keys : req'[r].own[k] = IF k = key THEN w ELSE req[r].own[k]
    BY <2>1, <2>3
  <2>7. Differs(r)
    BY <2>3 DEF Changes
  <2> QED  BY <1>3, <2>1, <2>4, <2>5, <2>6, <2>7 DEF Differs
<1>6. CASE ReadCurrent(r)
  <2>1. /\ req[r] \in Open /\ req'[r] \in Open /\ req'[r].own = req[r].own /\ req[r].todo # <<>>
        /\ req'[r].pc = "write" => /\ req'[r].todo = req[r].todo
                                   /\ req'[r].cur = OpenRow(Key(r))
                                   /\ Visible(r)[Key(r)] # Value(r)
    BY <1>1, <1>6, ReadCurrentMoves DEF Alone
  <2>2. req[r] # Idle
    BY <2>1, NotIdle
  <2>3. Differs(r)'
    BY <1>3, <2>1, <2>2 DEF Changes, Differs
  <2>4. ASSUME req'[r].pc = "write" PROVE Noted(r)'
    <3>1. /\ Key(r)' = Key(r) /\ Value(r)' = Value(r) /\ Key(r) \in Keys
          /\ OpenRow(Key(r)) \in 0..Len(facts[Key(r)]) /\ Len(facts[Key(r)]) \in Nat
      BY <1>1, <2>1, <2>4, Reading, Instants DEF Key, Value
    <3>2. Visible(r)[Key(r)] =
            IF req[r].own[Key(r)] # None THEN req[r].own[Key(r)].value ELSE Believed(Key(r))
      BY <3>1 DEF Visible
    <3>3. req[r].own[Key(r)] = None
      <4>1. req[r].todo \in Seq(Keys \X Values) /\ Agree(req[r])
        BY <2>1, <2>2 DEF Open, Changes, AllAgree
      <4>2. 1 \in 1..Len(req[r].todo) /\ Key(r) = req[r].todo[1][1] /\ Value(r) = req[r].todo[1][2]
        BY <2>1, <4>1 DEF Key, Value
      <4>3. req[r].own[Key(r)] # None => req[r].own[Key(r)].value = Value(r)
        BY <4>1, <4>2 DEF Agree
      <4> QED  BY <2>1, <2>4, <3>2, <4>3
    <3>4. req'[r].cur = OpenRow(Key(r)) /\ Believed(Key(r)) # Value(r)
      BY <2>1, <2>4, <3>2, <3>3
    <3>5. req'[r].own[Key(r)'] = None /\ req'[r].cur <= Len(facts'[Key(r)'])
      BY <1>2, <2>1, <3>1, <3>3, <3>4
    <3>6. Believed(Key(r))' # Value(r)'
      BY <1>2, <3>1, <3>4 DEF Believed, OpenRow
    <3> QED  BY <3>5, <3>6 DEF Noted
  <2> QED  BY <2>3, <2>4
<1>7. CASE \/ AppendTurn(r) \/ ReadClock(r) \/ Refresh(r) \/ FinishIfDone(r)
           \/ Project(r) \/ Upsert(r) \/ Complete(r)
  <2>1. req[r] \in Open /\ req'[r].own = req[r].own
    BY <1>1, <1>7, AppendTurnMoves, ReadClockMoves, RefreshMoves, FinishMoves, ProjectMoves,
       UpsertMoves, CompleteMoves, ZenonT(40)
  <2>2. req'[r].pc # "write"
    BY <1>1, <1>7, AppendTurnMoves, ReadClockMoves, RefreshMoves, FinishMoves, ProjectMoves,
       UpsertMoves, CompleteMoves, ZenonT(40)
  <2>3. Differs(r)
    BY <2>1, NotIdle DEF Changes
  <2> QED  BY <1>3, <2>1, <2>2, <2>3 DEF Differs
<1> QED  BY <1>4, <1>5, <1>6, <1>7 DEF Moves

\* A commit gives a fact another value, and leaves those of others alone.
LEMMA CommitChanges ==
  ASSUME Types, Intervals, Changes, NEW r \in Requests, Commit(r)
  PROVE  /\ \A q \in Requests : req'[q] # Idle =>
              Differs(q)' /\ (req'[q].pc = "write" => Noted(q)')
         /\ EveryRowIsAChange'
<1>1. TypeOK /\ RequestsFlow /\ Pending /\ Exclusive
  BY DEF Types, Intervals
<1>2. /\ req[r] # Idle /\ req'[r] = Idle /\ \A q \in Requests \ {r} : req'[q] = req[q]
  BY <1>1, CommitMoves
<1>3. ASSUME NEW q \in Requests, req'[q] # Idle
      PROVE  Differs(q)' /\ (req'[q].pc = "write" => Noted(q)')
  <2>1. q # r /\ req'[q] = req[q] /\ req[q] # Idle /\ req[q] \in Open
    BY <1>1, <1>2, <1>3 DEF TypeOK
  <2>2. Differs(q)'
    <3> SUFFICES ASSUME NEW k \in Keys, req[q].own[k] # None
                 PROVE  req[q].own[k].value # Believed(k)'
      BY <2>1 DEF Differs
    <3>1. req[r].own[k] = None
      BY <1>1, <1>2, <2>1 DEF Exclusive
    <3>2. Believed(k)' = Believed(k)
      BY <1>1, <3>1, CommitRows
    <3> QED  BY <2>1, <3>2 DEF Changes, Differs
  <2>3. ASSUME req'[q].pc = "write" PROVE Noted(q)'
    <3> DEFINE k == Key(q)
    <3>1. Noted(q) /\ Flow(req[q])
      BY <1>1, <2>1, <2>3 DEF Changes, RequestsFlow
    <3>2. k \in Keys /\ req[q].cur \in Nat /\ Len(facts[k]) \in Nat
      <4>1. req[q].todo # <<>> /\ req[q].cur \in Nat
        BY <2>1, <2>3, <3>1 DEF Flow, Open
      <4> QED  BY <1>1, <2>1, <4>1, Reading, Instants
    <3>3. Key(q)' = k /\ Value(q)' = Value(q)
      BY <2>1 DEF Key, Value
    <3> HIDE DEF k
    <3>4. /\ req[q].own[k] = None /\ req[q].cur <= Len(facts[k])
          /\ req[q].cur = OpenRow(k) => Believed(k) # Value(q)
      BY <3>1 DEF Noted, k
    <3>5. PICK h \in Keys : h = k
      BY <3>2
    <3>6. CASE req[r].own[k] = None
      <4>1. facts'[h] = facts[h] /\ OpenRow(h)' = OpenRow(h) /\ Believed(h)' = Believed(h)
        BY <1>1, <3>5, <3>6, CommitRows
      <4> QED  BY <2>1, <3>3, <3>4, <3>5, <4>1 DEF Noted
    <3>7. CASE req[r].own[k] # None
      <4>1. Len(facts'[h]) = Len(facts[h]) + 1 /\ OpenRow(h)' = Len(facts[h]) + 1
        BY <1>1, <3>5, <3>7, CommitRows
      <4>2. req[q].cur # OpenRow(h)' /\ req[q].cur <= Len(facts'[h])
        BY <3>2, <3>4, <3>5, <4>1
      <4> QED  BY <2>1, <3>3, <3>4, <3>5, <4>2 DEF Noted
    <3> QED  BY <3>6, <3>7
  <2> QED  BY <2>2, <2>3
<1>4. EveryRowIsAChange'
  <2> SUFFICES ASSUME NEW k \in Keys, NEW i \in 1..(Len(facts'[k]) - 1)
               PROVE  facts'[k][i].value # facts'[k][i + 1].value
    BY DEF EveryRowIsAChange
  <2>1. CASE req[r].own[k] = None
    <3>1. facts'[k] = facts[k]
      BY <1>1, <2>1, CommitRows
    <3> QED  BY <3>1 DEF Changes, EveryRowIsAChange
  <2>2. CASE req[r].own[k] # None
    <3> DEFINE n == Len(facts[k])
               w == req[r].own[k]
    <3>1. /\ Len(facts'[k]) = n + 1
          /\ \A j \in 1..n : facts'[k][j] =
               IF j = OpenRow(k) THEN Closed(facts[k][j], w.at) ELSE facts[k][j]
          /\ facts'[k][n + 1] = Added(w, Source(r))
      BY <1>1, <2>2, CommitRows
    <3>2. /\ w \in Written /\ w.at \in Nat /\ n \in Nat
          /\ Source(r) \in {"human", "onboarding"} /\ \A j \in 1..n : facts[k][j] \in Row
      BY <1>1, <1>2, <2>2, Instants DEF Source
    <3>3. n # 0 => OpenRow(k) = n
      BY <1>1, <2>2, CommitInstants
    <3>4. w.value # Believed(k)
      BY <1>2, <2>2 DEF Changes, Differs
    <3> HIDE DEF n, w
    <3>5. \A j \in 1..n : facts'[k][j].value = facts[k][j].value
      <4>1. \A j \in 1..n : Closed(facts[k][j], w.at).value = facts[k][j].value
        BY <3>2, ClosedRow
      <4> QED  BY <3>1, <4>1
    <3>6. facts'[k][n + 1].value = w.value
      BY <3>1, <3>2, AddedRow
    <3>7. i \in 1..n
      BY <3>1, <3>2
    <3>8. CASE i = n
      <4>1. Believed(k) = facts[k][n].value
        BY <3>2, <3>3, <3>7, <3>8 DEF Believed
      <4> QED  BY <3>4, <3>5, <3>6, <3>7, <3>8, <4>1
    <3>9. CASE i # n
      <4>1. i \in 1..(n - 1) /\ i + 1 \in 1..n
        BY <3>2, <3>7, <3>9
      <4>2. facts[k][i].value # facts[k][i + 1].value
        BY <4>1 DEF Changes, EveryRowIsAChange, n
      <4> QED  BY <3>5, <3>7, <4>1, <4>2
    <3> QED  BY <3>8, <3>9
  <2> QED  BY <2>1, <2>2
<1> QED  BY <1>3, <1>4

LEMMA ChangesStep == Types /\ Intervals /\ Changes /\ [Next]_vars => Changes'
<1> SUFFICES ASSUME Types, Intervals, Changes, [Next]_vars PROVE Changes'
  OBVIOUS
<1> DEFINE Fine(q) == Differs(q)' /\ (req'[q].pc = "write" => Noted(q)')
<1>1. AllAgree'
  BY AllAgreeStep DEF Changes
<1>2. ASSUME facts' = facts, NEW q \in Requests, req'[q] = req[q], req[q] # Idle
      PROVE  Fine(q)
  <2>1. Differs(q) /\ (req[q].pc = "write" => Noted(q))
    BY <1>2 DEF Changes
  <2>2. Key(q)' = Key(q) /\ Value(q)' = Value(q)
    BY <1>2 DEF Key, Value
  <2>3. Differs(q)' = Differs(q)
    BY <1>2 DEF Differs, Believed, OpenRow
  <2>4. Noted(q)' = Noted(q)
    BY <1>2, <2>2 DEF Noted, Believed, OpenRow
  <2> QED  BY <1>2, <2>1, <2>3, <2>4
<1>3. ASSUME facts' = facts PROVE EveryRowIsAChange'
  BY <1>3 DEF Changes, EveryRowIsAChange
<1>4. CASE Start \/ UNCHANGED vars
  <2>1. facts' = facts /\ req' = req
    BY <1>4 DEF Start, vars
  <2> QED  BY <1>1, <1>2, <1>3, <2>1 DEF Changes, Idle
<1>5. ASSUME NEW r \in Requests, Request(r) \/ Moves(r) PROVE Changes'
  <2>1. facts' = facts /\ \A q \in Requests \ {r} : req'[q] = req[q]
    BY <1>5, MovesAlone DEF Alone, stored, Types
  <2>2. Fine(r)
    BY <1>5, MoverChanges
  <2> QED  BY <1>1, <1>2, <1>3, <2>1, <2>2 DEF Changes, Idle
<1>6. ASSUME NEW r \in Requests, Abort(r) PROVE Changes'
  <2>1. facts' = facts /\ req'[r] = Idle /\ \A q \in Requests \ {r} : req'[q] = req[q]
    BY <1>6 DEF Abort, stored, Types, TypeOK
  <2> QED  BY <1>1, <1>2, <1>3, <2>1 DEF Changes, Idle
<1>7. ASSUME NEW r \in Requests, Commit(r) PROVE Changes'
  BY <1>1, <1>7, CommitChanges DEF Changes, Idle
<1> QED  BY <1>4, <1>5, <1>6, <1>7, NextCases

\* No row of a fact repeats the one before it, whatever corrections overlap: what
\* CorrectFact reads is the open row still when it writes, and says another value.
THEOREM EveryRowChangesWhatIsBelieved == Spec => []EveryRowIsAChange
<1>1. Changes => EveryRowIsAChange
  BY DEF Changes
<1> QED
  BY <1>1, TypesInit, TypesStep, IntervalsInit, IntervalsStep, ChangesInit, ChangesStep, PTL
  DEF Spec

-----------------------------------------------------------------------------
(* A request looks like one step, at its commit *)

\* The clock's bound, which is that of the instants of Beliefs.
Bounded == clock <= MaxInstant

LEMMA BoundedStep == Types /\ Bounded /\ [Next]_vars => Bounded'
<1> SUFFICES ASSUME Types, Bounded, [Next]_vars PROVE Bounded'
  OBVIOUS
<1>1. TypeOK /\ RequestsFlow /\ clock \in Nat
  BY DEF Types, TypeOK
<1>2. CASE clock' = clock
  BY <1>2 DEF Bounded
<1>3. ASSUME NEW r \in Requests, ReadClock(r) PROVE Bounded'
  BY <1>1, <1>3, MemoryAssumption DEF ReadClock, Bounded
<1>4. ASSUME NEW r \in Requests, Request(r) \/ Moves(r), ~ReadClock(r) PROVE clock' = clock
  BY <1>1, <1>4, RequestMoves, AppendTurnMoves, ReadCurrentMoves, WriteMoves, RefreshMoves,
     FinishMoves, ProjectMoves, UpsertMoves, CompleteMoves DEF Moves
<1>5. ASSUME NEW r \in Requests, Commit(r) \/ Abort(r) PROVE clock' = clock
  BY <1>5 DEF Commit, Abort
<1>6. CASE Start \/ UNCHANGED vars
  BY <1>2, <1>6 DEF Start, vars
<1> QED  BY <1>2, <1>3, <1>4, <1>5, <1>6, NextCases

\* What Beliefs keeps of a row, and of the rows of each fact.
Held(row) == [value |-> row.value, by |-> row.by, from |-> row.from]

Histories == [k \in Keys |-> History(facts[k])]

LEMMA HistoryIs ==
  ASSUME NEW rows \in Seq(Row)
  PROVE  /\ Len(History(rows)) = Len(rows)
         /\ History(rows) \in Seq([value : Values, by : {"human", "onboarding"}, from : Nat])
         /\ \A i \in 1..Len(rows) : History(rows)[i] = Held(rows[i])
<1>1. History(rows) = [i \in 1..Len(rows) |-> Held(rows[i])]
  BY DEF History, Held
<1>2. \A i \in 1..Len(rows) :
        Held(rows[i]) \in [value : Values, by : {"human", "onboarding"}, from : Nat]
  <2>1. \A row \in Row : Held(row) \in [value : Values, by : {"human", "onboarding"}, from : Nat]
    BY DEF Held, Row
  <2>2. \A i \in 1..Len(rows) : rows[i] \in Row
    OBVIOUS
  <2> QED  BY <2>1, <2>2
<1> QED  BY <1>1, <1>2

\* Rows with the same of them in Beliefs, and one more, have one belief more.
LEMMA HistoryGrows ==
  ASSUME NEW old \in Seq(Row), NEW new \in Seq(Row), Len(new) = Len(old) + 1,
         \A i \in 1..Len(old) : Held(new[i]) = Held(old[i])
  PROVE  History(new) = Append(History(old), Held(new[Len(old) + 1]))
<1> DEFINE S == [value : Values, by : {"human", "onboarding"}, from : Nat]
           b == Held(new[Len(old) + 1])
           n == Len(old)
<1>1. n \in Nat /\ n + 1 \in 1..Len(new)
  OBVIOUS
<1>2. /\ History(old) \in Seq(S) /\ Len(History(old)) = n
      /\ \A i \in 1..n : History(old)[i] = Held(old[i])
  BY HistoryIs
<1>3. /\ History(new) \in Seq(S) /\ Len(History(new)) = n + 1
      /\ \A i \in 1..(n + 1) : History(new)[i] = Held(new[i])
  BY HistoryIs
<1>4. b \in S /\ History(new)[n + 1] = b
  <2>1. n + 1 \in 1..(n + 1) /\ n + 1 \in 1..Len(History(new))
    BY <1>1, <1>3
  <2>2. History(new)[n + 1] = Held(new[n + 1])
    BY <1>3, <2>1
  <2>3. History(new)[n + 1] \in S
    <3> HIDE DEF S, n
    <3> QED  BY <1>3, <2>1
  <2> QED  BY <2>2, <2>3
<1> HIDE DEF b, n, S
<1>5. /\ Append(History(old), b) \in Seq(S) /\ Len(Append(History(old), b)) = n + 1
      /\ \A i \in 1..n : Append(History(old), b)[i] = History(old)[i]
      /\ Append(History(old), b)[n + 1] = b
  BY <1>1, <1>2, <1>4
<1>6. \A i \in 1..(n + 1) : History(new)[i] = Append(History(old), b)[i]
  BY <1>1, <1>2, <1>3, <1>4, <1>5 DEF n
<1>7. History(new) = Append(History(old), b)
  BY <1>1, <1>3, <1>5, <1>6
<1> QED  BY <1>7 DEF b, n

\* What a commit makes of the history of a fact it writes: news.
LEMMA CommitHistory ==
  ASSUME Types, Intervals, Changes, Bounded, NEW r \in Requests, Commit(r),
         NEW k \in Keys, req[r].own[k] # None
  PROVE  LET w == req[r].own[k] IN
         /\ w.value \in Values /\ w.at \in 0..MaxInstant
         /\ Histories'[k] = Append(Histories[k],
              [value |-> w.value, by |-> Source(r), from |-> w.at])
         /\ Histories[k] # <<>> =>
              /\ Histories[k][Len(Histories[k])].value # w.value
              /\ Histories[k][Len(Histories[k])].from < w.at
<1> DEFINE w == req[r].own[k]
           n == Len(facts[k])
<1>1. TypeOK /\ RequestsFlow /\ Pending /\ req[r] # Idle /\ Differs(r)
  BY CommitMoves DEF Types, Intervals, Changes
<1>2. /\ w \in Written /\ w.value \in Values /\ w.at \in Nat /\ n \in Nat
      /\ Source(r) \in {"human", "onboarding"}
      /\ facts[k] \in Seq(Row) /\ \A j \in 1..n : facts[k][j] \in Row
  BY <1>1, Instants DEF Source, Written
<1>3. /\ w.at <= clock /\ (n # 0 => OpenRow(k) = n /\ facts[k][n].from < w.at)
  BY <1>1, CommitInstants
<1>4. w.at \in 0..MaxInstant
  BY <1>2, <1>3, MemoryAssumption DEF Bounded, Types, TypeOK
<1>5. /\ Len(facts'[k]) = n + 1
      /\ \A j \in 1..n : facts'[k][j] =
           IF j = OpenRow(k) THEN Closed(facts[k][j], w.at) ELSE facts[k][j]
      /\ facts'[k][n + 1] = Added(w, Source(r))
  BY <1>1, CommitRows
<1>6. facts'[k] \in Seq(Row)
  BY <1>1, CommitMoves
<1>7. w.value # Believed(k)
  BY <1>1 DEF Differs
<1> HIDE DEF w, n
<1>8. \A j \in 1..n : Held(facts'[k][j]) = Held(facts[k][j])
  <2>1. \A j \in 1..n : Held(Closed(facts[k][j], w.at)) = Held(facts[k][j])
    BY <1>2, ClosedRow DEF Held
  <2> QED  BY <1>5, <2>1
<1>9. Held(facts'[k][n + 1]) = [value |-> w.value, by |-> Source(r), from |-> w.at]
  BY <1>2, <1>5, AddedRow DEF Held
<1>10. History(facts'[k]) =
         Append(History(facts[k]), [value |-> w.value, by |-> Source(r), from |-> w.at])
  <2>1. PICK old \in Seq(Row), new \in Seq(Row) : old = facts[k] /\ new = facts'[k]
    BY <1>2, <1>6
  <2>2. /\ Len(new) = Len(old) + 1 /\ \A i \in 1..Len(old) : Held(new[i]) = Held(old[i])
        /\ Held(new[Len(old) + 1]) = [value |-> w.value, by |-> Source(r), from |-> w.at]
    BY <1>5, <1>8, <1>9, <2>1 DEF n
  <2>3. History(new) = Append(History(old), Held(new[Len(old) + 1]))
    BY <2>2, HistoryGrows
  <2> QED  BY <2>1, <2>2, <2>3
<1>11. Histories[k] = History(facts[k]) /\ Histories'[k] = History(facts'[k])
  BY DEF Histories
<1>12. Histories[k] # <<>> =>
         /\ Histories[k][Len(Histories[k])].value # w.value
         /\ Histories[k][Len(Histories[k])].from < w.at
  <2> SUFFICES ASSUME Histories[k] # <<>>
               PROVE  /\ Histories[k][Len(Histories[k])].value # w.value
                      /\ Histories[k][Len(Histories[k])].from < w.at
    OBVIOUS
  <2>1. /\ Len(Histories[k]) = n
        /\ Histories[k] \in Seq([value : Values, by : {"human", "onboarding"}, from : Nat])
        /\ \A i \in 1..n : Histories[k][i] = Held(facts[k][i])
    BY <1>2, <1>11, HistoryIs DEF n
  <2>2. n # 0
    BY <1>2, <2>1
  <2>3. Histories[k][n] = Held(facts[k][n]) /\ OpenRow(k) = n /\ facts[k][n].from < w.at
    BY <1>2, <1>3, <2>1, <2>2
  <2>4. Believed(k) = facts[k][n].value
    BY <2>2, <2>3 DEF Believed
  <2> QED  BY <1>7, <2>1, <2>3, <2>4 DEF Held
<1> QED  BY <1>2, <1>4, <1>10, <1>11, <1>12 DEF w

\* Beliefs' Revise, said of the histories.
Learnt(K, by) ==
  /\ \A k \in Keys \ K : Histories'[k] = Histories[k]
  /\ \A k \in K : \E v \in Values, t \in 0..MaxInstant :
       /\ Histories'[k] = Append(Histories[k], [value |-> v, by |-> by, from |-> t])
       /\ Histories[k] # <<>> => /\ Histories[k][Len(Histories[k])].value # v
                                 /\ Histories[k][Len(Histories[k])].from < t
  /\ \A k \in Keys : Len(Histories'[k]) = Len(Histories[k]) + (IF k \in K THEN 1 ELSE 0)

LEMMA LearntIsRevised ==
  ASSUME NEW K \in SUBSET Keys, NEW by, Learnt(K, by)
  PROVE  Organisation!Revise(K, by)
<1>1. \A k \in K : Organisation!Revised(k, by)
  BY DEF Learnt, Organisation!Revised, Organisation!IsNews, Histories
<1>2. Histories' = [k \in Keys |-> IF k \in K THEN Histories'[k] ELSE Histories[k]]
  <2>1. \A k \in Keys : Histories'[k] = IF k \in K THEN Histories'[k] ELSE Histories[k]
    BY DEF Learnt
  <2>2. Histories' = [k \in Keys |-> Histories'[k]]
    BY DEF Histories
  <2> QED  BY <2>1, <2>2
<1> QED  BY <1>1, <1>2 DEF Organisation!Revise, Histories

LEMMA CommitRevises ==
  ASSUME Types, Intervals, Changes, Bounded, NEW r \in Requests, Commit(r)
  PROVE  Organisation!Revise(Writes(r), Source(r))
<1>1. PICK K \in SUBSET Keys, by \in {"human", "onboarding"} : K = Writes(r) /\ by = Source(r)
  BY DEF Writes, Source
<1>2. TypeOK /\ RequestsFlow /\ Pending
  BY DEF Types, Intervals
<1>3. /\ \A k \in Keys : Histories[k] = History(facts[k]) /\ Histories'[k] = History(facts'[k])
      /\ \A k \in Keys : k \in K <=> req[r].own[k] # None
  BY <1>1 DEF Histories, Writes
<1>4. \A k \in Keys \ K : Histories'[k] = Histories[k]
  <2>1. \A k \in Keys \ K : facts'[k] = facts[k]
    BY <1>2, <1>3, CommitMoves
  <2> QED  BY <1>3, <2>1
<1>5. \A k \in K : \E v \in Values, t \in 0..MaxInstant :
        /\ Histories'[k] = Append(Histories[k], [value |-> v, by |-> by, from |-> t])
        /\ Histories[k] # <<>> => /\ Histories[k][Len(Histories[k])].value # v
                                  /\ Histories[k][Len(Histories[k])].from < t
  <2> TAKE k \in K
  <2>1. k \in Keys /\ req[r].own[k] # None
    BY <1>3
  <2>2. PICK w : w = req[r].own[k]
    OBVIOUS
  <2>3. /\ w.value \in Values /\ w.at \in 0..MaxInstant
        /\ Histories'[k] = Append(Histories[k], [value |-> w.value, by |-> by, from |-> w.at])
        /\ Histories[k] # <<>> => /\ Histories[k][Len(Histories[k])].value # w.value
                                  /\ Histories[k][Len(Histories[k])].from < w.at
    BY <1>1, <2>1, <2>2, CommitHistory, Zenon
  <2> QED  BY <2>3
<1>6. \A k \in Keys : Len(Histories'[k]) = Len(Histories[k]) + (IF k \in K THEN 1 ELSE 0)
  <2> TAKE k \in Keys
  <2>1. facts[k] \in Seq(Row) /\ facts'[k] \in Seq(Row)
    BY <1>2, CommitMoves DEF TypeOK
  <2>2. PICK old \in Seq(Row), new \in Seq(Row) : old = facts[k] /\ new = facts'[k]
    BY <2>1
  <2>3. Len(History(old)) = Len(old) /\ Len(History(new)) = Len(new)
    BY HistoryIs
  <2>4. Len(new) = Len(old) + (IF k \in K THEN 1 ELSE 0)
    <3>1. /\ req[r].own[k] = None => facts'[k] = facts[k]
          /\ req[r].own[k] # None => Len(facts'[k]) = Len(facts[k]) + 1
      BY <1>2, CommitRows, Zenon
    <3>2. k \in K <=> req[r].own[k] # None
      BY <1>3
    <3>3. Len(old) \in Nat
      OBVIOUS
    <3>4. IF k \in K THEN Len(new) = Len(old) + 1 ELSE new = old
      BY <2>2, <3>1, <3>2, Zenon
    <3> QED  BY <3>3, <3>4
  <2> QED  BY <1>3, <2>2, <2>3, <2>4
<1>7. Organisation!Revise(K, by)
  <2>1. Learnt(K, by)
    BY <1>4, <1>5, <1>6, Zenon DEF Learnt
  <2> QED  BY <2>1, LearntIsRevised
<1> QED  BY <1>1, <1>7, Zenon

\* Nothing of Beliefs moves with nothing stored.
LEMMA NothingBelieved ==
  ASSUME facts' = facts, interview' = interview, triggers' = triggers
  PROVE  UNCHANGED Organisation!beliefs
BY DEF Organisation!beliefs

\* A correction writes one fact or none; an answer or a confirmation is of an
\* interview, and finishes it once.
LEMMA CommitBeliefs ==
  ASSUME Types, Intervals, Interviews, Changes, Bounded, NEW r \in Requests, Commit(r)
  PROVE  Organisation!BeliefsNext \/ UNCHANGED Organisation!beliefs
<1>1. /\ req[r] \in Open /\ Flow(req[r]) /\ req[r].pc = "commit" /\ req[r] # Idle
      /\ interview' = (IF req[r].done = "no" THEN interview ELSE "completed")
      /\ triggers' = (IF req[r].done = "first" THEN triggers + 1 ELSE triggers)
      /\ \A k \in Keys : req[r].own[k] = None => facts'[k] = facts[k]
      /\ facts' \in [Keys -> Seq(Row)] /\ facts \in [Keys -> Seq(Row)]
      /\ interview \in {None, "in_progress", "completed"}
  BY CommitMoves DEF Types, TypeOK
<1>2. Interview(r) /\ Agree(req[r])
  BY <1>1 DEF Interviews, Changes, AllAgree
<1>3. PICK K \in SUBSET Keys, by \in {"human", "onboarding"} : K = Writes(r) /\ by = Source(r)
  BY DEF Writes, Source
<1>4. Organisation!Revise(K, by)
  BY <1>3, CommitRevises, Zenon
<1>5. CASE req[r].for = "correct"
  <2>1. req[r].done = "no" /\ by = "human"
    BY <1>1, <1>2, <1>3, <1>5 DEF Flow, Agree, Source
  <2>2. \A k \in K : k = req[r].key
    BY <1>2, <1>3, <1>5 DEF Agree, Writes
  <2>3. interview' = interview /\ triggers' = triggers
    BY <1>1, <2>1
  <2>4. CASE K = {}
    <3>1. \A k \in Keys : facts'[k] = facts[k]
      BY <1>1, <1>3, <2>4 DEF Writes
    <3>2. facts' = facts
      BY <1>1, <3>1
    <3> QED  BY <2>3, <3>2, NothingBelieved
  <2>5. ASSUME NEW k \in K PROVE Organisation!BeliefsNext
    <3>1. K = {k}
      BY <2>2
    <3>2. Organisation!CorrectByHand(k)
      BY <1>4, <2>1, <2>3, <3>1 DEF Organisation!CorrectByHand
    <3> QED  BY <3>2 DEF Organisation!BeliefsNext
  <2> QED  BY <2>4, <2>5
<1>6. CASE req[r].for # "correct"
  <2>1. by = "onboarding"
    BY <1>3, <1>6 DEF Source
  <2>2. req[r].turn # None \/ req[r].asks
    BY <1>1, <1>2, <1>6 DEF Flow, Agree, Open
  <2>3. /\ interview # None
        /\ req[r].done = "first" => interview # "completed"
        /\ req[r].done = "again" => interview = "completed"
    BY <1>2, <2>2 DEF Interview
  <2>4. req[r].done \in {"no", "first", "again"}
    BY <1>1 DEF Open
  <2>5. Organisation!Finish \/ UNCHANGED <<interview, triggers>>
    BY <1>1, <2>3, <2>4 DEF Organisation!Finish
  <2>6. Organisation!Settle(K)
    BY <1>4, <2>1, <2>3, <2>5 DEF Organisation!Settle
  <2> QED  BY <2>6 DEF Organisation!BeliefsNext
<1> QED  BY <1>5, <1>6

Believing == Types /\ Intervals /\ Interviews /\ Changes /\ Bounded

LEMMA StepBeliefs == Believing /\ [Next]_vars => [Organisation!BeliefsNext]_(Organisation!beliefs)
<1> SUFFICES ASSUME Believing, [Next]_vars
             PROVE  Organisation!BeliefsNext \/ UNCHANGED Organisation!beliefs
  OBVIOUS
<1>1. Types /\ Intervals /\ Interviews /\ Changes /\ Bounded /\ TypeOK /\ RequestsFlow
  BY DEF Believing, Types
<1>2. CASE Start
  BY <1>2 DEF Start, Organisation!Begin, Organisation!BeliefsNext
<1>3. CASE UNCHANGED stored
  BY <1>3, NothingBelieved DEF stored
<1>4. ASSUME NEW r \in Requests, Commit(r)
      PROVE  Organisation!BeliefsNext \/ UNCHANGED Organisation!beliefs
  BY <1>1, <1>4, CommitBeliefs
<1>5. ASSUME NEW r \in Requests, Request(r) \/ Moves(r) \/ Abort(r) PROVE UNCHANGED stored
  <2>1. CASE Request(r)
    BY <2>1 DEF Request, Correct, AnswerQuestion, ConfirmProfile
  <2>2. CASE Moves(r)
    BY <2>2 DEF Moves, AppendTurn, ReadClock, ReadCurrent, Write, Refresh, FinishIfDone,
       Project, Upsert, Complete
  <2>3. CASE Abort(r)
    BY <2>3 DEF Abort
  <2> QED  BY <1>5, <2>1, <2>2, <2>3
<1>6. CASE UNCHANGED vars
  BY <1>6, <1>3 DEF vars, stored
<1> QED  BY <1>2, <1>3, <1>4, <1>5, <1>6, NextCases

LEMMA InitBeliefs == Init => Organisation!BeliefsInit /\ Bounded
<1> SUFFICES ASSUME Init PROVE Organisation!BeliefsInit /\ Bounded
  OBVIOUS
<1>1. \A k \in Keys : History(facts[k]) = <<>>
  BY DEF Init, History
<1>2. [k \in Keys |-> History(facts[k])] = [k \in Keys |-> <<>>]
  BY <1>1
<1> QED  BY <1>2, MemoryAssumption DEF Init, Organisation!BeliefsInit, Bounded

\* A correction, an answer or a confirmation, in its many statements and among those
\* of others, is one step of what the organisation believes, at its commit: each
\* fact it writes becomes another, from later on, and the interview is completed and
\* its sweep asked for once (CorrectFact, AnswerQuestion, ConfirmProfile).
THEOREM Refinement == Spec => ImplementsBeliefs
<1>1. Init => Believing /\ Organisation!BeliefsInit
  BY TypesInit, IntervalsInit, InterviewsInit, ChangesInit, InitBeliefs DEF Believing
<1>2. Believing /\ [Next]_vars => Believing'
  BY TypesStep, IntervalsStep, InterviewsStep, ChangesStep, BoundedStep DEF Believing
<1>3. Believing /\ [Next]_vars => [Organisation!BeliefsNext]_(Organisation!beliefs)
  BY StepBeliefs
<1> QED
  BY <1>1, <1>2, <1>3, PTL DEF Spec, ImplementsBeliefs, Organisation!BeliefsSpec

=============================================================================

------------------------------- MODULE Memory -------------------------------
(***************************************************************************)
(* What an organisation is believed to be.  Facts are rows with an         *)
(* interval of validity; correcting one closes the open row of its key and *)
(* opens the next.  The onboarding interview is a transcript whose answers *)
(* become facts as they are given; the last one writes the compliance      *)
(* profile that the Watcher reads, completes the interview and asks for a  *)
(* sweep.  From then on every correction refreshes the profile.            *)
(*                                                                         *)
(* A request is one transaction at READ COMMITTED: what it has written is  *)
(* in req until it commits, and what it has read may be out of date.       *)
(***************************************************************************)
EXTENDS Naturals, Sequences, FiniteSets

CONSTANTS
  Keys,        \* the facts, numbered in the order of the script
  Asked,       \* those the interview asks about
  Values,
  Moot,        \* Moot[k]: the answers, as <<key, value>>, that make k pointless
  Requests,    \* transactions that can be open at once
  MaxInstant,  \* bound: readings of the clock
  None

ASSUME MemoryAssumption ==
  /\ Keys \subseteq Nat
  /\ IsFiniteSet(Keys)
  /\ Asked \subseteq Keys
  /\ Moot \in [Asked -> SUBSET (Asked \X Values)]
  /\ MaxInstant \in Nat
  /\ None \notin Values \cup Nat \cup {"skip", "in_progress", "completed"}
  /\ "skip" \notin Values

VARIABLES
  clock,      \* clock_timestamp(), which moves with every reading
  facts,      \* facts[k]: the rows of k, in the order they were written
  interview,  \* the status of the onboarding session
  answers,    \* answers[k]: the latest answer of the transcript
  profile,    \* the row of compliance_profiles
  triggers,   \* how many sweeps have been asked for
  req,        \* req[r]: an open CorrectFact, AnswerQuestion or ConfirmProfile
  missed      \* keys that a commit has changed past somebody's projection

vars == <<clock, facts, interview, answers, profile, triggers, req, missed>>
stored == <<facts, interview, answers, profile, triggers, missed>>

Answer == Values \cup {None, "skip"}
Row == [value : Values, by : {"human", "onboarding"}, from : Nat, to : Nat \cup {None}]
Beliefs == [Keys -> Values \cup {None}]

\* A row this transaction has written, and the one it has closed (0: none).
Written == [closes : Nat, value : Values, at : Nat]

ASSUME NoBeliefAssumption == None \notin Written \cup Beliefs

Open ==
  [pc    : {"append", "clock", "current", "write", "project", "upsert",
            "finish", "profile", "complete", "commit"},
   for   : {"correct", "answer", "confirm"},
   key   : Keys \cup {None},                       \* what it answers or corrects
   turn  : Answer,                                 \* the answer it appended
   todo  : Seq(Keys \X Values),                    \* the facts still to assert
   asks  : BOOLEAN,                                \* whether it confirms the interview
   at    : Nat,
   cur   : Nat,                                    \* the open row it read, or 0
   own   : [Keys -> Written \cup {None}],
   read  : Beliefs \cup {None},                    \* the projection it will write
   wrote : Beliefs \cup {None},                    \* and has
   done  : {"no", "first", "again"}]               \* it holds the session's row

Idle == [pc |-> "idle"]

TypeOK ==
  /\ clock \in Nat
  /\ facts \in [Keys -> Seq(Row)]
  /\ interview \in {None, "in_progress", "completed"}
  /\ answers \in [Asked -> Answer]
  /\ profile \in Beliefs \cup {None}
  /\ triggers \in Nat
  /\ req \in [Requests -> Open \cup {Idle}]
  /\ missed \subseteq Keys

Init ==
  /\ clock = 0
  /\ facts = [k \in Keys |-> <<>>]
  /\ interview = None
  /\ answers = [k \in Asked |-> None]
  /\ profile = None
  /\ triggers = 0
  /\ req = [r \in Requests |-> Idle]
  /\ missed = {}

-----------------------------------------------------------------------------
(* What is read *)

\* The index of the open row of k, or 0.  There is one at most: a partial index
\* is unique.
OpenRow(k) == IF facts[k] # <<>> /\ facts[k][Len(facts[k])].to = None THEN Len(facts[k]) ELSE 0

Believed(k) == IF OpenRow(k) = 0 THEN None ELSE facts[k][OpenRow(k)].value

\* openFactValues: what is committed, and what this transaction has written.
Visible(r) ==
  [k \in Keys |-> IF req[r].own[k] # None THEN req[r].own[k].value ELSE Believed(k)]

Transcript(r) ==
  [k \in Asked |-> IF req[r].turn # None /\ req[r].key = k THEN req[r].turn ELSE answers[k]]

\* Applicable: only a definite answer removes a question.
Applicable(k, given) == \A m \in Moot[k] : given[m[1]] # m[2]

\* NextQuestion finds nothing.
Through(given) == \A k \in Asked : Applicable(k, given) => given[k] # None

FactsFrom(given) == {k \in Asked : given[k] \in Values}

\* OrderedFacts: in the order of the script.
OrderedFacts(given) ==
  LET F == FactsFrom(given)
      Nth(n) == CHOOSE k \in F : Cardinality({j \in F : j < k}) = n - 1
  IN [n \in 1..Cardinality(F) |-> <<Nth(n), given[Nth(n)]>>]

-----------------------------------------------------------------------------
(* A request *)

Others(r) == {q \in Requests \ {r} : req[q] # Idle}

Blank ==
  [pc |-> "clock", for |-> "correct", key |-> None, turn |-> None, todo |-> <<>>,
   asks |-> FALSE, at |-> 0, cur |-> 0, own |-> [k \in Keys |-> None],
   read |-> None, wrote |-> None, done |-> "no"]

\* Where a request goes once a fact of its list has been dealt with.
Continue(x) ==
  [x EXCEPT !.at = 0, !.cur = 0,
            !.pc = IF x.todo # <<>> THEN "clock"
                   ELSE IF x.asks THEN "profile"
                   ELSE IF x.for = "answer" THEN "finish"
                   ELSE "commit"]

Asserted(x) == Continue([x EXCEPT !.todo = Tail(@)])

Start ==
  /\ interview = None
  /\ interview' = "in_progress"
  /\ UNCHANGED <<clock, facts, answers, profile, triggers, req, missed>>

\* MemoryService.CorrectFact.
Correct(r, k, v) ==
  /\ req[r] = Idle
  /\ req' = [req EXCEPT ![r] = [Blank EXCEPT !.key = k, !.todo = <<<<k, v>>>>]]
  /\ UNCHANGED <<clock, stored>>

\* AnswerQuestion, which reads the session and refuses a completed one.  Any
\* question can be answered again.
AnswerQuestion(r, k, a) ==
  /\ req[r] = Idle
  /\ interview = "in_progress"
  /\ req' = [req EXCEPT ![r] =
       [Blank EXCEPT !.pc = "append", !.for = "answer", !.key = k, !.turn = a]]
  /\ UNCHANGED <<clock, stored>>

\* ConfirmProfile, of an interview in which something has been answered, also of
\* a completed one.
ConfirmProfile(r) ==
  /\ req[r] = Idle
  /\ interview # None
  /\ FactsFrom(answers) # {}
  /\ req' = [req EXCEPT ![r] =
       [Blank EXCEPT !.for = "confirm", !.todo = OrderedFacts(answers), !.asks = TRUE]]
  /\ UNCHANGED <<clock, stored>>

\* Mutant: turns are ordered by a sequence of their own, and never collide.
AppendsAnyway(r) ==
  /\ req[r].pc = "append"
  /\ LET todo == IF req[r].turn = "skip" THEN <<>> ELSE <<<<req[r].key, req[r].turn>>>> IN
     req' = [req EXCEPT ![r] = Continue([@ EXCEPT !.todo = todo])]
  /\ UNCHANGED <<clock, stored>>

\* Mutant: a skip is recorded as an answer.
AppendsSkips(r) ==
  /\ req[r].pc = "append"
  /\ req' = [req EXCEPT ![r] = Continue([@ EXCEPT !.todo = <<<<req[r].key, req[r].turn>>>>])]
  /\ UNCHANGED <<clock, stored>>

Appended(q) == req[q].turn # None /\ req[q].pc # "append"

\* AppendOnboardingTurn.  Whoever else has appended holds the next position:
\* this one waits, and if that one commits, collides and rolls back (Abort).
AppendTurn(r) ==
  /\ req[r].pc = "append"
  /\ \A q \in Others(r) : ~Appended(q)
  /\ LET todo == IF req[r].turn = "skip" THEN <<>> ELSE <<<<req[r].key, req[r].turn>>>> IN
     req' = [req EXCEPT ![r] = Continue([@ EXCEPT !.todo = todo])]
  /\ UNCHANGED <<clock, stored>>

-----------------------------------------------------------------------------
(* CorrectFact, of the store: for the first fact of the list *)

Key(r) == Head(req[r].todo)[1]
Value(r) == Head(req[r].todo)[2]

ReadClock(r) ==
  /\ req[r].pc = "clock"
  /\ clock < MaxInstant
  /\ clock' = clock + 1
  /\ req' = [req EXCEPT ![r].at = clock', ![r].pc = "current"]
  /\ UNCHANGED stored

\* The current value; if it is this one already, nothing is written.
ReadCurrent(r) ==
  /\ req[r].pc = "current"
  /\ req' = [req EXCEPT ![r] =
       IF Visible(r)[Key(r)] = Value(r) THEN Asserted(@)
       ELSE [@ EXCEPT !.cur = OpenRow(Key(r)), !.pc = "write"]]
  /\ UNCHANGED <<clock, stored>>

\* Mutant: without the trigger and the unique index.
WriteUnguarded(r) ==
  /\ req[r].pc = "write"
  /\ \A q \in Others(r) : req[q].own[Key(r)] = None
  /\ req' = [req EXCEPT ![r].own[Key(r)] =
                 [closes |-> req[r].cur, value |-> Value(r), at |-> req[r].at],
               ![r].pc = "project"]
  /\ UNCHANGED <<clock, stored>>

\* Close the row that was read and insert the next.  The row, or its place in the
\* unique index, is locked by whoever else has written this key.  A row that has
\* been closed meanwhile cannot be changed (the trigger), a second open row
\* cannot be inserted (the index), and no interval ends before it begins (the
\* check): the request then rolls back.
Write(r) ==
  /\ req[r].pc = "write"
  /\ \A q \in Others(r) : req[q].own[Key(r)] = None
  /\ OpenRow(Key(r)) = req[r].cur
  /\ req[r].cur # 0 => req[r].at >= facts[Key(r)][req[r].cur].from
  /\ req' = [req EXCEPT ![r].own[Key(r)] =
                 [closes |-> req[r].cur, value |-> Value(r), at |-> req[r].at],
               ![r].pc = "project"]
  /\ UNCHANGED <<clock, stored>>

\* refreshProfileProjection: nothing to refresh before there is a profile.
Refresh(r) ==
  /\ req[r].pc = "project"
  /\ req' = [req EXCEPT ![r] =
       IF profile = None THEN Asserted(@)
       ELSE [@ EXCEPT !.read = Visible(r), !.pc = "upsert"]]
  /\ UNCHANGED <<clock, stored>>

-----------------------------------------------------------------------------
(* Finishing the interview *)

\* finishIfDone: the transcript as it is now.
FinishIfDone(r) ==
  /\ req[r].pc = "finish"
  /\ LET given == Transcript(r) IN
     req' = [req EXCEPT ![r] =
       IF Through(given) /\ FactsFrom(given) # {}
       THEN Continue([@ EXCEPT !.todo = OrderedFacts(given), !.asks = TRUE])
       ELSE [@ EXCEPT !.pc = "commit"]]
  /\ UNCHANGED <<clock, stored>>

\* Mutant: the profile is made of the interview's answers.
ProjectAnswers(r) ==
  /\ req[r].pc = "profile"
  /\ req' = [req EXCEPT ![r].pc = "upsert", ![r].read =
       [k \in Keys |-> IF k \in FactsFrom(Transcript(r)) THEN Transcript(r)[k] ELSE None]]
  /\ UNCHANGED <<clock, stored>>

\* writeProfileProjection: from every open fact.
Project(r) ==
  /\ req[r].pc = "profile"
  /\ req' = [req EXCEPT ![r].read = Visible(r), ![r].pc = "upsert"]
  /\ UNCHANGED <<clock, stored>>

\* The upsert on the session waits for whoever else has written the profile.
Upsert(r) ==
  /\ req[r].pc = "upsert"
  /\ \A q \in Others(r) : req[q].wrote = None
  /\ LET x == [req[r] EXCEPT !.wrote = req[r].read] IN
     req' = [req EXCEPT ![r] =
       IF x.todo = <<>> THEN [x EXCEPT !.pc = "complete"] ELSE Asserted(x)]
  /\ UNCHANGED <<clock, stored>>

\* Mutant: a sweep is asked for at every confirmation.
CompleteAgain(r) ==
  /\ req[r].pc = "complete"
  /\ req' = [req EXCEPT ![r].done = "first", ![r].pc = "commit"]
  /\ UNCHANGED <<clock, stored>>

\* The session's row for update, and whether this is what completes it.
Complete(r) ==
  /\ req[r].pc = "complete"
  /\ \A q \in Others(r) : req[q].done = "no"
  /\ req' = [req EXCEPT ![r].pc = "commit",
       ![r].done = IF interview = "completed" THEN "again" ELSE "first"]
  /\ UNCHANGED <<clock, stored>>

-----------------------------------------------------------------------------
(* The end of a request *)

Writes(r) == {k \in Keys : req[r].own[k] # None}

Source(r) == IF req[r].for = "correct" THEN "human" ELSE "onboarding"

\* The rows of a key once a write has been committed.
Corrected(rows, w, by) ==
  Append([i \in 1..Len(rows) |-> IF i = w.closes THEN [rows[i] EXCEPT !.to = w.at] ELSE rows[i]],
         [value |-> w.value, by |-> by, from |-> w.at, to |-> None])

\* Somebody has taken a projection without what r commits and will write it, or r
\* found no profile to refresh and there is one by now.
Missed(r) ==
  IF \/ \E q \in Others(r) : req[q].read # None
     \/ req[r].read = None /\ profile # None
  THEN Writes(r) ELSE {}

\* Mutant: the row that was open is rewritten in place.
CommitInPlace(r) ==
  /\ req[r].pc = "commit"
  /\ facts' = [k \in Keys |->
       IF req[r].own[k] = None THEN facts[k]
       ELSE IF req[r].own[k].closes = 0 THEN Corrected(facts[k], req[r].own[k], Source(r))
       ELSE [facts[k] EXCEPT ![req[r].own[k].closes].value = req[r].own[k].value]]
  /\ answers' = IF req[r].turn = None THEN answers
                ELSE [answers EXCEPT ![req[r].key] = req[r].turn]
  /\ profile' = IF req[r].wrote = None THEN profile ELSE req[r].wrote
  /\ interview' = IF req[r].done = "no" THEN interview ELSE "completed"
  /\ triggers' = IF req[r].done = "first" THEN triggers + 1 ELSE triggers
  /\ missed' = missed \cup Missed(r)
  /\ req' = [req EXCEPT ![r] = Idle]
  /\ UNCHANGED clock

Commit(r) ==
  /\ req[r].pc = "commit"
  /\ facts' = [k \in Keys |->
       IF req[r].own[k] = None THEN facts[k]
       ELSE Corrected(facts[k], req[r].own[k], Source(r))]
  /\ answers' = IF req[r].turn = None THEN answers
                ELSE [answers EXCEPT ![req[r].key] = req[r].turn]
  /\ profile' = IF req[r].wrote = None THEN profile ELSE req[r].wrote
  /\ interview' = IF req[r].done = "no" THEN interview ELSE "completed"
  /\ triggers' = IF req[r].done = "first" THEN triggers + 1 ELSE triggers
  /\ missed' = missed \cup Missed(r)
  /\ req' = [req EXCEPT ![r] = Idle]
  /\ UNCHANGED clock

\* A statement is refused, a deadlock is broken, the connection or the process
\* goes: the transaction leaves nothing.
Abort(r) ==
  /\ req[r] # Idle
  /\ req' = [req EXCEPT ![r] = Idle]
  /\ UNCHANGED <<clock, stored>>

-----------------------------------------------------------------------------

Request(r) ==
  \/ \E k \in Keys, v \in Values : Correct(r, k, v)
  \/ \E k \in Asked, a \in Values \cup {"skip"} : AnswerQuestion(r, k, a)
  \/ ConfirmProfile(r)

Step(r) ==
  \/ AppendTurn(r)
  \/ ReadClock(r)
  \/ ReadCurrent(r)
  \/ Write(r)
  \/ Refresh(r)
  \/ FinishIfDone(r)
  \/ Project(r)
  \/ Upsert(r)
  \/ Complete(r)
  \/ Commit(r)
  \/ Abort(r)

Next ==
  \/ Start
  \/ \E r \in Requests : Request(r) \/ Step(r)

Spec == Init /\ [][Next]_vars

-----------------------------------------------------------------------------
(* What holds *)

\* The intervals of a fact meet, none ends before it begins, and only the last is
\* open, whatever corrections overlap and in whatever order they read the clock:
\* "a gap, however small, is an instant where an as-of query finds no value".
IntervalsMeet ==
  \A k \in Keys : \A i \in 1..Len(facts[k]) :
    IF i = Len(facts[k]) THEN facts[k][i].to = None
    ELSE /\ facts[k][i].to = facts[k][i + 1].from
         /\ facts[k][i].from < facts[k][i].to

\* An as-of query: the rows of k whose interval contains the instant t.
AsOf(k, t) ==
  {i \in 1..Len(facts[k]) :
     facts[k][i].from <= t /\ (facts[k][i].to = None \/ t < facts[k][i].to)}

\* "As-of that instant this table reconstructs exactly what it saw": once something
\* is believed of a fact, a query for any instant since finds one row, never none
\* and never two (org_profile_facts, whose rows CorrectFact closes and opens).
OneBeliefAtATime ==
  \A k \in Keys : \A t \in 0..clock :
    facts[k] # <<>> /\ facts[k][1].from <= t => \E i \in 1..Len(facts[k]) : AsOf(k, t) = {i}

\* "Correcting a fact to what it already says writes nothing": no row repeats the
\* one before it, though two corrections to the same value read the open row at
\* once (CorrectFact's comparison, the trigger and the unique index together).
EveryRowIsAChange ==
  \A k \in Keys : \A i \in 1..(Len(facts[k]) - 1) : facts[k][i].value # facts[k][i + 1].value

\* The profile that the Watcher reads is the projection of what is believed, but
\* for keys whose change a projection taken at the same time has missed.
ProfileFollowsFacts ==
  profile # None => \A k \in Keys \ missed : profile[k] = Believed(k)

\* An interview in which every question that applies has its answer, and one of
\* them is not a skip, is finished, though two tabs answer the last two at once:
\* each alone would leave the other to finish it.
AnsweredIsFinished ==
  Through(answers) /\ FactsFrom(answers) # {} => interview # "in_progress"

\* One interview asks for one sweep, and not before there is a profile to sweep,
\* however often it is finished, confirmed and confirmed again.
OneSweepAWholeProfile ==
  /\ triggers = IF interview = "completed" THEN 1 ELSE 0
  /\ profile # None <=> interview = "completed"

\* What was believed and has been superseded stays on record as it was.
HistoryStands ==
  [][\A k \in Keys : \A i \in 1..Len(facts[k]) :
       /\ Len(facts'[k]) >= Len(facts[k])
       /\ \E t \in {facts[k][i].to, facts'[k][i].to} :
            /\ facts'[k][i] = [facts[k][i] EXCEPT !.to = t]
            /\ facts[k][i].to # None => t = facts[k][i].to]_vars

-----------------------------------------------------------------------------
(* What it implements *)

History(rows) ==
  [i \in 1..Len(rows) |-> [value |-> rows[i].value, by |-> rows[i].by, from |-> rows[i].from]]

Organisation == INSTANCE Beliefs WITH
  history <- [k \in Keys |-> History(facts[k])],
  sweeps <- triggers,
  Instants <- 0..MaxInstant

\* A request that corrects, answers or confirms looks like one step, at its commit,
\* whatever others do meanwhile: no row repeats the one before it or begins before
\* it did, a correction by hand is of one fact, and the interview is completed and
\* its sweep asked for in one step, once (CorrectFact, AnswerQuestion and
\* ConfirmProfile as a whole).
ImplementsBeliefs == Organisation!BeliefsSpec

-----------------------------------------------------------------------------
(* What the documents claim and the code does not keep *)

\* store/postgres/onboarding.go: "the only safe arrangement while both exist is
\* that changing one changes the other in the same transaction".
ProfileIsTheProjection ==
  profile # None /\ (\A r \in Requests : req[r] = Idle) =>
    \A k \in Keys : profile[k] = Believed(k)

=============================================================================

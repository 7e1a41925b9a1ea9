---------------------------- MODULE EvalRunProofs ----------------------------
(***************************************************************************)
(* Theorems about the evaluation harness, for any dataset, command line    *)
(* and starting settings, and any answer of the models and the judge.      *)
(*                                                                         *)
(* The properties speak of the table and of the moments between two runs;  *)
(* EvalInv says what holds inside a run: the settings are those of the     *)
(* preset at the head of todo, the cached reranker was built from them,    *)
(* and so was everything the answers so far have used.  ExitInv relates    *)
(* the table to the command line.  The last part is about the fusion: its  *)
(* scores are exact, and its order is strict and total.                    *)
(***************************************************************************)
EXTENDS EvalRun, FiniteSetTheorems, TLAPS

Names   == Presets \cup {"settings", "unknown"}
Running == {"retrieve", "rerank", "decide", "persist"}
KindOf(s) == IF s.rerank THEN "cross" ELSE "noop"
Answered  == [answered : Nat, total : Nat, used : SUBSET {"dense", "sparse", "hybrid", "cross", "noop"}, most : Nat]
Legal(s)  == s.retries \in Nat /\ s.mode \in {"dense", "sparse", "hybrid"} /\ s.rerank \in BOOLEAN

Types ==
    /\ args.compare # None => args.compare \in Seq(Names)
    /\ todo \in Seq(Names)
    /\ stage \in Running \cup {"main", "enter", "leave", "exit"}
    /\ Legal(start) /\ Legal(settings)
    /\ rewrites \in Nat
    /\ run \in Answered
    /\ eval_runs \in Seq([name : Names, answers : Answered])

\* The settings in force and the reranker cached under them.
InForce ==
    /\ reranker # None => reranker = KindOf(settings)
    /\ stage \in {"main", "enter", "exit"} => settings = start
    /\ stage \in Running \cup {"leave"} => todo # <<>> /\ settings = Under(Head(todo))

\* What this run has used, and how far it is.
SoFar ==
    stage \in Running =>
        /\ run.used \subseteq Allowed(settings)
        /\ run.most <= settings.retries /\ rewrites <= settings.retries
        /\ stage = "persist" => run.answered = Questions

EvalInv == Types /\ InForce /\ SoFar /\ ScoredUnderItsPreset

USE EvalAssumption

\* What Append returns.
LEMMA AppendFacts ==
    ASSUME NEW T, NEW s \in Seq(T), NEW x \in T
    PROVE  /\ Append(s, x) \in Seq(T)
           /\ Len(s) \in Nat /\ Len(Append(s, x)) = Len(s) + 1
           /\ \A i \in 1 .. Len(s) : Append(s, x)[i] = s[i]
           /\ Append(s, x)[Len(s) + 1] = x
OBVIOUS

LEMMA PresetsAreLegal == \A p \in Presets : Legal(CONFIG_PRESETS[p])
<1>1. Presets = {"dense", "hybrid", "hybrid_rerank", "naive", "corrective"}
  BY DEF Presets, CONFIG_PRESETS
<1>2. ASSUME NEW p \in Presets
      PROVE  CONFIG_PRESETS[p] \in
                 [mode : {"dense", "sparse", "hybrid"}, rerank : BOOLEAN, retries : Nat]
  <2>1. CASE p = "dense"
    BY <2>1 DEF CONFIG_PRESETS
  <2>2. CASE p = "hybrid"
    BY <2>2 DEF CONFIG_PRESETS
  <2>3. CASE p = "hybrid_rerank"
    BY <2>3 DEF CONFIG_PRESETS
  <2>4. CASE p = "naive"
    BY <2>4 DEF CONFIG_PRESETS
  <2>5. CASE p = "corrective"
    BY <2>5 DEF CONFIG_PRESETS
  <2> QED BY <1>1, <2>1, <2>2, <2>3, <2>4, <2>5
<1> QED BY <1>2 DEF Legal

LEMMA InitEval == Init => EvalInv
<1> SUFFICES ASSUME Init PROVE EvalInv
  OBVIOUS
<1>1. Legal(start) /\ Legal(settings)
  BY DEF Init, Legal
<1>2. args.compare # None => args.compare \in Seq(Names)
  <2> SUFFICES ASSUME args.compare # None PROVE args.compare \in Seq(Names)
    OBVIOUS
  <2>1. args.compare \in {<<a, b>> : a, b \in Presets \cup {"unknown"}}
    BY DEF Init, Arguments
  <2>2. PICK a, b \in Names : args.compare = <<a, b>>
    BY <2>1 DEF Names
  <2> QED BY <2>2
<1>3. run \in Answered
  BY DEF Init, NoRun, Answered
<1> QED
  BY <1>1, <1>2, <1>3 DEF Init, EvalInv, Types, InForce, SoFar, ScoredUnderItsPreset, Running

LEMMA StepMain == ASSUME EvalInv, Main PROVE EvalInv'
<1>1. todo' \in Seq(Names)
  <2>1. <<"settings">> \in Seq(Names)
    BY DEF Names
  <2> QED BY <2>1 DEF EvalInv, Types, Main, Goto
<1> QED
  BY <1>1 DEF EvalInv, Types, InForce, SoFar, ScoredUnderItsPreset, Running, Main, Goto,
              Under, preset, query, Legal

\* A preset is in force from here on; nothing has been used yet.
LEMMA StepEnter == ASSUME EvalInv, Enter PROVE EvalInv'
<1>1. Head(todo) \in Names /\ todo # <<>>
  BY DEF EvalInv, Types, Enter
<1>2. /\ Legal(settings') /\ settings' = Under(Head(todo))
      /\ reranker' # None => reranker' = KindOf(settings')
  BY <1>1, PresetsAreLegal
  DEF EvalInv, Types, InForce, Enter, Under, preset
<1>3. run' \in Answered /\ run'.used = {} /\ run'.most = 0 /\ run'.answered = 0 /\ rewrites' = 0
  BY DEF Enter, NoRun, Answered
<1>4. Types' /\ InForce' /\ ScoredUnderItsPreset'
  BY <1>1, <1>2, <1>3
  DEF EvalInv, Types, InForce, ScoredUnderItsPreset, Running, Enter, Goto, Under, preset, Legal
<1>5. SoFar'
  BY <1>2, <1>3 DEF SoFar, Enter, Goto, Running, Legal
<1> QED BY <1>4, <1>5 DEF EvalInv

\* A retrieval uses the mode in force.
LEMMA StepRetrieve == ASSUME EvalInv, Retrieve PROVE EvalInv'
<1>1. /\ run' \in Answered /\ run'.most = run.most /\ run'.answered = run.answered
      /\ run'.used = run.used \cup {settings.mode}
  BY DEF EvalInv, Types, Retrieve, Answered, Legal
<1>2. Types' /\ InForce' /\ ScoredUnderItsPreset'
  BY <1>1
  DEF EvalInv, Types, InForce, ScoredUnderItsPreset, Running, Retrieve, Goto, Under, preset, Legal
<1>3. SoFar'
  BY <1>1 DEF EvalInv, SoFar, Retrieve, Goto, Running, Allowed, preset
<1> QED BY <1>2, <1>3 DEF EvalInv

\* The reranker comes from the cache or from the settings in force: it is the same.
LEMMA StepRerank == ASSUME EvalInv, Rerank PROVE EvalInv'
<1>1. reranker' = KindOf(settings) /\ settings' = settings
  BY DEF EvalInv, InForce, Rerank, KindOf
<1>2. /\ run' \in Answered /\ run'.most = run.most /\ run'.answered = run.answered
      /\ run'.used = run.used \cup {KindOf(settings)}
  BY <1>1 DEF EvalInv, Types, Rerank, Answered, Legal, KindOf
<1>3. Types' /\ InForce' /\ ScoredUnderItsPreset'
  BY <1>1, <1>2
  DEF EvalInv, Types, InForce, ScoredUnderItsPreset, Running, Rerank, Goto, Under, Legal
<1>4. SoFar'
  BY <1>1, <1>2 DEF EvalInv, SoFar, Rerank, Goto, Running, Allowed, KindOf
<1> QED BY <1>3, <1>4 DEF EvalInv

\* A rewrite is within the retries in force.
LEMMA StepRewrite == ASSUME EvalInv, Rewrite PROVE EvalInv'
<1>1. /\ run' \in Answered /\ run'.used = run.used /\ run'.answered = run.answered
      /\ rewrites' \in Nat /\ rewrites' <= settings.retries /\ run'.most <= settings.retries
  <2> DEFINE most == Largest(run.most, rewrites')
  <2>1. /\ run \in Answered /\ run.most \in Nat /\ run.most <= settings.retries
        /\ rewrites \in Nat /\ settings.retries \in Nat /\ rewrites < settings.retries
    BY DEF EvalInv, Types, SoFar, Running, Rewrite, Answered, Legal
  <2>2. rewrites' = rewrites + 1 /\ run' = [run EXCEPT !.most = most]
    BY DEF Rewrite
  <2>3. rewrites' \in Nat /\ rewrites' <= settings.retries
    BY <2>1, <2>2
  <2>4. most \in Nat /\ most <= settings.retries
    BY <2>1, <2>3 DEF Largest
  <2> HIDE DEF most
  <2> QED BY <2>1, <2>2, <2>3, <2>4 DEF Answered
<1>2. Types' /\ InForce' /\ ScoredUnderItsPreset'
  BY <1>1
  DEF EvalInv, Types, InForce, ScoredUnderItsPreset, Running, Rewrite, Goto, Under, preset, Legal
<1>3. SoFar'
  BY <1>1 DEF EvalInv, SoFar, Rewrite, Goto, Running, preset
<1> QED BY <1>2, <1>3 DEF EvalInv

\* The last answer leads to persist.
LEMMA StepScore == ASSUME EvalInv, Score PROVE EvalInv'
<1>1. /\ run' \in Answered /\ run'.used = run.used /\ run'.most = run.most
      /\ rewrites' = 0
  <2>1. PICK mark \in Marks : run' = [run EXCEPT !.answered = @ + 1, !.total = @ + mark]
    BY DEF Score
  <2>2. mark \in Nat /\ run \in Answered
    BY DEF Marks, EvalInv, Types
  <2>3. run.answered + 1 \in Nat /\ run.total + mark \in Nat
    BY <2>2 DEF Answered
  <2>4. run' \in Answered /\ run'.used = run.used /\ run'.most = run.most
    BY <2>1, <2>2, <2>3 DEF Answered
  <2> QED BY <2>4 DEF Score
<1>2. Types' /\ InForce' /\ ScoredUnderItsPreset'
  BY <1>1
  DEF EvalInv, Types, InForce, ScoredUnderItsPreset, Running, Score, Goto, Under, preset, Legal
<1>3. SoFar'
  BY <1>1 DEF EvalInv, Types, SoFar, Score, Goto, Running, preset, Legal
<1> QED BY <1>2, <1>3 DEF EvalInv

\* What is persisted is the run so far, under the name at the head of todo.
LEMMA StepPersist == ASSUME EvalInv, Persist PROVE EvalInv'
<1> DEFINE row == [name |-> Head(todo), answers |-> run]
<1>1. row \in [name : Names, answers : Answered]
  BY DEF EvalInv, Types, InForce, Running, Persist
<1>2. /\ row.answers.answered = Questions
      /\ row.answers.used \subseteq Allowed(Under(row.name))
      /\ row.answers.most <= Under(row.name).retries
  BY DEF EvalInv, InForce, SoFar, Running, Persist
<1>3. eval_runs' = Append(eval_runs, row) /\ eval_runs' \in Seq([name : Names, answers : Answered])
  BY <1>1 DEF EvalInv, Types, Persist
<1>4. Types' /\ InForce' /\ SoFar'
  BY <1>3 DEF EvalInv, Types, InForce, SoFar, Running, Persist, Goto, Under, preset, query, Legal
<1>5. ScoredUnderItsPreset'
  <2> SUFFICES ASSUME NEW i \in DOMAIN eval_runs'
               PROVE  /\ eval_runs'[i].answers.answered = Questions
                      /\ eval_runs'[i].answers.used \subseteq Allowed(Under(eval_runs'[i].name))
                      /\ eval_runs'[i].answers.most <= Under(eval_runs'[i].name).retries
    BY DEF ScoredUnderItsPreset, Under, Persist
  <2>1. CASE i \in DOMAIN eval_runs
    <3>1. eval_runs'[i] = eval_runs[i]
      BY <1>3, <2>1 DEF EvalInv, Types
    <3> QED BY <2>1, <3>1 DEF EvalInv, ScoredUnderItsPreset
  <2>2. CASE i = Len(eval_runs) + 1
    <3>1. eval_runs'[i] = row
      BY <1>3, <2>2 DEF EvalInv, Types
    <3> QED BY <1>2, <3>1
  <2> QED BY <1>3, <2>1, <2>2 DEF EvalInv, Types
<1> QED BY <1>4, <1>5 DEF EvalInv

\* Raising or leaving, the finally of the preset restores what was there.
LEMMA StepLeave == ASSUME EvalInv, Raise \/ Leave \/ Exit PROVE EvalInv'
<1>1. CASE Raise
  BY <1>1
  DEF EvalInv, Types, InForce, SoFar, ScoredUnderItsPreset, Running, Raise, Under, preset, Legal
<1>2. CASE Leave
  <2>1. settings' = start /\ (reranker' # None => reranker' = KindOf(settings'))
    BY <1>2 DEF EvalInv, InForce, Leave, Under, preset
  <2>2. todo' \in Seq(Names)
    BY <1>2 DEF EvalInv, Types, InForce, Leave
  <2> QED
    BY <1>2, <2>1, <2>2
    DEF EvalInv, Types, InForce, SoFar, ScoredUnderItsPreset, Running, Leave, Under, query, Legal
<1>3. CASE Exit
  BY <1>3
  DEF EvalInv, Types, InForce, SoFar, ScoredUnderItsPreset, Running, Exit, Under, preset, query, Legal
<1> QED BY <1>1, <1>2, <1>3

LEMMA NextEval == EvalInv /\ [Next]_vars => EvalInv'
<1> SUFFICES ASSUME EvalInv, [Next]_vars PROVE EvalInv'
  OBVIOUS
<1>1. CASE UNCHANGED vars
  BY <1>1
  DEF vars, preset, query, EvalInv, Types, InForce, SoFar, ScoredUnderItsPreset, Under, Legal
<1> QED
  BY <1>1, StepMain, StepEnter, StepRetrieve, StepRerank, StepRewrite, StepScore, StepPersist,
     StepLeave DEF Next

\* The invariant of the harness.
THEOREM EvalInvariance == Spec => []EvalInv
<1> QED BY InitEval, NextEval, PTL DEF Spec

\* Every persisted run is whole and was scored under the preset it is named after.
THEOREM RunsAreComparable == Spec => []ScoredUnderItsPreset
<1>1. EvalInv => ScoredUnderItsPreset
  BY DEF EvalInv
<1> QED BY <1>1, EvalInvariance, PTL

\* Between runs and at the exit nothing of a preset is left.
THEOREM NoTraceOfPresets == Spec => []PresetsLeaveNoTrace
<1>1. EvalInv => PresetsLeaveNoTrace
  BY DEF EvalInv, InForce, PresetsLeaveNoTrace, KindOf, Allowed
<1> QED BY <1>1, EvalInvariance, PTL

-----------------------------------------------------------------------------
(* The exit and the table.                                                 *)

\* The names of the runs the command line asks for.
Asked == IF args.compare = None THEN <<"settings">> ELSE args.compare

\* How many of them are over: the one that leaves is persisted and still at the head of todo.
Over == IF stage = "leave" THEN Len(eval_runs) - 1 ELSE Len(eval_runs)

\* As long as nothing raised, the table holds the first names asked for and todo the rest.
InOrder ==
    exit \in {None, "ok"} /\ stage # "main" =>
        /\ Over \in Nat /\ Over + Len(todo) = Len(Asked)
        /\ \A i \in 1 .. Len(todo) : todo[i] = Asked[Over + i]
        /\ \A i \in 1 .. Len(eval_runs) : eval_runs[i].name = Asked[i]

\* When the process has which exit, and the row of a single run is this run.
Exits ==
    /\ stage = "main" => eval_runs = <<>> /\ todo = <<>>
    /\ exit \in {None, "ok", "usage", "error", "below_threshold"}
    /\ stage \notin {"leave", "exit"} => exit = None
    /\ stage = "leave" => exit \in {None, "error"}
    /\ exit = "usage" => eval_runs = <<>>
    /\ exit = "ok" => stage = "exit" /\ todo = <<>>
    /\ args.compare = None /\ eval_runs # <<>> /\ exit \in {None, "ok"} /\ stage # "main" =>
           eval_runs[1].answers = run
    /\ exit = "ok" /\ args.compare = None /\ args.gate # None =>
           run.total >= args.gate * Questions

GateIsMark == args.gate # None => args.gate \in Nat

ExitInv == InOrder /\ Exits /\ GateIsMark

\* Before a run is persisted a single one leaves the table empty.
LEMMA FirstRunOpens ==
    ASSUME EvalInv, ExitInv, stage \in Running \cup {"enter"}, todo # <<>>
    PROVE  exit = None /\ (args.compare = None => eval_runs = <<>>)
<1>1. exit = None /\ stage # "main" /\ stage # "leave"
  BY DEF ExitInv, Exits, Running
<1>2. Len(todo) \in Nat /\ Len(todo) > 0 /\ Len(eval_runs) \in Nat
  BY DEF EvalInv, Types
<1>3. ASSUME args.compare = None PROVE eval_runs = <<>>
  <2>1. Len(Asked) = 1
    BY <1>3 DEF Asked
  <2>2. Len(eval_runs) + Len(todo) = 1
    BY <1>1, <2>1 DEF ExitInv, InOrder, Over
  <2>3. Len(eval_runs) = 0
    BY <1>2, <2>2
  <2> QED BY <2>3 DEF EvalInv, Types
<1> QED BY <1>1, <1>3

LEMMA InitExit == Init => ExitInv
<1> SUFFICES ASSUME Init PROVE ExitInv
  OBVIOUS
<1>1. GateIsMark
  BY DEF Init, Arguments, GateIsMark
<1> QED BY <1>1 DEF Init, ExitInv, InOrder, Exits

\* The names asked for are put into todo, or the process ends.
LEMMA ExitMain == ASSUME EvalInv, ExitInv, Main PROVE ExitInv'
<1>1. /\ stage = "main" /\ eval_runs = <<>> /\ exit = None
      /\ UNCHANGED <<args, run, eval_runs>>
  BY DEF Main, ExitInv, Exits, query
<1>2. CASE stage' = "exit" /\ exit' = "usage"
  BY <1>1, <1>2 DEF ExitInv, InOrder, Exits, GateIsMark
<1>3. CASE stage' = "enter" /\ exit' = exit /\ todo' = Asked
  <2>1. Asked \in Seq(Names)
    <3>1. <<"settings">> \in Seq(Names)
      BY DEF Names
    <3> QED BY <3>1 DEF Asked, EvalInv, Types
  <2>2. Over' = 0 /\ Len(Asked) \in Nat /\ Asked' = Asked
    BY <1>1, <1>3, <2>1 DEF Over, Asked
  <2>3. InOrder'
    BY <1>1, <1>3, <2>1, <2>2 DEF InOrder
  <2> QED BY <1>1, <1>3, <2>3 DEF ExitInv, Exits, GateIsMark
<1> QED BY <1>2, <1>3 DEF Main, Goto, Asked

\* A run and its steps leave the table, todo and the exit as they are.
LEMMA ExitRun ==
    ASSUME EvalInv, ExitInv, Enter \/ Retrieve \/ Rerank \/ Rewrite \/ Score
    PROVE  ExitInv'
<1>1. /\ stage \in Running \cup {"enter"} /\ todo # <<>>
      /\ stage' \in Running
      /\ UNCHANGED <<args, todo, eval_runs, exit>>
  BY DEF Enter, Retrieve, Rerank, Rewrite, Score, Goto, Running, EvalInv, InForce
<1>2. exit = None /\ (args.compare = None => eval_runs = <<>>)
  BY <1>1, FirstRunOpens
<1>3. /\ stage # "main" /\ stage # "leave"
      /\ stage' # "main" /\ stage' # "leave" /\ stage' # "exit"
  BY <1>1 DEF Running
<1>4. Over' = Over /\ Asked' = Asked
  BY <1>1, <1>3 DEF Over, Asked
<1>5. InOrder'
  BY <1>1, <1>3, <1>4 DEF ExitInv, InOrder
<1>6. Exits'
  BY <1>1, <1>2, <1>3 DEF Exits
<1> QED BY <1>1, <1>5, <1>6 DEF ExitInv, GateIsMark

\* The run is written under the next name asked for.
LEMMA ExitPersist == ASSUME EvalInv, ExitInv, Persist PROVE ExitInv'
<1> DEFINE row == [name |-> Head(todo), answers |-> run]
<1>1. /\ stage = "persist" /\ stage' = "leave" /\ todo # <<>>
      /\ eval_runs' = Append(eval_runs, row)
      /\ UNCHANGED <<args, todo, run, exit>>
  BY DEF Persist, Goto, EvalInv, InForce, Running
<1>2. exit = None /\ (args.compare = None => eval_runs = <<>>)
  BY <1>1, FirstRunOpens DEF Running
<1>3. /\ eval_runs \in Seq([name : Names, answers : Answered])
      /\ row \in [name : Names, answers : Answered]
      /\ todo \in Seq(Names) /\ Len(todo) \in Nat /\ Len(todo) > 0
  BY <1>1 DEF EvalInv, Types
<1> HIDE DEF row
<1>4. /\ Len(eval_runs) \in Nat /\ Len(eval_runs') = Len(eval_runs) + 1
      /\ \A i \in 1 .. Len(eval_runs) : eval_runs'[i] = eval_runs[i]
      /\ eval_runs'[Len(eval_runs) + 1] = row
  <2> DEFINE Row == [name : Names, answers : Answered]
  <2>1. eval_runs \in Seq(Row) /\ row \in Row
    BY <1>3
  <2> HIDE DEF Row
  <2> QED BY <1>1, <2>1, AppendFacts
<1>5. Over = Len(eval_runs) /\ Over' = Len(eval_runs) /\ Asked' = Asked
  BY <1>1, <1>4 DEF Over, Asked
<1>6. row.name = Asked[Len(eval_runs) + 1] /\ row.answers = run
  <2>1. todo[1] = Asked[Over + 1]
    <3>1. \A i \in 1 .. Len(todo) : todo[i] = Asked[Over + i]
      BY <1>1, <1>2 DEF ExitInv, InOrder
    <3>2. 1 \in 1 .. Len(todo)
      BY <1>3
    <3> QED BY <3>1, <3>2
  <2>2. row.name = todo[1] /\ row.answers = run
    <3>1. Head(todo) = todo[1]
      BY <1>3
    <3> QED BY <3>1 DEF row
  <2> QED BY <1>5, <2>1, <2>2
<1>7. InOrder'
  <2>1. /\ Over + Len(todo) = Len(Asked)
        /\ \A i \in 1 .. Len(todo) : todo[i] = Asked[Over + i]
        /\ \A i \in 1 .. Len(eval_runs) : eval_runs[i].name = Asked[i]
    BY <1>1, <1>2 DEF ExitInv, InOrder
  <2>2. ASSUME NEW i \in 1 .. Len(eval_runs') PROVE eval_runs'[i].name = Asked[i]
    <3>1. i \in 1 .. Len(eval_runs) \/ i = Len(eval_runs) + 1
      BY <1>4
    <3>2. CASE i \in 1 .. Len(eval_runs)
      BY <1>4, <2>1, <3>2
    <3>3. CASE i = Len(eval_runs) + 1
      BY <1>4, <1>6, <3>3
    <3> QED BY <3>1, <3>2, <3>3
  <2> QED BY <1>1, <1>4, <1>5, <2>1, <2>2 DEF InOrder
<1>8. Exits'
  <2>1. args.compare = None => eval_runs'[1].answers = run
    BY <1>2, <1>4, <1>6
  <2> QED BY <1>1, <1>2, <2>1 DEF Exits
<1> QED BY <1>1, <1>7, <1>8 DEF ExitInv, GateIsMark

\* The name at the head of todo is behind it.
LEMMA ExitLeave == ASSUME EvalInv, ExitInv, Leave PROVE ExitInv'
<1>1. /\ stage = "leave" /\ todo # <<>> /\ todo' = Tail(todo)
      /\ stage' = IF exit = None THEN "enter" ELSE "exit"
      /\ UNCHANGED <<args, run, eval_runs, exit>>
  BY DEF Leave, EvalInv, InForce
<1>2. exit \in {None, "error"}
  BY <1>1 DEF ExitInv, Exits
<1>3. /\ todo \in Seq(Names) /\ Len(todo) \in Nat /\ Len(todo) > 0
      /\ Len(todo') = Len(todo) - 1
      /\ \A i \in 1 .. Len(todo') : todo'[i] = todo[i + 1]
      /\ Len(eval_runs) \in Nat
  BY <1>1 DEF EvalInv, Types
<1>4. Asked' = Asked /\ Over = Len(eval_runs) - 1 /\ Over' = Len(eval_runs)
  BY <1>1 DEF Asked, Over
<1>5. ASSUME exit' \in {None, "ok"} PROVE exit = None
  BY <1>1, <1>2, <1>5, None # "error" DEF ExitInv, Exits
<1>6. InOrder'
  <2> SUFFICES ASSUME exit = None
               PROVE  /\ Over' \in Nat /\ Over' + Len(todo') = Len(Asked)
                      /\ \A i \in 1 .. Len(todo') : todo'[i] = Asked[Over' + i]
                      /\ \A i \in 1 .. Len(eval_runs) : eval_runs[i].name = Asked[i]
    BY <1>1, <1>4, <1>5 DEF InOrder
  <2>1. /\ Over \in Nat /\ Over + Len(todo) = Len(Asked)
        /\ \A i \in 1 .. Len(todo) : todo[i] = Asked[Over + i]
        /\ \A i \in 1 .. Len(eval_runs) : eval_runs[i].name = Asked[i]
    BY <1>1 DEF ExitInv, InOrder
  <2>2. \A i \in 1 .. Len(todo') : todo'[i] = Asked[Over' + i]
    <3> TAKE i \in 1 .. Len(todo')
    <3>1. i + 1 \in 1 .. Len(todo) /\ Over + (i + 1) = Over' + i
      BY <1>3, <1>4
    <3> QED BY <1>3, <2>1, <3>1
  <2> QED BY <1>3, <1>4, <2>1, <2>2
<1>7. Exits'
  BY <1>1, <1>2 DEF ExitInv, Exits
<1> QED BY <1>1, <1>6, <1>7 DEF ExitInv, GateIsMark

\* The process ends: all names are behind it, and the gate looked at the one row there is.
LEMMA ExitExit == ASSUME EvalInv, ExitInv, Exit PROVE ExitInv'
<1>1. /\ stage = "enter" /\ todo = <<>> /\ stage' = "exit" /\ exit = None
      /\ UNCHANGED <<args, todo, run, eval_runs>>
  BY DEF Exit, ExitInv, Exits, query
<1>2. exit' = (IF /\ args.compare = None /\ args.gate # None
                  /\ run.total < args.gate * Largest(run.answered, 1)
               THEN "below_threshold" ELSE "ok")
  BY DEF Exit
<1>3. Asked' = Asked /\ Over' = Over
  BY <1>1 DEF Asked, Over
<1>4. InOrder'
  BY <1>1, <1>3 DEF ExitInv, InOrder
<1>5. ASSUME exit' = "ok", args.compare = None, args.gate # None
      PROVE  run.total >= args.gate * Questions
  <2>1. Len(Asked) = 1 /\ Len(eval_runs) = 1
    <3>1. Over + Len(todo) = Len(Asked)
      BY <1>1 DEF ExitInv, InOrder
    <3>2. Len(eval_runs) \in Nat /\ Len(todo) = 0 /\ Over = Len(eval_runs)
      BY <1>1 DEF EvalInv, Types, Over
    <3>3. Len(Asked) = 1
      BY <1>5 DEF Asked
    <3> QED BY <3>1, <3>2, <3>3, \A n \in Nat : n + 0 = n
  <2>2. eval_runs[1].answers = run
    <3>1. eval_runs # <<>>
      BY <2>1, Len(<<>>) = 0, 0 # 1, Zenon
    <3> QED BY <1>1, <1>5, <3>1 DEF ExitInv, Exits
  <2>3. run.answered = Questions
    BY <2>1, <2>2 DEF EvalInv, ScoredUnderItsPreset, Types
  <2>4. /\ run.total \in Nat /\ Questions \in Nat /\ args.gate \in Nat
    BY <1>5 DEF EvalInv, Types, Answered, ExitInv, GateIsMark
  <2>5. ~(run.total < args.gate * Largest(Questions, 1))
    BY <1>2, <1>5, <2>3
  <2>6. CASE Questions = 0
    BY <2>4, <2>6
  <2>7. CASE Questions # 0
    <3>1. Largest(Questions, 1) = Questions
      BY <2>4, <2>7 DEF Largest
    <3>2. args.gate * Questions \in Nat
      BY <2>4
    <3> QED BY <2>4, <2>5, <3>1, <3>2
  <2> QED BY <2>6, <2>7
<1>6. Exits'
  BY <1>1, <1>2, <1>5 DEF ExitInv, Exits
<1> QED BY <1>1, <1>4, <1>6 DEF ExitInv, GateIsMark

LEMMA ExitRaise == ASSUME EvalInv, ExitInv, Raise PROVE ExitInv'
BY DEF Raise, ExitInv, InOrder, Exits, GateIsMark, Running

LEMMA NextExit == EvalInv /\ ExitInv /\ [Next]_vars => ExitInv'
<1> SUFFICES ASSUME EvalInv, ExitInv, [Next]_vars PROVE ExitInv'
  OBVIOUS
<1>1. CASE UNCHANGED vars
  BY <1>1 DEF vars, query, preset, ExitInv, InOrder, Exits, GateIsMark, Over, Asked
<1>2. CASE Next
  BY <1>2, ExitMain, ExitRun, ExitPersist, ExitLeave, ExitExit, ExitRaise DEF Next
<1> QED BY <1>1, <1>2

\* A usage error leaves no run behind; success leaves all that was asked for, in order,
\* and a single run that succeeds reached its threshold (main, run_dataset, use_preset).
THEOREM ExitIsTruthful == Spec => []ExitTellsWhatIsPersisted
<1>1. EvalInv /\ ExitInv => ExitTellsWhatIsPersisted
  <2> SUFFICES ASSUME EvalInv, ExitInv PROVE ExitTellsWhatIsPersisted
    OBVIOUS
  <2> DEFINE names == [i \in DOMAIN eval_runs |-> eval_runs[i].name]
  <2>1. ASSUME exit = "ok" PROVE names = Asked
    <3>1. /\ Len(eval_runs) = Len(Asked) /\ DOMAIN eval_runs = 1 .. Len(eval_runs)
          /\ \A i \in 1 .. Len(eval_runs) : eval_runs[i].name = Asked[i]
      BY <2>1 DEF ExitInv, InOrder, Exits, EvalInv, Types, Over
    <3>2. Asked \in Seq(Names)
      <4>1. <<"settings">> \in Seq(Names)
        BY DEF Names
      <4> QED BY <4>1 DEF Asked, EvalInv, Types
    <3>3. Asked = [i \in 1 .. Len(Asked) |-> Asked[i]]
      BY <3>2
    <3> QED BY <3>1, <3>3
  <2>2. ASSUME exit = "ok", args.compare = None, args.gate # None
        PROVE  eval_runs[1].answers.total >= args.gate * Questions
    <3>1. eval_runs # <<>> /\ stage # "main"
      <4>1. Len(Asked) = 1
        BY <2>2 DEF Asked
      <4>2. stage = "exit" /\ Len(eval_runs) = Len(Asked)
        BY <2>2 DEF ExitInv, InOrder, Exits, EvalInv, Types, Over
      <4> QED BY <4>1, <4>2, Len(<<>>) = 0, 0 # 1, Zenon
    <3> QED BY <2>2, <3>1 DEF ExitInv, Exits
  <2>3. exit = "usage" => eval_runs = <<>>
    BY DEF ExitInv, Exits
  <2> HIDE DEF names
  <2>4. exit = "ok" /\ args.compare # None => names = args.compare
    BY <2>1 DEF Asked
  <2>5. exit = "ok" /\ args.compare = None => names = <<"settings">>
    BY <2>1 DEF Asked
  <2> QED BY <2>2, <2>3, <2>4, <2>5 DEF ExitTellsWhatIsPersisted, names
<1> QED BY <1>1, InitEval, NextEval, InitExit, NextExit, PTL DEF Spec

-----------------------------------------------------------------------------
(* The scores of the fusion.                                               *)

\* Induction over a set of natural numbers: the least number outside of it has none before.
LEMMA SetInduction ==
    ASSUME NEW S \in SUBSET Nat, 0 \in S, \A n \in S : n + 1 \in S
    PROVE  S = Nat
<1> SUFFICES ASSUME Nat \ S # {} PROVE FALSE
  OBVIOUS
<1> DEFINE Less == {ss \in Nat \X Nat : ss[1] < ss[2]}
<1>1. IsWellFoundedOn(Less, Nat)
  BY NatLessThanWellFounded DEF OpToRel
<1>2. PICK n \in Nat \ S : \A k \in Nat \ S : ~ (<<k, n>> \in Less)
  <2> HIDE DEF Less
  <2>1. Nat \ S \subseteq Nat
    OBVIOUS
  <2> QED BY <1>1, <2>1, WFMin
<1>3. n # 0 /\ n - 1 \in Nat
  OBVIOUS
<1>4. n - 1 \notin S
  BY <1>3
<1>5. <<n - 1, n>> \in Less
  BY <1>3
<1> QED BY <1>2, <1>3, <1>4, <1>5

\* The running product Unit is made of.
IsProduct(p, n) == p = [i \in 0 .. n |-> IF i = 0 THEN 1 ELSE p[i - 1] * (RrfK + i)]

LEMMA ProductExists == \A n \in Nat : \E p : IsProduct(p, n)
<1> DEFINE S == {n \in Nat : \E p : IsProduct(p, n)}
<1>1. 0 \in S
  <2> DEFINE p == [i \in 0 .. 0 |-> 1]
  <2>1. p = [i \in 0 .. 0 |-> IF i = 0 THEN 1 ELSE p[i - 1] * (RrfK + i)]
    OBVIOUS
  <2> QED BY <2>1 DEF IsProduct
<1>2. ASSUME NEW n \in S PROVE n + 1 \in S
  <2>1. PICK p : IsProduct(p, n)
    OBVIOUS
  <2> DEFINE q == [i \in 0 .. n + 1 |-> IF i = n + 1 THEN p[n] * (RrfK + i) ELSE p[i]]
  <2>2. \A i \in 0 .. n : p[i] = IF i = 0 THEN 1 ELSE p[i - 1] * (RrfK + i)
    BY <2>1 DEF IsProduct
  <2>3. ASSUME NEW i \in 0 .. n + 1
        PROVE  q[i] = IF i = 0 THEN 1 ELSE q[i - 1] * (RrfK + i)
    <3>1. CASE i = n + 1
      <4>1. i # 0 /\ i - 1 = n /\ n \in 0 .. n + 1 /\ n # n + 1
        BY <3>1
      <4>2. q[i] = p[n] * (RrfK + i) /\ q[n] = p[n]
        BY <3>1, <4>1
      <4> QED BY <4>1, <4>2
    <3>2. CASE i = 0
      <4>1. i # n + 1 /\ i \in 0 .. n
        BY <3>2
      <4>2. q[i] = p[i]
        BY <4>1
      <4> QED BY <2>2, <3>2, <4>1, <4>2
    <3>3. CASE i \in 1 .. n
      <4>1. /\ i # n + 1 /\ i \in 0 .. n /\ i # 0
            /\ i - 1 # n + 1 /\ i - 1 \in 0 .. n + 1
        BY <3>3
      <4>2. q[i] = p[i] /\ q[i - 1] = p[i - 1]
        BY <4>1
      <4> QED BY <2>2, <4>1, <4>2
    <3> QED BY <3>1, <3>2, <3>3
  <2> HIDE DEF q
  <2>4. q = [i \in 0 .. n + 1 |-> q[i]]
    BY DEF q
  <2>5. IsProduct(q, n + 1)
    BY <2>3, <2>4 DEF IsProduct
  <2> QED BY <2>5
<1>3. S = Nat
  <2> HIDE DEF S
  <2>1. S \in SUBSET Nat
    BY DEF S
  <2> QED BY <1>1, <1>2, <2>1, SetInduction
<1> QED BY <1>3

\* Every factor so far divides it.
LEMMA ProductDivides ==
    ASSUME NEW n \in Nat, NEW p, IsProduct(p, n)
    PROVE  \A j \in 0 .. n :
               /\ p[j] \in Nat \ {0}
               /\ \A i \in 1 .. j : \E m \in Nat : p[j] = (RrfK + i) * m
<1> DEFINE Divided(j) == /\ p[j] \in Nat \ {0}
                         /\ \A i \in 1 .. j : \E m \in Nat : p[j] = (RrfK + i) * m
           S == {j \in Nat : j <= n => Divided(j)}
<1>1. \A i \in 0 .. n : p[i] = IF i = 0 THEN 1 ELSE p[i - 1] * (RrfK + i)
  BY DEF IsProduct
<1>2. 0 \in S
  BY <1>1
<1>3. ASSUME NEW j \in S PROVE j + 1 \in S
  <2> SUFFICES ASSUME j + 1 <= n PROVE Divided(j + 1)
    OBVIOUS
  <2>1. j \in Nat /\ Divided(j)
    OBVIOUS
  <2>2. p[j + 1] = p[j] * (RrfK + (j + 1))
    BY <1>1, <2>1
  <2>3. RrfK + (j + 1) \in Nat \ {0} /\ RrfK \in Nat
    BY <2>1 DEF EvalAssumption
  <2>4. p[j + 1] \in Nat \ {0}
    BY <2>1, <2>2, <2>3
  <2>5. ASSUME NEW i \in 1 .. j + 1 PROVE \E m \in Nat : p[j + 1] = (RrfK + i) * m
    <3>1. CASE i = j + 1
      <4>1. p[j + 1] = (RrfK + i) * p[j]
        BY <2>1, <2>2, <2>3, <3>1
      <4> QED BY <2>1, <4>1
    <3>2. CASE i \in 1 .. j
      <4>1. PICK m \in Nat : p[j] = (RrfK + i) * m
        BY <2>1, <3>2
      <4>2. \A a, b, c \in Nat : (a * b) * c = a * (b * c) /\ b * c \in Nat
        OBVIOUS
      <4>3. p[j + 1] = (RrfK + i) * (m * (RrfK + (j + 1)))
        BY <2>2, <2>3, <4>1, <4>2
      <4> QED BY <2>3, <4>2, <4>3
    <3> QED BY <2>1, <3>1, <3>2
  <2> QED BY <2>4, <2>5
<1>4. S = Nat
  <2> HIDE DEF S
  <2>1. S \in SUBSET Nat
    BY DEF S
  <2> QED BY <1>2, <1>3, <2>1, SetInduction
<1> QED BY <1>4

LEMMA DepthType == Depth \in Nat \ {0} /\ RetrieveTopN <= Depth
BY DEF Depth, Largest, EvalAssumption

\* The unit of the scores is divisible by what any rank divides by.
LEMMA UnitDivides ==
    Unit \in Nat \ {0} /\ \A i \in 1 .. Depth : \E m \in Nat : Unit = (RrfK + i) * m
<1> DEFINE product == CHOOSE p : IsProduct(p, Depth)
<1>1. IsProduct(product, Depth)
  BY DepthType, ProductExists
<1>2. Unit = product[Depth]
  BY Zenon DEF Unit, IsProduct
<1> HIDE DEF product
<1> QED BY <1>1, <1>2, DepthType, ProductDivides

LEMMA ExactQuotient ==
    ASSUME NEW x \in Int, NEW y \in Nat, y > 0, NEW q \in Nat, x = y * q
    PROVE  x \div y = q
OBVIOUS

\* The same amount in larger parts is no more of them.
LEMMA LargerDivisor ==
    ASSUME NEW a \in Nat \ {0}, NEW b \in Nat, a < b, NEW p \in Nat, NEW q \in Nat,
           a * p = b * q
    PROVE  p >= q
<1> SUFFICES ASSUME p < q PROVE FALSE
  OBVIOUS
<1>1. q > 0
  OBVIOUS
<1>2. a * p <= a * q
  OBVIOUS
<1>3. a * q < b * q
  BY <1>1
<1> QED BY <1>2, <1>3

\* What a ranking of a search is.
LEMMA RankingFacts ==
    ASSUME NEW n \in Nat, NEW s \in Rankings(n)
    PROVE  /\ s \in Seq(Chunks) /\ Len(s) \in 0 .. n /\ DOMAIN s = 1 .. Len(s)
           /\ \A i, j \in 1 .. Len(s) : s[i] = s[j] => i = j
           /\ \A c : Ranked(c, s) => Rank(c, s) \in 1 .. Len(s) /\ s[Rank(c, s)] = c
           /\ \A c : c \in ToSet(s) <=> Ranked(c, s)
           /\ IsFiniteSet(ToSet(s)) /\ ToSet(s) \subseteq Chunks
<1>1. PICK m \in 0 .. n : s \in [1 .. m -> Chunks]
  BY DEF Rankings
<1>2. s \in Seq(Chunks) /\ Len(s) = m /\ DOMAIN s = 1 .. Len(s) /\ m \in Nat
  BY <1>1
<1>3. \A i, j \in 1 .. Len(s) : s[i] = s[j] => i = j
  BY <1>1, <1>2 DEF Rankings
<1>4. \A c : Ranked(c, s) => Rank(c, s) \in 1 .. Len(s) /\ s[Rank(c, s)] = c
  BY <1>2 DEF Ranked, Rank
<1>5. \A c : c \in ToSet(s) <=> Ranked(c, s)
  BY DEF ToSet, Ranked
<1>6. IsFiniteSet(ToSet(s)) /\ ToSet(s) \subseteq Chunks
  <2>1. s \in Surjection(1 .. m, ToSet(s))
    BY <1>1, <1>2 DEF Surjection, ToSet
  <2>2. IsFiniteSet(1 .. m)
    BY <1>2, 1 \in Int, m \in Int, FS_Interval
  <2>3. IsFiniteSet(ToSet(s))
    BY <2>1, <2>2, FS_Surjection
  <2> QED BY <1>1, <2>3 DEF ToSet
<1> QED BY <1>1, <1>2, <1>3, <1>4, <1>5, <1>6

\* What a list adds to a score: no less, the higher the chunk is in it.
LEMMA PartOrder ==
    ASSUME NEW s \in Rankings(Depth), NEW w \in Nat
    PROVE  /\ \A c : Part(c, s, w) \in Nat
           /\ \A c : ~Ranked(c, s) => Part(c, s, w) = 0
           /\ \A c, d : Ranked(c, s) /\ Ranked(d, s) /\ Rank(c, s) < Rank(d, s) =>
                  Part(c, s, w) >= Part(d, s, w)
<1>1. \A c : ~Ranked(c, s) => Part(c, s, w) = 0
  BY DEF Part
<1>2. ASSUME NEW c, Ranked(c, s)
      PROVE  /\ Rank(c, s) \in Nat \ {0} /\ RrfK + Rank(c, s) \in Nat \ {0}
             /\ Part(c, s, w) \in Nat
             /\ w * Unit = (RrfK + Rank(c, s)) * Part(c, s, w)
  <2>1. Rank(c, s) \in 1 .. Depth
    BY <1>2, DepthType, RankingFacts
  <2>2. PICK m \in Nat : Unit = (RrfK + Rank(c, s)) * m
    BY <2>1, UnitDivides
  <2> DEFINE y == RrfK + Rank(c, s)
  <2>3. y \in Nat \ {0} /\ Rank(c, s) \in Nat \ {0}
    BY <2>1, DepthType DEF EvalAssumption
  <2> HIDE DEF y
  <2>4. Unit = y * m
    BY <2>2 DEF y
  <2>5. w * Unit = y * (w * m) /\ w * m \in Nat
    BY <2>3, <2>4
  <2>6. Part(c, s, w) = (w * Unit) \div y
    BY <1>2 DEF Part, y
  <2>7. Part(c, s, w) = w * m
    <3>1. w * Unit \in Int
      BY UnitDivides
    <3> QED BY <2>3, <2>5, <2>6, <3>1, ExactQuotient
  <2> QED BY <2>3, <2>5, <2>7 DEF y
<1>3. ASSUME NEW c, NEW d, Ranked(c, s), Ranked(d, s), Rank(c, s) < Rank(d, s)
      PROVE  Part(c, s, w) >= Part(d, s, w)
  <2>2. RrfK \in Nat
    BY DEF EvalAssumption
  <2>3. RrfK + Rank(c, s) < RrfK + Rank(d, s)
    BY <1>2, <1>3, <2>2
  <2> QED BY <1>2, <1>3, <2>3, LargerDivisor
<1> QED BY <1>1, <1>2, <1>3

-----------------------------------------------------------------------------
(* The order of the fusion.                                                *)

\* A total order on S, strict: of two, one is before the other.
TotalOrder(before, S) ==
    /\ before \in SUBSET (S \X S)
    /\ \A c \in S : <<c, c>> \notin before
    /\ \A c, d, e \in S : <<c, d>> \in before /\ <<d, e>> \in before => <<c, e>> \in before
    /\ \A c, d \in S : c # d => <<c, d>> \in before \/ <<d, c>> \in before

Places(before, S) == [c \in S |-> Cardinality({d \in S : <<d, c>> \in before}) + 1]

\* Ordering finitely many by how many come before puts each in a place of its own and
\* leaves no place empty.
LEMMA PlacesAreFilled ==
    ASSUME NEW S, IsFiniteSet(S), NEW before, TotalOrder(before, S)
    PROVE  /\ Places(before, S) \in [S -> 1 .. Cardinality(S)]
           /\ \A c, d \in S : <<c, d>> \in before => Places(before, S)[c] < Places(before, S)[d]
           /\ \A i \in 1 .. Cardinality(S) : \E c \in S : Places(before, S)[c] = i
<1> DEFINE place == Places(before, S)
<1> USE DEF TotalOrder
<1> DEFINE Less(c) == {d \in S : <<d, c>> \in before}
           n == Cardinality(S)
<1>0. place = [c \in S |-> Cardinality(Less(c)) + 1]
  BY DEF Places
<1> HIDE DEF place
<1>1. \A T \in SUBSET S : IsFiniteSet(T) /\ Cardinality(T) \in Nat /\ Cardinality(T) <= n
  BY FS_Subset, FS_CardinalityType
<1>2. n \in Nat
  BY FS_CardinalityType
<1>3. \A c, d \in S : <<c, d>> \in before => place[c] < place[d]
  <2> SUFFICES ASSUME NEW c \in S, NEW d \in S, <<c, d>> \in before
               PROVE  place[c] < place[d]
    OBVIOUS
  <2>1. Less(c) \in SUBSET Less(d) /\ Less(c) # Less(d)
    OBVIOUS
  <2>2. Less(c) \in SUBSET S /\ Less(d) \in SUBSET S
    OBVIOUS
  <2>3. place[c] = Cardinality(Less(c)) + 1 /\ place[d] = Cardinality(Less(d)) + 1
    BY <1>0
  <2> HIDE DEF Less
  <2>4. Cardinality(Less(c)) <= Cardinality(Less(d)) /\ Cardinality(Less(c)) # Cardinality(Less(d))
    BY <1>1, <2>1, <2>2, FS_Subset
  <2> QED BY <1>1, <2>2, <2>3, <2>4
<1>4. place \in [S -> 1 .. n]
  <2> SUFFICES ASSUME NEW c \in S PROVE Cardinality(Less(c)) + 1 \in 1 .. n
    BY <1>0
  <2>1. Less(c) \in SUBSET S /\ Less(c) # S
    OBVIOUS
  <2> HIDE DEF Less
  <2>2. Cardinality(Less(c)) # n
    BY <2>1, FS_Subset
  <2> QED BY <1>1, <1>2, <2>1, <2>2
<1> HIDE DEF n
<1>5. place \in Injection(S, 1 .. n)
  <2>1. ASSUME NEW c \in S, NEW d \in S, place[c] = place[d], c # d PROVE FALSE
    <3>1. place[c] < place[d] \/ place[d] < place[c]
      BY <1>3, <2>1
    <3>2. place[c] \in Nat
      BY <1>2, <1>4
    <3> QED BY <2>1, <3>1, <3>2
  <2>2. DOMAIN place = S
    BY <1>4
  <2>3. IsInjective(place)
    BY <2>1, <2>2 DEF IsInjective
  <2> QED BY <1>4, <2>3 DEF Injection
<1>6. IsFiniteSet(1 .. n) /\ Cardinality(1 .. n) = n
  <2>1. 1 \in Int /\ n \in Int
    BY <1>2
  <2>2. IsFiniteSet(1 .. n) /\ Cardinality(1 .. n) = IF 1 > n THEN 0 ELSE n - 1 + 1
    BY <2>1, FS_Interval, Zenon
  <2> QED BY <1>2, <2>2
<1>7. place \in Surjection(S, 1 .. n)
  BY <1>5, <1>6, FS_Injection DEF n
<1>8. \A i \in 1 .. n : \E c \in S : place[c] = i
  BY <1>7 DEF Surjection
<1> QED BY <1>3, <1>4, <1>8 DEF n, place

\* Chunk c is above d in every one of the two rankings that has d.
Above(c, d, h) ==
    /\ \E i \in {1, 2} : Ranked(d, h[i])
    /\ \A i \in {1, 2} : Ranked(d, h[i]) => Ranked(c, h[i]) /\ Rank(c, h[i]) < Rank(d, h[i])

\* Above in the rankings is before in the fusion, whatever the constant and the weights
\* are: no less in the sum, and met first.
LEMMA FusedOrder ==
    ASSUME NEW dense \in Rankings(Depth), NEW sparse \in Rankings(Depth)
    PROVE  /\ \A c : Fused(c, dense, sparse) \in Nat
           /\ \A c, d : Above(c, d, <<dense, sparse>>) => Before(c, d, dense, sparse)
<1>1. DenseWeight \in Nat /\ SparseWeight \in Nat
  BY DEF EvalAssumption
<1>2. \A c : Part(c, dense, DenseWeight) \in Nat /\ Part(c, sparse, SparseWeight) \in Nat
  BY <1>1, PartOrder
<1>3. ASSUME NEW c, NEW d, Above(c, d, <<dense, sparse>>)
      PROVE  Before(c, d, dense, sparse)
  <2>1. Ranked(d, dense) \/ Ranked(d, sparse)
    BY <1>3 DEF Above
  <2>2. Ranked(d, dense) => Part(c, dense, DenseWeight) >= Part(d, dense, DenseWeight)
    BY <1>1, <1>3, PartOrder DEF Above
  <2>3. Ranked(d, sparse) => Part(c, sparse, SparseWeight) >= Part(d, sparse, SparseWeight)
    BY <1>1, <1>3, PartOrder DEF Above
  <2>4. ~Ranked(d, dense) => Part(d, dense, DenseWeight) = 0
    BY <1>1, PartOrder
  <2>5. ~Ranked(d, sparse) => Part(d, sparse, SparseWeight) = 0
    BY <1>1, PartOrder
  <2>6. Fused(c, dense, sparse) >= Fused(d, dense, sparse)
    BY <1>2, <2>2, <2>3, <2>4, <2>5 DEF Fused
  <2>7. /\ Len(dense) \in Nat
        /\ \A x : Ranked(x, dense) => Rank(x, dense) \in 1 .. Len(dense)
        /\ \A x : Ranked(x, sparse) => Rank(x, sparse) \in Nat \ {0}
    BY DepthType, RankingFacts
  <2>8. /\ Ranked(d, dense) => Ranked(c, dense) /\ Rank(c, dense) < Rank(d, dense)
        /\ Ranked(d, sparse) => Ranked(c, sparse) /\ Rank(c, sparse) < Rank(d, sparse)
    BY <1>3 DEF Above
  <2>9. Met(c, dense, sparse) < Met(d, dense, sparse)
    <3>1. CASE Ranked(d, dense)
      BY <2>8, <3>1 DEF Met
    <3>2. CASE ~Ranked(d, dense) /\ Ranked(c, dense)
      BY <2>1, <2>7, <3>2 DEF Met
    <3>3. CASE ~Ranked(d, dense) /\ ~Ranked(c, dense)
      BY <2>1, <2>7, <2>8, <3>3 DEF Met
    <3> QED BY <3>1, <3>2, <3>3
  <2>10. Fused(c, dense, sparse) \in Nat /\ Fused(d, dense, sparse) \in Nat
    BY <1>2 DEF Fused
  <2> QED BY <2>6, <2>9, <2>10 DEF Before
<1> QED BY <1>2, <1>3 DEF Fused

\* No two chunks are met at once.
LEMMA MetApart ==
    ASSUME NEW dense \in Rankings(Depth), NEW sparse \in Rankings(Depth)
    PROVE  \A c, d \in ToSet(dense) \cup ToSet(sparse) :
               /\ Met(c, dense, sparse) \in Nat
               /\ Met(c, dense, sparse) = Met(d, dense, sparse) => c = d
<1> SUFFICES ASSUME NEW c \in ToSet(dense) \cup ToSet(sparse),
                    NEW d \in ToSet(dense) \cup ToSet(sparse)
             PROVE  /\ Met(c, dense, sparse) \in Nat
                    /\ Met(c, dense, sparse) = Met(d, dense, sparse) => c = d
  OBVIOUS
<1>1. \A x : Ranked(x, dense) => Rank(x, dense) \in 1 .. Len(dense) /\ dense[Rank(x, dense)] = x
  BY DepthType, RankingFacts
<1>2. \A x : Ranked(x, sparse) => Rank(x, sparse) \in 1 .. Len(sparse) /\ sparse[Rank(x, sparse)] = x
  BY DepthType, RankingFacts
<1>3. /\ Ranked(c, dense) \/ Ranked(c, sparse)
      /\ Ranked(d, dense) \/ Ranked(d, sparse)
      /\ Len(dense) \in Nat /\ Len(sparse) \in Nat
  BY DepthType, RankingFacts
<1>4. \A x \in {c, d} :
          \/ /\ Ranked(x, dense) /\ Met(x, dense, sparse) = Rank(x, dense)
             /\ Rank(x, dense) \in 1 .. Len(dense) /\ dense[Rank(x, dense)] = x
          \/ /\ ~Ranked(x, dense) /\ Met(x, dense, sparse) = Len(dense) + Rank(x, sparse)
             /\ Rank(x, sparse) \in 1 .. Len(sparse) /\ sparse[Rank(x, sparse)] = x
  BY <1>1, <1>2, <1>3 DEF Met
<1>5. Met(c, dense, sparse) \in Nat
  BY <1>3, <1>4
<1>6. ASSUME Met(c, dense, sparse) = Met(d, dense, sparse) PROVE c = d
  <2>1. Ranked(c, dense) <=> Ranked(d, dense)
    BY <1>3, <1>4, <1>6
  <2>2. CASE Ranked(c, dense)
    BY <1>4, <1>6, <2>1, <2>2
  <2>3. CASE ~Ranked(c, dense)
    <3>1. Rank(c, sparse) = Rank(d, sparse)
      BY <1>3, <1>4, <1>6, <2>1, <2>3
    <3> QED BY <1>4, <2>1, <2>3, <3>1
  <2> QED BY <2>2, <2>3
<1> QED BY <1>5, <1>6

\* The fusion is the chunks of both searches by their place in the order of the scores.
LEMMA FusionPlaces ==
    ASSUME NEW dense \in Rankings(Depth), NEW sparse \in Rankings(Depth)
    PROVE  \E n \in Nat : \E place \in [ToSet(dense) \cup ToSet(sparse) -> 1 .. n] :
               /\ \A c, d \in ToSet(dense) \cup ToSet(sparse) :
                      /\ place[c] = place[d] => c = d
                      /\ Before(c, d, dense, sparse) => place[c] < place[d]
               /\ LET s == ReciprocalRankFusion(dense, sparse, RetrieveTopN) IN
                  /\ DOMAIN s = 1 .. (IF RetrieveTopN <= n THEN RetrieveTopN ELSE n)
                  /\ \A i \in DOMAIN s :
                         s[i] \in ToSet(dense) \cup ToSet(sparse) /\ place[s[i]] = i
<1> DEFINE S == ToSet(dense) \cup ToSet(sparse)
           before == {cd \in S \X S : Before(cd[1], cd[2], dense, sparse)}
           place == [c \in S |-> Cardinality({d \in S : Before(d, c, dense, sparse)}) + 1]
           n == Cardinality(S)
           sorted == [i \in 1 .. n |-> CHOOSE c \in S : place[c] = i]
<1>1. IsFiniteSet(S)
  BY DepthType, RankingFacts, FS_Union
<1>2. n \in Nat
  BY <1>1, FS_CardinalityType
<1>3. \A c, d \in S : /\ Fused(c, dense, sparse) \in Nat /\ Met(c, dense, sparse) \in Nat
                      /\ Met(c, dense, sparse) = Met(d, dense, sparse) => c = d
  BY FusedOrder, MetApart
<1>4. before \in SUBSET (S \X S) /\ \A c, d \in S : <<c, d>> \in before <=> Before(c, d, dense, sparse)
  OBVIOUS
<1> HIDE DEF S, before
<1>5. TotalOrder(before, S)
  BY <1>3, <1>4 DEF Before, TotalOrder
<1>6. /\ place \in [S -> 1 .. n]
      /\ \A c, d \in S : <<c, d>> \in before => place[c] < place[d]
      /\ \A i \in 1 .. n : \E c \in S : place[c] = i
  <2>1. place = Places(before, S)
    <3> SUFFICES ASSUME NEW c \in S
                 PROVE  {d \in S : Before(d, c, dense, sparse)} = {d \in S : <<d, c>> \in before}
      BY Zenon DEF Places
    <3> QED BY <1>4
  <2> HIDE DEF place
  <2> QED BY <1>1, <1>5, <2>1, PlacesAreFilled
<1>7. ReciprocalRankFusion(dense, sparse, RetrieveTopN) = UpTo(sorted, RetrieveTopN)
  BY DEF ReciprocalRankFusion, S
<1> HIDE DEF place
<1>8. \A i \in 1 .. n : sorted[i] \in S /\ place[sorted[i]] = i
  BY <1>6
<1>9. sorted \in Seq(S) /\ Len(sorted) = n
  BY <1>2, <1>8
<1> HIDE DEF sorted
<1>10. \A c, d \in S : /\ place[c] = place[d] => c = d
                       /\ Before(c, d, dense, sparse) => place[c] < place[d]
  <2> SUFFICES ASSUME NEW c \in S, NEW d \in S
               PROVE  /\ place[c] = place[d] => c = d
                      /\ Before(c, d, dense, sparse) => place[c] < place[d]
    OBVIOUS
  <2>1. place[c] \in Nat /\ place[d] \in Nat
    BY <1>2, <1>6
  <2>2. c # d => place[c] < place[d] \/ place[d] < place[c]
    BY <1>5, <1>6 DEF TotalOrder
  <2>3. Before(c, d, dense, sparse) => <<c, d>> \in before
    BY <1>4
  <2> QED BY <1>6, <2>1, <2>2, <2>3
<1> DEFINE kept == IF RetrieveTopN <= n THEN RetrieveTopN ELSE n
           s == UpTo(sorted, RetrieveTopN)
<1>11. kept \in 0 .. n /\ s = SubSeq(sorted, 1, kept)
  BY <1>2, <1>9 DEF UpTo, EvalAssumption
<1>12. DOMAIN s = 1 .. kept /\ \A i \in 1 .. kept : s[i] = sorted[i]
  <2> HIDE DEF kept, s
  <2> QED BY <1>2, <1>9, <1>11
<1>13. \A i \in DOMAIN s : s[i] \in S /\ place[s[i]] = i
  <2> HIDE DEF kept, s
  <2> QED BY <1>2, <1>8, <1>11, <1>12
<1> HIDE DEF n, s
<1> QED BY <1>2, <1>6, <1>7, <1>10, <1>12, <1>13 DEF S, s

LEMMA FusionKeepsOrder ==
    ASSUME NEW dense \in Rankings(Depth), NEW sparse \in Rankings(Depth),
           NEW c, NEW d, Above(c, d, <<dense, sparse>>),
           Ranked(d, ReciprocalRankFusion(dense, sparse, RetrieveTopN))
    PROVE  LET s == ReciprocalRankFusion(dense, sparse, RetrieveTopN)
           IN  Ranked(c, s) /\ Rank(c, s) < Rank(d, s)
<1> DEFINE S == ToSet(dense) \cup ToSet(sparse)
           s == ReciprocalRankFusion(dense, sparse, RetrieveTopN)
<1>a. PICK n \in Nat : \E place \in [S -> 1 .. n] :
          /\ \A x, y \in S :
                 /\ place[x] = place[y] => x = y
                 /\ Before(x, y, dense, sparse) => place[x] < place[y]
          /\ DOMAIN s = 1 .. (IF RetrieveTopN <= n THEN RetrieveTopN ELSE n)
          /\ \A i \in DOMAIN s : s[i] \in S /\ place[s[i]] = i
  BY FusionPlaces
<1>1. PICK place \in [S -> 1 .. n] :
          /\ \A x, y \in S :
                 /\ place[x] = place[y] => x = y
                 /\ Before(x, y, dense, sparse) => place[x] < place[y]
          /\ DOMAIN s = 1 .. (IF RetrieveTopN <= n THEN RetrieveTopN ELSE n)
          /\ \A i \in DOMAIN s : s[i] \in S /\ place[s[i]] = i
  BY <1>a
<1>2. c \in S /\ d \in S
  BY DepthType, RankingFacts DEF Above
<1>3. Before(c, d, dense, sparse)
  BY FusedOrder
<1> HIDE DEF s, S
<1>4. place[c] < place[d] /\ place[c] \in 1 .. n /\ place[d] \in 1 .. n
  BY <1>1, <1>2, <1>3
<1>5. \A x \in S : Ranked(x, s) <=> place[x] \in DOMAIN s
  BY <1>1 DEF Ranked
<1>6. \A x \in S : Ranked(x, s) => Rank(x, s) = place[x]
  BY <1>1 DEF Ranked, Rank
<1>7. place[d] \in DOMAIN s
  BY <1>2, <1>5 DEF s
<1>8. place[c] \in DOMAIN s
  BY <1>1, <1>4, <1>7 DEF EvalAssumption
<1> QED BY <1>2, <1>4, <1>5, <1>6, <1>7, <1>8 DEF s

\* What the retriever found is the fusion of the two rankings, or the one there is.
Consistent ==
    \/ hits = <<<<>>, <<>>>> /\ candidates = <<>>
    \/ \E mode \in {"dense", "sparse", "hybrid"} :
           hits \in Searches(mode) /\ candidates = Retrieved(mode, hits)

LEMMA ConsistentKept == EvalInv /\ Consistent /\ [Next]_vars => Consistent'
<1> SUFFICES ASSUME EvalInv, Consistent, [Next]_vars PROVE Consistent'
  OBVIOUS
<1>1. CASE UNCHANGED <<hits, candidates>>
  BY <1>1 DEF Consistent
<1>2. CASE Retrieve
  <2>1. settings.mode \in {"dense", "sparse", "hybrid"}
    BY DEF EvalInv, Types, Legal
  <2> QED BY <1>2, <2>1 DEF Retrieve, Consistent
<1>3. CASE hits' = <<<<>>, <<>>>> /\ candidates' = <<>>
  BY <1>3 DEF Consistent
<1> QED
  BY <1>1, <1>2, <1>3
  DEF Next, vars, query, Main, Enter, Leave, Exit, Raise, Rerank, Rewrite, Score, Persist

\* With one search there is one ranking, and it is kept as it is.
LEMMA OneRanking ==
    ASSUME NEW s \in Rankings(RetrieveTopN)
    PROVE  s \o <<>> = s /\ <<>> \o s = s /\ \A c : ~Ranked(c, <<>>)
<1>1. s \in Seq(Chunks)
  BY RankingFacts DEF EvalAssumption
<1> QED BY <1>1 DEF Ranked

\* A chunk no search ranks below another comes before it, and the other is not kept
\* without it, for any weights that are not negative and any constant (reciprocal_rank_fusion).
THEOREM FusionIsFair == Spec => []FusionRespectsDominance
<1>1. Consistent => FusionRespectsDominance
  <2> SUFFICES ASSUME Consistent, NEW c \in Chunks, NEW d \in Chunks,
                      Above(c, d, hits), Ranked(d, candidates)
               PROVE  Ranked(c, candidates) /\ Rank(c, candidates) < Rank(d, candidates)
    BY DEF FusionRespectsDominance, Dominates, Above
  <2>1. CASE hits = <<<<>>, <<>>>> /\ candidates = <<>>
    BY <2>1 DEF Ranked
  <2>2. CASE hits \in Searches("dense") /\ candidates = Retrieved("dense", hits)
    <3>1. PICK s \in Rankings(RetrieveTopN) : hits = <<s, <<>>>>
      BY <2>2 DEF Searches
    <3>2. candidates = s /\ \A x : ~Ranked(x, <<>>)
      BY <2>2, <3>1, OneRanking DEF Retrieved
    <3> QED BY <3>1, <3>2 DEF Above
  <2>3. CASE hits \in Searches("sparse") /\ candidates = Retrieved("sparse", hits)
    <3>1. PICK s \in Rankings(RetrieveTopN) : hits = <<<<>>, s>>
      BY <2>3 DEF Searches
    <3>2. candidates = s /\ \A x : ~Ranked(x, <<>>)
      BY <2>3, <3>1, OneRanking DEF Retrieved
    <3> QED BY <3>1, <3>2 DEF Above
  <2>4. CASE hits \in Searches("hybrid") /\ candidates = Retrieved("hybrid", hits)
    <3>1. PICK dense \in Rankings(Depth), sparse \in Rankings(Depth) : hits = <<dense, sparse>>
      BY <2>4 DEF Searches
    <3>2. candidates = ReciprocalRankFusion(dense, sparse, RetrieveTopN)
      BY <2>4, <3>1 DEF Retrieved
    <3> QED BY <3>1, <3>2, FusionKeepsOrder
  <2> QED BY <2>1, <2>2, <2>3, <2>4 DEF Consistent
<1>2. Init => Consistent
  BY DEF Init, Consistent
<1> QED BY <1>1, <1>2, InitEval, NextEval, ConsistentKept, PTL DEF Spec
=============================================================================

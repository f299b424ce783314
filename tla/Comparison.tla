----------------------------- MODULE Comparison -----------------------------
(***************************************************************************)
(* benchmark.py, comparison.py and the compare command of cli.py: every    *)
(* scorer decides every row of an input file, with its candidates as given *)
(* and reversed; the rows go to files that are read back, paired and       *)
(* reported.  Comparisons are run one after another into one directory and *)
(* may be interrupted; the input file may be edited while one runs.        *)
(***************************************************************************)
EXTENDS Schema, GeneratedJson, Statistics, Totals

CONSTANTS
  Inputs,           \* contents of the input file, each a sequence of rows
  Revisions(_),     \* contents that may be saved over one of them
  Picks(_, _, _), \* scorer key, row, reversed: a candidate's id, None or Error
  Durations(_),     \* scorer key: how long a trial may take
  Rounds,           \* pairs of warm-up and measured rounds
  Error, NoLabel, NoFile, Broken,
  MaxRuns, MaxEdits

ASSUME ComparisonAssumption ==
  /\ Rounds \subseteq Nat \X Nat
  /\ MaxRuns \in Nat /\ MaxEdits \in Nat
  /\ \A input \in Inputs : Revisions(input) \subseteq Inputs

VARIABLES
  input,      \* the input file
  files,      \* the row file of each benchmark
  json, markdown,  \* comparison.json and comparison.md
  pc,         \* where the comparison is: see Locations
  nth,        \* the benchmark being run, of TotalBenchmarks
  rows,       \* of the input, as loaded
  results,    \* of this benchmark, in memory until all rows are scored
  summaries,  \* of the benchmarks done
  records,    \* read back from their files
  rounds,     \* warm-up and measured
  trials,     \* performance trials done, warm-up included
  served,     \* decisions the backend has counted since its metrics were reset
  launches, edits

memory == <<nth, rows, results, summaries, records, rounds, trials, served>>
disk == <<files, json, markdown>>
vars == <<input, disk, pc, memory, launches, edits>>

TotalBenchmarks == 2 * Len(ScorerKeys)
Primary == "semantic"
KeyOf(n) == ScorerKeys[(n + 1) \div 2]
Reversed(n) == n % 2 = 0
Nth(key, reversed) == CHOOSE n \in 1 .. TotalBenchmarks : KeyOf(n) = key /\ Reversed(n) = reversed

Init ==
  /\ input \in Inputs
  /\ files = [n \in 1 .. TotalBenchmarks |-> NoFile] /\ json = NoFile /\ markdown = NoFile
  /\ pc = "idle" /\ nth = 1 /\ rows = <<>> /\ results = <<>> /\ summaries = <<>>
  /\ records = <<>> /\ rounds = <<0, 0>> /\ trials = <<>> /\ served = 0
  /\ launches = 0 /\ edits = 0

-----------------------------------------------------------------------------
GoTo(l) == pc' = l /\ UNCHANGED <<input, launches, edits>>

(* The process ends; main() closes the backend, nothing else is cleaned up. *)
Exit ==
  /\ GoTo("idle")
  /\ nth' = 1 /\ rows' = <<>> /\ results' = <<>> /\ summaries' = <<>>
  /\ records' = <<>> /\ rounds' = <<0, 0>> /\ trials' = <<>> /\ served' = 0

Fail == Exit /\ UNCHANGED disk

Launch(r) ==
  /\ pc = "idle" /\ launches < MaxRuns
  /\ launches' = launches + 1
  /\ IF r[1] > 0 /\ r[2] = 0 THEN UNCHANGED <<pc, rounds>> ELSE pc' = "load" /\ rounds' = r
  /\ UNCHANGED <<input, disk, nth, rows, results, summaries, records, trials, served, edits>>

-----------------------------------------------------------------------------
(* run_benchmark *)

Readable == input # <<>> /\ NotJson \notin ToSet(input)

LoadRows ==
  /\ pc = "load" /\ Readable
  /\ rows' = input /\ results' = <<>>
  /\ GoTo("score")
  /\ UNCHANGED <<disk, nth, summaries, records, rounds, trials, served>>

RefuseInput == pc \in {"load", "requests"} /\ ~Readable /\ Fail

Row == rows[Len(results) + 1]
RowName == <<"row-1", "row-2", "row-3", "row-4", "row-5">>
ExampleId == IF Row.id = NoId THEN RowName[Len(results) + 1] ELSE Row.id
RowAccepted ==
  /\ Row.label # NoLabel /\ RequestAccepted(Row)
  /\ \A i \in DOMAIN results : results[i].id # ExampleId

Scoring == pc = "score" /\ Len(results) < Len(rows)

RefuseRow == Scoring /\ ~RowAccepted /\ Fail

ScoreRow ==
  /\ Scoring /\ RowAccepted
  /\ \E choice \in Picks(KeyOf(nth), Row, Reversed(nth)) \ {Error} :
       results' = Append(results, [id |-> ExampleId, family |-> Row.family,
                                   choice |-> choice, correct |-> choice = Row.label])
  /\ served' = served + 1
  /\ GoTo("score")
  /\ UNCHANGED <<disk, nth, rows, summaries, records, rounds, trials>>

ScorerRaises ==
  Scoring /\ RowAccepted /\ Error \in Picks(KeyOf(nth), Row, Reversed(nth)) /\ Fail

(* Faulty: opens the file to append to it.                                 *)
OpenToAppend ==
  /\ pc = "score" /\ Len(results) = Len(rows)
  /\ files' = [files EXCEPT ![nth] =
                [run |-> launches, records |-> IF files[nth] = NoFile THEN <<>> ELSE files[nth].records]]
  /\ GoTo("write")
  /\ UNCHANGED <<json, markdown, memory>>

OpenOutput ==
  /\ pc = "score" /\ Len(results) = Len(rows)
  /\ files' = [files EXCEPT ![nth] = [run |-> launches, records |-> <<>>]]
  /\ GoTo("write")
  /\ UNCHANGED <<json, markdown, memory>>

Counts(all, own) ==
  [examples |-> Cardinality(own), correct |-> Cardinality({i \in own : all[i].correct}),
   invalid |-> Cardinality({i \in own : all[i].choice = None})]
Tally(all) == Counts(all, DOMAIN all)
Summary ==
  [totals |-> Tally(results), digest |-> input,
   families |-> [f \in {results[i].family : i \in DOMAIN results} |->
                   Counts(results, {i \in DOMAIN results : results[i].family = f})]]

WriteRows ==
  /\ pc = "write"
  /\ files' = [files EXCEPT ![nth].records = @ \o results]
  /\ summaries' = Append(summaries, Summary)
  /\ nth' = IF Reversed(nth) THEN nth ELSE nth + 1
  /\ GoTo(IF Reversed(nth) THEN "reload" ELSE "load")
  /\ UNCHANGED <<json, markdown, rows, results, records, rounds, trials, served>>

-----------------------------------------------------------------------------
(* run_comparison: the files of a scorer are read back and compared        *)

ById(lines) ==
  [id \in {lines[i].id : i \in DOMAIN lines} |-> lines[CHOOSE i \in DOMAIN lines : lines[i].id = id]]
Read(n) == ById(files[n].records)

Ids(n) == DOMAIN records[n]
Reload ==
  /\ pc = "reload" /\ DOMAIN Read(nth - 1) = DOMAIN Read(nth)
  /\ records' = records \o <<Read(nth - 1), Read(nth)>>
  /\ nth' = IF nth = TotalBenchmarks THEN nth ELSE nth + 1
  /\ GoTo(IF nth = TotalBenchmarks THEN "pair" ELSE "load")
  /\ UNCHANGED <<disk, rows, results, summaries, rounds, trials, served>>

OrdersDiffer == pc = "reload" /\ DOMAIN Read(nth - 1) # DOMAIN Read(nth) /\ Fail

Where(left, right, l, r) ==
  Cardinality({id \in DOMAIN left : left[id].correct = l /\ right[id].correct = r})

(* Faulty: leaves out the rows that one of the scorers gave no choice for. *)
PairedWhenValid(left, right) ==
  [left_only |-> Cardinality({id \in DOMAIN left : /\ left[id].correct /\ ~right[id].correct
                                                   /\ right[id].choice # None}),
   right_only |-> Where(left, right, FALSE, TRUE),
   both |-> Where(left, right, TRUE, TRUE), neither |-> Where(left, right, FALSE, FALSE)]

Paired(left, right) ==
  [left_only |-> Where(left, right, TRUE, FALSE),
   right_only |-> Where(left, right, FALSE, TRUE),
   both |-> Where(left, right, TRUE, TRUE), neither |-> Where(left, right, FALSE, FALSE)]

OrderSensitivity(left, right) ==
  [changes |-> Cardinality({id \in DOMAIN left : left[id].choice # right[id].choice}),
   regressions |-> Where(left, right, TRUE, FALSE),
   recoveries |-> Where(left, right, FALSE, TRUE)]

Baselines == ToSet(ScorerKeys) \ {Primary}
IdsAgree ==
  \A b \in Baselines, reversed \in BOOLEAN : Ids(Nth(Primary, reversed)) = Ids(Nth(b, reversed))

Pair ==
  /\ pc = "pair" /\ IdsAgree
  /\ GoTo(IF rounds[2] = 0 THEN "json" ELSE "requests")
  /\ UNCHANGED <<disk, memory>>

PairsDiffer == pc = "pair" /\ ~IdsAgree /\ Fail

-----------------------------------------------------------------------------
(* _run_performance_trials: the input is read again, for its requests only *)

LoadRequests ==
  /\ pc = "requests" /\ Readable
  /\ \A i \in DOMAIN input : RequestAccepted(input[i])
  /\ rows' = input
  /\ GoTo("trial")
  /\ UNCHANGED <<disk, nth, results, summaries, records, rounds, trials, served>>

RefuseRequests ==
  pc = "requests" /\ Readable /\ (\E i \in DOMAIN input : ~RequestAccepted(input[i])) /\ Fail

AllRounds == rounds[1] + rounds[2]
Round == Len(trials) \div Len(ScorerKeys)
Position == (Len(trials) % Len(ScorerKeys)) + 1
InTrials == pc = "trial" /\ Round < AllRounds

(* Faulty: the backend's metrics go on from the trial before. *)
TrialUncleared ==
  /\ InTrials
  /\ \E d \in Durations(Rotate(Round)[Position]) :
       trials' = Append(trials, [key |-> Rotate(Round)[Position], position |-> Position,
                                 duration |-> d, served |-> served + Len(rows)])
  /\ served' = served + Len(rows)
  /\ GoTo("trial")
  /\ UNCHANGED <<disk, nth, rows, results, summaries, records, rounds>>

Trial ==
  /\ InTrials
  /\ \E d \in Durations(Rotate(Round)[Position]) :
       trials' = Append(trials, [key |-> Rotate(Round)[Position], position |-> Position,
                                 duration |-> d, served |-> Len(rows)])
  /\ served' = Len(rows)
  /\ GoTo("trial")
  /\ UNCHANGED <<disk, nth, rows, results, summaries, records, rounds>>

TrialRaises ==
  /\ InTrials
  /\ \E i \in DOMAIN rows : Error \in Picks(Rotate(Round)[Position], rows[i], FALSE)
  /\ Fail

EndTrials == pc = "trial" /\ Round = AllRounds /\ GoTo("json") /\ UNCHANGED <<disk, memory>>

-----------------------------------------------------------------------------
(* The report *)

Measured == SubSeq(trials, rounds[1] * Len(ScorerKeys) + 1, Len(trials))
TimesOf(key) ==
  LET own == SelectSeq(Measured, LAMBDA t : t.key = key) IN [i \in DOMAIN own |-> own[i].duration]
Performance ==
  [trials |-> Measured, balanced |-> rounds[2] % Len(ScorerKeys) = 0,
   times |-> [k \in ToSet(ScorerKeys) |->
                IF Measured = <<>> THEN <<>>
                ELSE [p50 |-> Percentile(TimesOf(k), 50), p95 |-> Percentile(TimesOf(k), 95)]]]

Report ==
  LET tables == [b \in Baselines |-> [reversed \in BOOLEAN |->
                   Paired(records[Nth(Primary, reversed)], records[Nth(b, reversed)])]]
  IN [run |-> launches, digest |-> summaries[1].digest, summaries |-> summaries,
      order |-> [k \in ToSet(ScorerKeys) |->
                   OrderSensitivity(records[Nth(k, FALSE)], records[Nth(k, TRUE)])],
      paired |-> tables,
      pvalue |-> [b \in Baselines |-> [reversed \in BOOLEAN |->
                    PValue(tables[b][reversed].left_only, tables[b][reversed].right_only)]],
      performance |-> Performance]

WriteJson ==
  /\ pc = "json"
  /\ json' = Report
  /\ GoTo("md") /\ UNCHANGED <<files, markdown, memory>>

WriteMarkdown ==
  /\ pc = "md"
  /\ markdown' = json
  /\ Exit /\ UNCHANGED <<files, json>>

-----------------------------------------------------------------------------
(* The process is killed; a file being written may be left incomplete.     *)
Interrupt ==
  /\ pc # "idle" /\ Exit
  /\ \/ UNCHANGED disk
     \/ /\ pc = "write"
        /\ \E n \in 1 .. Len(results) - 1 :
             files' = [files EXCEPT ![nth].records = @ \o SubSeq(results, 1, n)]
        /\ UNCHANGED <<json, markdown>>
     \/ pc = "json" /\ json' = Broken /\ UNCHANGED <<files, markdown>>
     \/ pc = "md" /\ markdown' = Broken /\ UNCHANGED <<files, json>>

Edit ==
  /\ edits < MaxEdits /\ edits' = edits + 1
  /\ input' \in Revisions(input)
  /\ UNCHANGED <<disk, pc, memory, launches>>

Next ==
  \/ \E r \in Rounds : Launch(r)
  \/ LoadRows \/ RefuseInput \/ RefuseRow \/ ScoreRow \/ ScorerRaises \/ OpenOutput \/ WriteRows
  \/ Reload \/ OrdersDiffer \/ Pair \/ PairsDiffer
  \/ LoadRequests \/ RefuseRequests \/ Trial \/ TrialRaises \/ EndTrials
  \/ WriteJson \/ WriteMarkdown \/ Interrupt \/ Edit

Spec == Init /\ [][Next]_vars

-----------------------------------------------------------------------------
(* Properties *)

Reported == json \notin {NoFile, Broken}
TotalsOf(key, reversed) == json.summaries[Nth(key, reversed)].totals

TableAddsUp(table, own, other) ==
  /\ table.both + table.left_only = own.correct
  /\ table.both + table.right_only = other.correct
  /\ table.both + table.left_only + table.right_only + table.neither = own.examples
  /\ own.examples = other.examples

FamiliesAddUp(summary) ==
  LET names == SetToSeq(DOMAIN summary.families)
  IN \A field \in {"examples", "correct", "invalid"} :
       summary.totals[field] = Total([k \in DOMAIN names |-> summary.families[names[k]][field]])

(* The tables of a report, counted from files read back, agree with its    *)
(* summaries, counted while scoring, and with the split by family; even    *)
(* when the input was edited between two benchmarks.                       *)
ReportAddsUp ==
  Reported =>
    /\ \A b \in Baselines, reversed \in BOOLEAN :
         TableAddsUp(json.paired[b][reversed], TotalsOf(Primary, reversed), TotalsOf(b, reversed))
    /\ \A k \in ToSet(ScorerKeys) :
         json.order[k].regressions - json.order[k].recoveries
           = TotalsOf(k, FALSE).correct - TotalsOf(k, TRUE).correct
    /\ \A n \in 1 .. TotalBenchmarks : FamiliesAddUp(json.summaries[n])

(* The p-value of a table is the share of all ways to divide its           *)
(* discordant rows that are at least as one-sided, the median is one, and  *)
(* percentiles stay in order within the times measured.                    *)
StatisticsExact ==
  Reported =>
    /\ \A b \in Baselines, reversed \in BOOLEAN :
         LET table == json.paired[b][reversed]
             discordant == 1 .. table.left_only + table.right_only
             Lopsided(S) == {Cardinality(S), Cardinality(discordant \ S)}
         IN json.pvalue[b][reversed] =
              Cardinality({S \in SUBSET discordant :
                             Min(Lopsided(S)) <= Min({table.left_only, table.right_only})})
    /\ \A k \in ToSet(ScorerKeys) :
         LET own == SelectSeq(json.performance.trials, LAMBDA t : t.key = k)
             values == [i \in DOMAIN own |-> own[i].duration]
             below(x) == Cardinality({i \in DOMAIN values : 100 * values[i] <= x})
             above(x) == Cardinality({i \in DOMAIN values : 100 * values[i] >= x})
             times == json.performance.times[k]
         IN values # <<>> =>
              /\ 2 * below(times.p50) >= Len(values) /\ 2 * above(times.p50) >= Len(values)
              /\ 100 * below(times.p95) >= 95 * (Len(values) - 1)
              /\ 100 * above(times.p95) >= 5 * (Len(values) - 1)
              /\ times.p50 <= times.p95

HowMany(all, Test(_)) == Cardinality({i \in DOMAIN all : Test(all[i])})

(* Trials can be compared: each is charged for its own requests only; all  *)
(* scorers have as many, and a report calls itself balanced exactly when   *)
(* each scorer had each turn equally often, warm-up or not.                *)
TrialsComparable ==
  Reported =>
    LET all == json.performance.trials
        Turns(k, p) == HowMany(all, LAMBDA t : t.key = k /\ t.position = p)
        Even == \A k \in ToSet(ScorerKeys), p, q \in DOMAIN ScorerKeys : Turns(k, p) = Turns(k, q)
    IN /\ json.performance.balanced <=> Even
       /\ \A i, j \in DOMAIN all : all[i].served = all[j].served
       /\ \A k, l \in ToSet(ScorerKeys) :
            HowMany(all, LAMBDA t : t.key = k) = HowMany(all, LAMBDA t : t.key = l)

(* No row file in the directory is older than the report beside it: what a *)
(* report says is overwritten by later rows, or is what the files hold.    *)
ReportNotNewerThanRows ==
  Reported => \A n \in 1 .. TotalBenchmarks :
    /\ files[n] # NoFile /\ files[n].run >= json.run
    /\ files[n].run = json.run =>
         Tally(files[n].records) = json.summaries[n].totals
-----------------------------------------------------------------------------
(* Why they hold: what is true of a comparison in progress                 *)

IsSeq(s) == s \in Seq(ToSet(s))
Done == Len(summaries)

(* A summary is made of every benchmark that has been written.             *)
StageOK ==
  /\ pc \in {"idle", "load", "score", "write", "reload", "pair", "requests", "trial", "json", "md"}
  /\ nth \in 1 .. TotalBenchmarks
  /\ IsSeq(summaries) /\ IsSeq(results)
  /\ pc = "idle" => nth = 1
  /\ pc \in {"idle", "load", "score", "write"} => Done = nth - 1
  /\ pc = "reload" => Done = nth
  /\ pc \in {"pair", "requests", "trial", "json", "md"} => Done = TotalBenchmarks

(* Its file was written by this comparison and counts the same.            *)
FilesOK ==
  /\ DOMAIN files = 1 .. TotalBenchmarks
  /\ \A n \in DOMAIN summaries :
       /\ files[n] # NoFile /\ files[n].run = launches
       /\ Tally(files[n].records) = summaries[n].totals
  /\ pc = "write" => files[nth] = [run |-> launches, records |-> <<>>]

(* A report is of this comparison only once this comparison has made it.   *)
ReportOK ==
  /\ launches \in Nat
  /\ Reported => /\ json.run \in Nat /\ json.run <= launches
                 /\ pc \notin {"idle", "md"} => json.run < launches
  /\ ReportNotNewerThanRows

ReportInv == StageOK /\ FilesOK /\ ReportOK

(* Rows that were scored: each is right or wrong, and none has the id of   *)
(* another.                                                                *)
RowsOK(all) ==
  /\ IsSeq(all)
  /\ \A i \in DOMAIN all : all[i].correct \in BOOLEAN
  /\ \A i, j \in DOMAIN all : all[i].id = all[j].id => i = j

(* Each benchmark's rows stand in its file as they were summed up.         *)
SummariesOK ==
  \A n \in DOMAIN summaries : RowsOK(files[n].records) /\ FamiliesAddUp(summaries[n])

(* Files are read back in pairs, and hold what was read ever after.        *)
RecordsOK ==
  /\ IsSeq(records)
  /\ Len(records) = IF pc \in {"pair", "requests", "trial", "json", "md"} THEN TotalBenchmarks
                    ELSE 2 * ((nth - 1) \div 2)
  /\ pc = "reload" => Reversed(nth)
  /\ \A n \in DOMAIN records :
       /\ n \in DOMAIN summaries /\ records[n] = Read(n)
       /\ Reversed(n) => Ids(n - 1) = Ids(n)
  /\ pc \in {"requests", "trial", "json"} => IdsAgree

RowsInv == RowsOK(results) /\ SummariesOK /\ RecordsOK /\ ReportAddsUp

(* The i-th trial after some rounds have passed.                           *)
IsTrial(t, passed, i) ==
  LET p == ((i - 1) % Len(ScorerKeys)) + 1
  IN t.position = p /\ t.key = Rotate(passed + (i - 1) \div Len(ScorerKeys))[p]

TrialsInv ==
  /\ IsSeq(trials)
  /\ pc # "idle" => /\ rounds \in Nat \X Nat
                    /\ rounds[1] > 0 => rounds[2] > 0
  /\ pc \in {"idle", "load", "score", "write", "reload", "pair", "requests"} => trials = <<>>
  /\ \A i \in DOMAIN trials : IsTrial(trials[i], 0, i) /\ trials[i].served = Len(rows)
  /\ pc = "trial" => Len(trials) <= Len(ScorerKeys) * AllRounds
  /\ pc = "json" => Len(trials) = Len(ScorerKeys) * AllRounds
  /\ TrialsComparable
=============================================================================

-------------------------- MODULE ComparisonProofs --------------------------
(***************************************************************************)
(* Proofs about Comparison, for all inputs, scorers, rounds, runs, edits   *)
(* and interruptions.                                                      *)
(***************************************************************************)
EXTENDS Comparison, TotalsProofs, FiniteSetTheorems, SequenceTheorems

-----------------------------------------------------------------------------
(* Sequences *)

(* What is a sequence of anything is a sequence of its elements.           *)
LEMMA SeqIsSeq == ASSUME NEW T, NEW s \in Seq(T) PROVE IsSeq(s)
<1>1. s \in [1 .. Len(s) -> T] /\ Len(s) \in Nat
  OBVIOUS
<1>2. s \in [1 .. Len(s) -> ToSet(s)]
  BY <1>1 DEF ToSet
<1> HIDE DEF IsSeq
<1>3. s \in Seq(ToSet(s))
  BY <1>1, <1>2, SeqDef
<1> QED BY <1>3 DEF IsSeq

(* A sequence stays one when something is appended.                        *)
LEMMA AppendIsSeq ==
  ASSUME NEW s, IsSeq(s), NEW x
  PROVE  /\ IsSeq(Append(s, x)) /\ Len(Append(s, x)) = Len(s) + 1
         /\ DOMAIN Append(s, x) = 1 .. Len(s) + 1
         /\ DOMAIN s = 1 .. Len(s) /\ Len(s) \in Nat
         /\ \A i \in 1 .. Len(s) : Append(s, x)[i] = s[i]
         /\ Append(s, x)[Len(s) + 1] = x
<1> DEFINE S == ToSet(s)
           T == S \cup {x}
           a == Append(s, x)
<1>1. s \in Seq(T) /\ x \in T
  <2>1. s \in Seq(S)
    BY DEF IsSeq
  <2> HIDE DEF S
  <2> QED BY <2>1
<1> HIDE DEF T
<1>2. /\ a \in Seq(T) /\ Len(a) = Len(s) + 1 /\ DOMAIN a = 1 .. Len(s) + 1
      /\ DOMAIN s = 1 .. Len(s) /\ Len(s) \in Nat
      /\ \A i \in 1 .. Len(s) : a[i] = s[i]
      /\ a[Len(s) + 1] = x
  BY <1>1
<1>3. IsSeq(a)
  BY <1>2, SeqIsSeq
<1> QED BY <1>2, <1>3

(* There are eight benchmarks.                                             *)
LEMMA Eight == Len(ScorerKeys) = 4 /\ TotalBenchmarks = 8
BY DEF ScorerKeys, TotalBenchmarks

-----------------------------------------------------------------------------
(* The report and the row files *)

(* What stands for a missing row file is no row file.                      *)
NoFileIsNoRows == \A run, lines : [run |-> run, records |-> lines] # NoFile

(* What the property says depends on the directory only.                   *)
LEMMA SameDirectory ==
  ASSUME ReportNotNewerThanRows, UNCHANGED <<files, json>>
  PROVE  ReportNotNewerThanRows'
<1>1. files' = files /\ json' = json
  OBVIOUS
<1> QED BY <1>1 DEF ReportNotNewerThanRows, Reported, Tally, Counts

(* Steps that touch neither a file nor what is known of the benchmarks.    *)
LEMMA QuietSteps ==
  ASSUME ReportInv, UNCHANGED <<disk, launches, nth, summaries>>, IsSeq(results)',
         pc' \in {"load", "score", "requests", "trial", "json"},
         pc \notin {"idle", "md"},
         pc' \in {"load", "score"} => Done = nth - 1,
         pc' \in {"requests", "trial", "json"} => Done = TotalBenchmarks
  PROVE  ReportInv'
<1>1. /\ files' = files /\ json' = json /\ launches' = launches /\ nth' = nth
      /\ summaries' = summaries
  BY DEF disk
<1>2. StageOK'
  BY <1>1 DEF ReportInv, StageOK, Done, IsSeq, TotalBenchmarks
<1>3. FilesOK'
  BY <1>1 DEF ReportInv, FilesOK, Tally, Counts, TotalBenchmarks
<1>4. ReportNotNewerThanRows'
  BY <1>1, SameDirectory DEF ReportInv, ReportOK
<1>5. ReportOK'
  BY <1>1, <1>4 DEF ReportInv, ReportOK, Reported
<1> QED BY <1>2, <1>3, <1>5 DEF ReportInv

(* The end of a process keeps the directory and forgets the rest.          *)
LEMMA ExitKeeps ==
  ASSUME ReportInv, Exit, DOMAIN files' = 1 .. TotalBenchmarks, ReportNotNewerThanRows',
         Reported' => json'.run \in Nat /\ json'.run <= launches
  PROVE  ReportInv'
<1>1. /\ pc' = "idle" /\ launches' = launches /\ nth' = 1 /\ summaries' = <<>> /\ results' = <<>>
  BY DEF Exit, GoTo
<1>2. IsSeq(<<>>) /\ Len(<<>>) = 0 /\ DOMAIN <<>> = {}
  BY DEF IsSeq
<1>3. StageOK'
  <2>1. IsSeq(summaries') /\ IsSeq(results') /\ Len(summaries') = 0
    BY <1>1, <1>2
  <2>2. 1 \in 1 .. TotalBenchmarks /\ TotalBenchmarks' = TotalBenchmarks
    BY Eight DEF TotalBenchmarks
  <2> QED BY <1>1, <2>1, <2>2 DEF StageOK, Done, IsSeq
<1>4. FilesOK'
  BY <1>1, <1>2 DEF FilesOK, TotalBenchmarks
<1>5. ReportOK'
  BY <1>1 DEF ReportInv, ReportOK
<1> QED BY <1>3, <1>4, <1>5 DEF ReportInv

(* A failure is such an end.                                               *)
LEMMA FailKeeps ==
  ASSUME ReportInv, Fail PROVE ReportInv'
<1>1. Exit /\ files' = files /\ json' = json
  BY DEF Fail, disk
<1>2. ReportNotNewerThanRows'
  BY <1>1, SameDirectory DEF ReportInv, ReportOK
<1>3. DOMAIN files' = 1 .. TotalBenchmarks
  BY <1>1 DEF ReportInv, FilesOK
<1>4. Reported' => json'.run \in Nat /\ json'.run <= launches
  BY <1>1 DEF ReportInv, ReportOK, Reported
<1> QED BY <1>1, <1>2, <1>3, <1>4, ExitKeeps

(* After a launch no report is of the current comparison.                  *)
LEMMA LaunchKeeps ==
  ASSUME ReportInv, NEW r \in Rounds, Launch(r) PROVE ReportInv'
<1>1. /\ pc = "idle" /\ pc' \in {"idle", "load"} /\ launches' = launches + 1
      /\ files' = files /\ json' = json /\ nth' = nth /\ summaries' = summaries
      /\ results' = results
  BY DEF Launch, disk
<1>2. DOMAIN summaries = {}
  <2>1. IsSeq(summaries) /\ Len(summaries) = 0
    BY <1>1 DEF ReportInv, StageOK, Done
  <2> QED BY <2>1 DEF IsSeq
<1>3. StageOK'
  BY <1>1 DEF ReportInv, StageOK, Done, IsSeq, TotalBenchmarks
<1>4. FilesOK'
  BY <1>1, <1>2 DEF ReportInv, FilesOK, TotalBenchmarks
<1>5. ReportNotNewerThanRows'
  BY <1>1, SameDirectory DEF ReportInv, ReportOK
<1>6. ReportOK'
  BY <1>1, <1>5 DEF ReportInv, ReportOK, Reported
<1> QED BY <1>3, <1>4, <1>6 DEF ReportInv

(* Results are kept in memory only.                                        *)
LEMMA ScoreRowKeeps ==
  ASSUME ReportInv, ScoreRow PROVE ReportInv'
<1>1. PICK x : results' = Append(results, x)
  BY DEF ScoreRow
<1>2. IsSeq(results')
  BY <1>1, AppendIsSeq DEF ReportInv, StageOK
<1>3. /\ pc = "score" /\ pc' = "score" /\ UNCHANGED <<disk, launches, nth, summaries>>
  BY DEF ScoreRow, Scoring, GoTo
<1>4. Done = nth - 1
  BY <1>3 DEF ReportInv, StageOK
<1>5. IsSeq(results)'
  BY <1>2 DEF IsSeq
<1> QED BY <1>3, <1>4, <1>5, QuietSteps

(* While rows are written, any report there is is older.                   *)
LEMMA OlderReport ==
  ASSUME ReportInv, pc \in {"score", "write"}, files'[nth] # NoFile, files'[nth].run = launches,
         \A n \in 1 .. TotalBenchmarks : n # nth => files'[n] = files[n], json' = json
  PROVE  ReportNotNewerThanRows'
<1> SUFFICES ASSUME Reported, NEW n \in 1 .. TotalBenchmarks
             PROVE  /\ files'[n] # NoFile /\ files'[n].run >= json.run
                    /\ files'[n].run = json.run =>
                         Tally(files'[n].records) = json.summaries[n].totals
  BY DEF ReportNotNewerThanRows, Reported, TotalBenchmarks, Tally, Counts
<1>1. CASE n = nth
  <2>1. json.run \in Nat /\ launches \in Nat /\ json.run < launches
    BY DEF ReportInv, ReportOK
  <2>2. files'[n] # NoFile /\ files'[n].run >= json.run /\ files'[n].run # json.run
    BY <1>1, <2>1
  <2> QED BY <2>2
<1>2. CASE n # nth
  <2>1. files'[n] = files[n]
    BY <1>2
  <2> QED BY <2>1 DEF ReportInv, ReportOK, ReportNotNewerThanRows
<1> QED BY <1>1, <1>2

(* Opening a row file empties it: whatever report there is, is older now.   *)
LEMMA OpenOutputKeeps ==
  ASSUME ReportInv, NoFileIsNoRows, OpenOutput PROVE ReportInv'
<1> DEFINE f == [run |-> launches, records |-> <<>>]
<1>1. /\ pc = "score" /\ pc' = "write" /\ launches' = launches /\ json' = json
      /\ files' = [files EXCEPT ![nth] = f]
      /\ nth' = nth /\ summaries' = summaries /\ results' = results
  BY DEF OpenOutput, GoTo, memory
<1>2. f # NoFile /\ f.run = launches
  BY DEF NoFileIsNoRows
<1>3. /\ nth \in 1 .. TotalBenchmarks /\ DOMAIN files = 1 .. TotalBenchmarks
      /\ IsSeq(summaries) /\ Len(summaries) = nth - 1
  BY <1>1 DEF ReportInv, StageOK, FilesOK, Done
<1>4. StageOK'
  BY <1>1 DEF ReportInv, StageOK, Done, IsSeq, TotalBenchmarks
<1>5. /\ DOMAIN files' = 1 .. TotalBenchmarks /\ files'[nth] = f
      /\ \A n \in 1 .. TotalBenchmarks : n # nth => files'[n] = files[n]
  BY <1>1, <1>3
<1> HIDE DEF f
<1>6. \A n \in DOMAIN summaries : n \in 1 .. TotalBenchmarks /\ n # nth
  <2>1. DOMAIN summaries = 1 .. nth - 1
    BY <1>3 DEF IsSeq
  <2> QED BY <1>3, <2>1, Eight
<1>7. FilesOK'
  <2>1. ASSUME NEW n \in DOMAIN summaries
        PROVE  /\ files'[n] # NoFile /\ files'[n].run = launches'
               /\ Tally(files'[n].records) = summaries'[n].totals
    <3>1. files'[n] = files[n] /\ summaries'[n] = summaries[n]
      BY <1>1, <1>5, <1>6
    <3>2. /\ files[n] # NoFile /\ files[n].run = launches
          /\ Tally(files[n].records) = summaries[n].totals
      BY DEF ReportInv, FilesOK
    <3> QED BY <1>1, <3>1, <3>2
  <2>2. files'[nth'] = [run |-> launches', records |-> <<>>]
    BY <1>1, <1>5 DEF f
  <2>3. DOMAIN files' = 1 .. TotalBenchmarks'
    BY <1>5 DEF TotalBenchmarks
  <2> QED BY <1>1, <2>1, <2>2, <2>3 DEF FilesOK, Tally, Counts
<1>8. ReportNotNewerThanRows'
  BY <1>1, <1>2, <1>5, OlderReport
<1>9. ReportOK'
  BY <1>1, <1>8 DEF ReportInv, ReportOK, Reported
<1> QED BY <1>4, <1>7, <1>9 DEF ReportInv

(* A row file that is begun takes rows and stays this comparison's.         *)
LEMMA WrittenFile ==
  ASSUME ReportInv, NoFileIsNoRows, pc = "write", NEW lines, IsSeq(lines),
         files' = [files EXCEPT ![nth].records = @ \o lines]
  PROVE  /\ DOMAIN files' = 1 .. TotalBenchmarks
         /\ files'[nth] # NoFile /\ files'[nth].run = launches /\ files'[nth].records = lines
         /\ \A n \in 1 .. TotalBenchmarks : n # nth => files'[n] = files[n]
<1>1. /\ nth \in 1 .. TotalBenchmarks /\ DOMAIN files = 1 .. TotalBenchmarks
      /\ files[nth] = [run |-> launches, records |-> <<>>]
  BY DEF ReportInv, StageOK, FilesOK
<1>2. <<>> \o lines = lines
  <2>1. lines \in Seq(ToSet(lines))
    BY DEF IsSeq
  <2> QED BY <2>1, ConcatEmptySeq
<1>3. files'[nth] = [files[nth] EXCEPT !.records = files[nth].records \o lines]
  BY <1>1
<1>4. files'[nth] = [run |-> launches, records |-> lines]
  <2>1. files[nth].records = <<>>
    BY <1>1
  <2>2. files'[nth] = [files[nth] EXCEPT !.records = lines]
    BY <1>2, <1>3, <2>1
  <2> QED BY <1>1, <2>2
<1>5. files'[nth] # NoFile
  BY <1>4 DEF NoFileIsNoRows
<1> QED BY <1>1, <1>4, <1>5

(* The rows are written in one piece and counted in the summary.           *)
LEMMA WriteRowsKeeps ==
  ASSUME ReportInv, NoFileIsNoRows, WriteRows PROVE ReportInv'
<1>1. /\ pc = "write" /\ pc' = (IF Reversed(nth) THEN "reload" ELSE "load")
      /\ launches' = launches /\ json' = json
      /\ files' = [files EXCEPT ![nth].records = @ \o results]
      /\ nth' = (IF Reversed(nth) THEN nth ELSE nth + 1)
      /\ summaries' = Append(summaries, Summary) /\ results' = results
  BY DEF WriteRows, GoTo
<1>2. /\ nth \in 1 .. TotalBenchmarks /\ IsSeq(summaries) /\ IsSeq(results)
      /\ Len(summaries) = nth - 1
  BY <1>1 DEF ReportInv, StageOK, Done
<1>3. /\ DOMAIN files' = 1 .. TotalBenchmarks
      /\ files'[nth] # NoFile /\ files'[nth].run = launches /\ files'[nth].records = results
      /\ \A n \in 1 .. TotalBenchmarks : n # nth => files'[n] = files[n]
  BY <1>1, <1>2, WrittenFile
<1>4. /\ IsSeq(summaries') /\ Len(summaries') = nth /\ DOMAIN summaries' = 1 .. nth
      /\ \A n \in 1 .. nth - 1 : n \in DOMAIN summaries /\ summaries'[n] = summaries[n]
      /\ summaries'[nth].totals = Tally(results)
  <2>1. /\ IsSeq(summaries') /\ Len(summaries') = (nth - 1) + 1
        /\ DOMAIN summaries' = 1 .. (nth - 1) + 1 /\ DOMAIN summaries = 1 .. nth - 1
        /\ \A i \in 1 .. nth - 1 : summaries'[i] = summaries[i]
        /\ summaries'[(nth - 1) + 1] = Summary
    BY <1>1, <1>2, AppendIsSeq
  <2>2. nth \in Nat /\ (nth - 1) + 1 = nth
    BY <1>2, Eight
  <2>3. Summary.totals = Tally(results)
    BY DEF Summary
  <2> HIDE DEF Summary
  <2> QED BY <2>1, <2>2, <2>3
<1>5. StageOK'
  <2>1. nth' \in 1 .. TotalBenchmarks
    <3>1. CASE Reversed(nth)
      BY <1>1, <1>2, <3>1
    <3>2. CASE ~Reversed(nth)
      <4>1. nth \in 1 .. 8 /\ nth % 2 # 0
        BY <1>2, <3>2, Eight DEF Reversed
      <4>2. nth # 8
        BY <4>1
      <4> QED BY <1>1, <3>2, <4>1, <4>2, Eight
    <3> QED BY <3>1, <3>2
  <2>2. nth' \in 1 .. TotalBenchmarks'
    BY <2>1 DEF TotalBenchmarks
  <2>3. IsSeq(results')
    BY <1>1, <1>2
  <2>4. /\ pc' \in {"load", "reload"}
        /\ pc' = "reload" => Len(summaries') = nth'
        /\ pc' = "load" => Len(summaries') = nth' - 1
    BY <1>1, <1>2, <1>4, Eight
  <2> QED BY <1>4, <2>2, <2>3, <2>4 DEF StageOK, Done, IsSeq
<1>6. FilesOK'
  <2>1. ASSUME NEW n \in DOMAIN summaries'
        PROVE  /\ files'[n] # NoFile /\ files'[n].run = launches'
               /\ Tally(files'[n].records) = summaries'[n].totals
    <3>1. CASE n = nth
      BY <1>1, <1>3, <1>4, <3>1
    <3>2. CASE n # nth
      <4>1. n \in 1 .. nth - 1 /\ n \in 1 .. TotalBenchmarks
        BY <1>2, <1>4, <3>2, Eight
      <4>2. files'[n] = files[n] /\ summaries'[n] = summaries[n] /\ n \in DOMAIN summaries
        BY <1>3, <1>4, <3>2, <4>1
      <4>3. /\ files[n] # NoFile /\ files[n].run = launches
            /\ Tally(files[n].records) = summaries[n].totals
        BY <4>2 DEF ReportInv, FilesOK
      <4> QED BY <1>1, <4>2, <4>3
    <3> QED BY <3>1, <3>2
  <2>2. DOMAIN files' = 1 .. TotalBenchmarks'
    BY <1>3 DEF TotalBenchmarks
  <2>3. pc' # "write"
    BY <1>1
  <2> QED BY <2>1, <2>2, <2>3 DEF FilesOK, Tally, Counts
<1>7. ReportNotNewerThanRows'
  BY <1>1, <1>3, OlderReport
<1>8. ReportOK'
  BY <1>1, <1>7 DEF ReportInv, ReportOK, Reported
<1> QED BY <1>5, <1>6, <1>8 DEF ReportInv

(* The files of a scorer are read back, and the next scorer begins.        *)
LEMMA ReloadKeeps ==
  ASSUME ReportInv, Reload PROVE ReportInv'
<1>1. /\ pc = "reload" /\ pc' = (IF nth = TotalBenchmarks THEN "pair" ELSE "load")
      /\ nth' = (IF nth = TotalBenchmarks THEN nth ELSE nth + 1)
      /\ launches' = launches /\ json' = json /\ files' = files
      /\ summaries' = summaries /\ results' = results
  BY DEF Reload, GoTo, disk
<1>2. /\ nth \in 1 .. TotalBenchmarks /\ IsSeq(summaries) /\ IsSeq(results)
      /\ Len(summaries) = nth
  BY <1>1 DEF ReportInv, StageOK, Done
<1>3. StageOK'
  <2>1. /\ nth' \in 1 .. TotalBenchmarks /\ pc' \in {"pair", "load"}
        /\ pc' = "load" => Len(summaries') = nth' - 1
        /\ pc' = "pair" => Len(summaries') = TotalBenchmarks
    BY <1>1, <1>2, Eight
  <2> QED BY <1>1, <1>2, <2>1 DEF StageOK, Done, IsSeq, TotalBenchmarks
<1>4. FilesOK'
  BY <1>1 DEF ReportInv, FilesOK, Tally, Counts, TotalBenchmarks
<1>5. ReportNotNewerThanRows'
  BY <1>1, SameDirectory DEF ReportInv, ReportOK
<1>6. ReportOK'
  BY <1>1, <1>5 DEF ReportInv, ReportOK, Reported
<1> QED BY <1>3, <1>4, <1>6 DEF ReportInv

(* When the report is written, all row files are of this comparison.       *)
LEMMA WriteJsonKeeps ==
  ASSUME ReportInv, WriteJson PROVE ReportInv'
<1>1. /\ pc = "json" /\ pc' = "md" /\ launches' = launches /\ json' = Report
      /\ files' = files /\ nth' = nth /\ summaries' = summaries /\ results' = results
  BY DEF WriteJson, GoTo, memory
<1>2. json'.run = launches /\ json'.summaries = summaries
  BY <1>1 DEF Report
<1>3. Len(summaries) = TotalBenchmarks /\ IsSeq(summaries)
  BY <1>1 DEF ReportInv, StageOK, Done
<1>4. StageOK'
  BY <1>1 DEF ReportInv, StageOK, Done, IsSeq, TotalBenchmarks
<1>5. FilesOK'
  BY <1>1 DEF ReportInv, FilesOK, Tally, Counts, TotalBenchmarks
<1>6. ReportNotNewerThanRows'
  <2>1. ASSUME NEW n \in 1 .. TotalBenchmarks
        PROVE  /\ files[n] # NoFile /\ files[n].run >= launches
               /\ Tally(files[n].records) = summaries[n].totals
    <3>1. n \in DOMAIN summaries
      BY <1>3 DEF IsSeq
    <3>2. launches \in Nat
      BY DEF ReportInv, ReportOK
    <3> QED BY <3>1, <3>2 DEF ReportInv, FilesOK
  <2> QED BY <1>1, <1>2, <2>1 DEF ReportNotNewerThanRows, TotalBenchmarks, Tally, Counts
<1>7. ReportOK'
  <2>1. launches \in Nat
    BY DEF ReportInv, ReportOK
  <2> QED BY <1>1, <1>2, <1>6, <2>1 DEF ReportOK
<1> QED BY <1>4, <1>5, <1>7 DEF ReportInv

(* The comparison ends with its last file.                                 *)
LEMMA WriteMarkdownKeeps ==
  ASSUME ReportInv, WriteMarkdown PROVE ReportInv'
<1>1. Exit /\ files' = files /\ json' = json
  BY DEF WriteMarkdown
<1>2. ReportNotNewerThanRows'
  BY <1>1, SameDirectory DEF ReportInv, ReportOK
<1>3. DOMAIN files' = 1 .. TotalBenchmarks
  BY <1>1 DEF ReportInv, FilesOK
<1>4. Reported' => json'.run \in Nat /\ json'.run <= launches
  BY <1>1 DEF ReportInv, ReportOK, Reported
<1> QED BY <1>1, <1>2, <1>3, <1>4, ExitKeeps

(* A file that is cut short belongs to the comparison that was killed.     *)
LEMMA InterruptKeeps ==
  ASSUME ReportInv, NoFileIsNoRows, Interrupt PROVE ReportInv'
<1>1. Exit
  BY DEF Interrupt
<1>2. CASE files' = files /\ json' = json
  <2>1. ReportNotNewerThanRows'
    BY <1>2, SameDirectory DEF ReportInv, ReportOK
  <2>2. DOMAIN files' = 1 .. TotalBenchmarks
    BY <1>2 DEF ReportInv, FilesOK
  <2>3. Reported' => json'.run \in Nat /\ json'.run <= launches
    BY <1>2 DEF ReportInv, ReportOK, Reported
  <2> QED BY <1>1, <2>1, <2>2, <2>3, ExitKeeps
<1>3. CASE files' = files /\ json' = Broken
  <2>1. ~Reported'
    BY <1>3 DEF Reported
  <2>2. ReportNotNewerThanRows'
    BY <2>1 DEF ReportNotNewerThanRows
  <2>3. DOMAIN files' = 1 .. TotalBenchmarks
    BY <1>3 DEF ReportInv, FilesOK
  <2> QED BY <1>1, <2>1, <2>2, <2>3, ExitKeeps
<1>4. ASSUME pc = "write", json' = json, NEW n \in 1 .. Len(results) - 1,
             files' = [files EXCEPT ![nth].records = @ \o SubSeq(results, 1, n)]
      PROVE  ReportInv'
  <2> DEFINE lines == SubSeq(results, 1, n)
  <2>1. IsSeq(lines)
    <3>1. results \in Seq(ToSet(results))
      BY DEF ReportInv, StageOK, IsSeq
    <3>2. lines \in Seq(ToSet(results))
      BY <3>1
    <3> HIDE DEF lines
    <3> QED BY <3>2, SeqIsSeq
  <2> HIDE DEF lines
  <2>2. /\ DOMAIN files' = 1 .. TotalBenchmarks
        /\ files'[nth] # NoFile /\ files'[nth].run = launches
        /\ \A m \in 1 .. TotalBenchmarks : m # nth => files'[m] = files[m]
    BY <1>4, <2>1, WrittenFile DEF lines
  <2>3. ReportNotNewerThanRows'
    BY <1>4, <2>2, OlderReport
  <2>4. Reported' => json'.run \in Nat /\ json'.run <= launches
    BY <1>4 DEF ReportInv, ReportOK, Reported
  <2> QED BY <1>1, <2>2, <2>3, <2>4, ExitKeeps
<1>5. \/ files' = files /\ json' = json
      \/ files' = files /\ json' = Broken
      \/ /\ pc = "write" /\ json' = json
         /\ \E n \in 1 .. Len(results) - 1 :
              files' = [files EXCEPT ![nth].records = @ \o SubSeq(results, 1, n)]
  BY DEF Interrupt, disk
<1> QED BY <1>2, <1>3, <1>4, <1>5

(* Initially there is no report.                                           *)
LEMMA InitReport == Init => ReportInv
<1> SUFFICES ASSUME Init PROVE ReportInv
  OBVIOUS
<1>1. /\ pc = "idle" /\ nth = 1 /\ summaries = <<>> /\ results = <<>> /\ launches = 0
      /\ json = NoFile /\ DOMAIN files = 1 .. TotalBenchmarks
  BY DEF Init
<1>2. IsSeq(<<>>) /\ Len(<<>>) = 0 /\ DOMAIN <<>> = {}
  BY DEF IsSeq
<1>3. StageOK
  BY <1>1, <1>2, Eight DEF StageOK, Done
<1>4. FilesOK
  BY <1>1, <1>2 DEF FilesOK
<1>5. ReportOK
  BY <1>1 DEF ReportOK, Reported, ReportNotNewerThanRows
<1> QED BY <1>3, <1>4, <1>5 DEF ReportInv

(* Every action keeps it.                                                  *)
LEMMA ReportStep ==
  ASSUME NoFileIsNoRows, ReportInv, [Next]_vars PROVE ReportInv'
<1>1. CASE \E r \in Rounds : Launch(r)
  BY <1>1, LaunchKeeps
<1>2. CASE LoadRows
  <2>1. /\ pc = "load" /\ pc' = "score" /\ results' = <<>>
        /\ UNCHANGED <<disk, launches, nth, summaries>>
    BY <1>2 DEF LoadRows, GoTo
  <2>2. IsSeq(results)'
    BY <2>1 DEF IsSeq
  <2>3. Done = nth - 1
    BY <2>1 DEF ReportInv, StageOK
  <2> QED BY <2>1, <2>2, <2>3, QuietSteps
<1>3. CASE RefuseInput \/ RefuseRow \/ ScorerRaises \/ OrdersDiffer \/ PairsDiffer
           \/ RefuseRequests \/ TrialRaises
  <2>1. Fail
    BY <1>3 DEF RefuseInput, RefuseRow, ScorerRaises, OrdersDiffer, PairsDiffer,
                RefuseRequests, TrialRaises
  <2> QED BY <2>1, FailKeeps
<1>4. CASE ScoreRow
  BY <1>4, ScoreRowKeeps
<1>5. CASE OpenOutput
  BY <1>5, OpenOutputKeeps
<1>6. CASE WriteRows
  BY <1>6, WriteRowsKeeps
<1>7. CASE Reload
  BY <1>7, ReloadKeeps
<1>8. CASE Pair \/ LoadRequests \/ Trial \/ EndTrials
  <2>1. /\ pc \in {"pair", "requests", "trial"} /\ pc' \in {"requests", "trial", "json"}
        /\ UNCHANGED <<disk, launches, nth, summaries, results>>
    BY <1>8 DEF Pair, LoadRequests, Trial, EndTrials, InTrials, GoTo, memory
  <2>2. IsSeq(results)' /\ Done = TotalBenchmarks
    BY <2>1 DEF ReportInv, StageOK, IsSeq
  <2> QED BY <2>1, <2>2, QuietSteps
<1>9. CASE WriteJson
  BY <1>9, WriteJsonKeeps
<1>10. CASE WriteMarkdown
  BY <1>10, WriteMarkdownKeeps
<1>11. CASE Interrupt
  BY <1>11, InterruptKeeps
<1>12. CASE Edit \/ UNCHANGED vars
  <2>1. /\ files' = files /\ json' = json /\ launches' = launches /\ pc' = pc
        /\ nth' = nth /\ summaries' = summaries /\ results' = results
    BY <1>12 DEF Edit, vars, disk, memory
  <2>2. StageOK'
    BY <2>1 DEF ReportInv, StageOK, Done, IsSeq, TotalBenchmarks
  <2>3. FilesOK'
    BY <2>1 DEF ReportInv, FilesOK, Tally, Counts, TotalBenchmarks
  <2>4. ReportNotNewerThanRows'
    BY <2>1, SameDirectory DEF ReportInv, ReportOK
  <2>5. ReportOK'
    BY <2>1, <2>4 DEF ReportInv, ReportOK, Reported
  <2> QED BY <2>2, <2>3, <2>5 DEF ReportInv
<1> QED BY <1>1, <1>2, <1>3, <1>4, <1>5, <1>6, <1>7, <1>8, <1>9, <1>10, <1>11, <1>12 DEF Next

(* What is known of a comparison in progress holds in every reachable      *)
(* state, however often comparisons fail, are killed and are run again.    *)
THEOREM ReportInvariance == ASSUME NoFileIsNoRows PROVE Spec => []ReportInv
<1>1. ReportInv /\ [Next]_vars => ReportInv'
  BY NoFileIsNoRows, ReportStep
<1> QED BY <1>1, InitReport, PTL DEF Spec

(* No row file in the directory is older than the report beside it, and    *)
(* files as old as the report count what it says.                          *)
THEOREM ReportIsNotNewer ==
  ASSUME NoFileIsNoRows PROVE Spec => []ReportNotNewerThanRows
<1>1. ReportInv => ReportNotNewerThanRows
  BY DEF ReportInv, ReportOK
<1> QED BY <1>1, ReportInvariance, NoFileIsNoRows, PTL

-----------------------------------------------------------------------------
(* Turns *)

(* Who has the p-th turn of a round.                                       *)
LEMMA RotateFacts ==
  ASSUME NEW q \in Nat, NEW p \in 1 .. 4
  PROVE  Rotate(q)[p] = ScorerKeys[((q + p - 1) % 4) + 1]
<1>1. q % 4 \in 0 .. 3
  OBVIOUS
<1>2. CASE q % 4 = 0
  <2>1. (q + p - 1) % 4 = p - 1
    BY <1>2
  <2>2. Rotate(q)[p] = ScorerKeys[p]
    BY <1>2 DEF Rotate, ScorerKeys
  <2>3. (p - 1) + 1 = p
    OBVIOUS
  <2> QED BY <2>1, <2>2, <2>3
<1>3. CASE q % 4 = 1
  <2>1. (q + p - 1) % 4 = p % 4
    BY <1>3
  <2>2. Rotate(q)[p] = ScorerKeys[(p % 4) + 1]
    BY <1>3 DEF Rotate, ScorerKeys
  <2> QED BY <2>1, <2>2
<1>4. CASE q % 4 = 2
  <2>1. (q + p - 1) % 4 = (p + 1) % 4
    BY <1>4
  <2>2. Rotate(q)[p] = ScorerKeys[((p + 1) % 4) + 1]
    BY <1>4 DEF Rotate, ScorerKeys
  <2> QED BY <2>1, <2>2
<1>5. CASE q % 4 = 3
  <2>1. (q + p - 1) % 4 = (p + 2) % 4
    BY <1>5
  <2>2. Rotate(q)[p] = ScorerKeys[((p + 2) % 4) + 1]
    BY <1>5 DEF Rotate, ScorerKeys
  <2> QED BY <2>1, <2>2
<1> QED BY <1>1, <1>2, <1>3, <1>4, <1>5

(* No two scorers have one key.                                            *)
LEMMA KeysDiffer ==
  /\ ToSet(ScorerKeys) = {ScorerKeys[a] : a \in 1 .. 4} /\ DOMAIN ScorerKeys = 1 .. 4
  /\ \A a, b \in 1 .. 4 : ScorerKeys[a] = ScorerKeys[b] => a = b
BY DEF ScorerKeys, ToSet

(* The trials of n rounds that the a-th scorer has at the p-th turn, and   *)
(* those it has at any.                                                    *)
TurnsOf(a, p, passed, n) ==
  {i \in 1 .. 4 * n : (i - 1) % 4 = p - 1 /\ (passed + (i - 1) \div 4 + p - 1) % 4 = a - 1}
TrialsOf(a, passed, n) ==
  {i \in 1 .. 4 * n : (passed + (i - 1) \div 4 + ((i - 1) % 4)) % 4 = a - 1}

(* Of rounds before the n-th, those whose number leaves c when divided by  *)
(* the number of scorers.                                                  *)
RoundsBefore(n, c) == (n + 3 - c) \div 4

(* A further round has four trials more.                                   *)
LEMMA FurtherRound ==
  ASSUME NEW m \in Nat
  PROVE  /\ \A i \in 1 .. 4 * (m + 1) :
              \/ i \in 1 .. 4 * m
              \/ i \in 4 * m + 1 .. 4 * m + 4 /\ (i - 1) \div 4 = m /\ (i - 1) % 4 = i - 4 * m - 1
         /\ \A i \in 1 .. 4 * m : i \in 1 .. 4 * (m + 1)
         /\ \A q \in 1 .. 4 : /\ 4 * m + q \in 1 .. 4 * (m + 1) /\ 4 * m + q \notin 1 .. 4 * m
                             /\ (4 * m + q - 1) \div 4 = m /\ (4 * m + q - 1) % 4 = q - 1
OBVIOUS

(* A scorer has one turn at a place in every fourth round ...              *)
LEMMA TurnCount ==
  ASSUME NEW a \in 1 .. 4, NEW p \in 1 .. 4, NEW passed \in Nat, NEW n \in Nat
  PROVE  LET c == (a + 4 - p) % 4
         IN Cardinality(TurnsOf(a, p, passed, n)) =
              RoundsBefore(passed + n, c) - RoundsBefore(passed, c)
<1> DEFINE c == (a + 4 - p) % 4
           Count(m) == RoundsBefore(passed + m, c) - RoundsBefore(passed, c)
           T(m) == TurnsOf(a, p, passed, m)
           S == {m \in Nat : IsFiniteSet(T(m)) /\ Cardinality(T(m)) = Count(m)}
<1>1. 0 \in S
  <2>1. T(0) = {}
    BY DEF TurnsOf
  <2>2. Count(0) = 0
    BY DEF RoundsBefore
  <2> QED BY <2>1, <2>2, FS_EmptySet
<1>2. ASSUME NEW m \in Nat, m \in S PROVE m + 1 \in S
  <2>1. IsFiniteSet(T(m)) /\ Cardinality(T(m)) = Count(m) /\ Count(m) \in Int
    BY <1>2 DEF RoundsBefore
  <2> DEFINE j == 4 * m + p
  <2>2. j \notin T(m)
    BY DEF TurnsOf
  <2>3. CASE (passed + m + p - 1) % 4 = a - 1
    <3>1. T(m + 1) = T(m) \cup {j}
      <4>1. ASSUME NEW i \in T(m + 1) PROVE i \in T(m) \cup {j}
        <5>1. /\ i \in 1 .. 4 * (m + 1) /\ (i - 1) % 4 = p - 1
              /\ (passed + (i - 1) \div 4 + p - 1) % 4 = a - 1
          BY <4>1 DEF TurnsOf
        <5>2. CASE i \in 1 .. 4 * m
          BY <5>1, <5>2 DEF TurnsOf
        <5>3. CASE i \notin 1 .. 4 * m
          <6>1. i \in 4 * m + 1 .. 4 * m + 4 /\ i - 4 * m - 1 = p - 1
            BY <5>1, <5>3, FurtherRound
          <6> QED BY <6>1
        <5> QED BY <5>2, <5>3
      <4>2. ASSUME NEW i \in T(m) PROVE i \in T(m + 1)
        BY <4>2, FurtherRound DEF TurnsOf
      <4>3. j \in T(m + 1)
        BY <2>3, FurtherRound DEF TurnsOf
      <4> HIDE DEF T, j
      <4> QED BY <4>1, <4>2, <4>3
    <3>2. Count(m + 1) = Count(m) + 1
      BY <2>3 DEF RoundsBefore
    <3> HIDE DEF T, Count, j
    <3>3. IsFiniteSet(T(m + 1)) /\ Cardinality(T(m + 1)) = Cardinality(T(m)) + 1
      BY <2>1, <2>2, <3>1, FS_AddElement
    <3> QED BY <2>1, <3>2, <3>3
  <2>4. CASE (passed + m + p - 1) % 4 # a - 1
    <3>1. T(m + 1) = T(m)
      <4>1. ASSUME NEW i \in T(m + 1) PROVE i \in T(m)
        <5>1. /\ i \in 1 .. 4 * (m + 1) /\ (i - 1) % 4 = p - 1
              /\ (passed + (i - 1) \div 4 + p - 1) % 4 = a - 1
          BY <4>1 DEF TurnsOf
        <5>2. i \in 1 .. 4 * m
          BY <2>4, <5>1, FurtherRound
        <5> QED BY <5>1, <5>2 DEF TurnsOf
      <4>2. ASSUME NEW i \in T(m) PROVE i \in T(m + 1)
        BY <4>2, FurtherRound DEF TurnsOf
      <4> HIDE DEF T
      <4> QED BY <4>1, <4>2
    <3>2. Count(m + 1) = Count(m)
      BY <2>4 DEF RoundsBefore
    <3> HIDE DEF T, Count, j
    <3> QED BY <2>1, <3>1, <3>2
  <2> QED BY <2>3, <2>4
<1> HIDE DEF S
<1>3. n \in S
  BY <1>1, <1>2, CountingUp
<1> QED BY <1>3 DEF S

(* ... and one trial in every round.                                       *)
LEMMA TrialCount ==
  ASSUME NEW a \in 1 .. 4, NEW passed \in Nat, NEW n \in Nat
  PROVE  Cardinality(TrialsOf(a, passed, n)) = n
<1> DEFINE T(m) == TrialsOf(a, passed, m)
           S == {m \in Nat : IsFiniteSet(T(m)) /\ Cardinality(T(m)) = m}
<1>1. 0 \in S
  <2>1. T(0) = {}
    BY DEF TrialsOf
  <2> QED BY <2>1, FS_EmptySet
<1>2. ASSUME NEW m \in Nat, m \in S PROVE m + 1 \in S
  <2>5. PICK q \in 1 .. 4 : (passed + m + q - 1) % 4 = a - 1
    <3> DEFINE x == (passed + m) % 4
    <3>1. x \in 0 .. 3 /\ \A q \in 1 .. 4 : (passed + m + q - 1) % 4 = (x + q - 1) % 4
      OBVIOUS
    <3> HIDE DEF x
    <3>2. \E q \in 1 .. 4 : (x + q - 1) % 4 = a - 1
      BY <3>1
    <3> QED BY <3>1, <3>2
  <2>6. ASSUME NEW r \in 1 .. 4, (passed + m + r - 1) % 4 = a - 1 PROVE r = q
    BY <2>5, <2>6
  <2> DEFINE j == 4 * m + q
  <2>1. j \notin T(m)
    BY FurtherRound DEF TrialsOf
  <2>2. T(m + 1) = T(m) \cup {j}
    <3>1. ASSUME NEW i \in T(m + 1) PROVE i \in T(m) \cup {j}
      <4>1. i \in 1 .. 4 * (m + 1) /\ (passed + (i - 1) \div 4 + ((i - 1) % 4)) % 4 = a - 1
        BY <3>1 DEF TrialsOf
      <4>2. CASE i \in 1 .. 4 * m
        BY <4>1, <4>2 DEF TrialsOf
      <4>3. CASE i \notin 1 .. 4 * m
        <5> DEFINE r == i - 4 * m
        <5>1. r \in 1 .. 4 /\ (i - 1) \div 4 = m /\ (i - 1) % 4 = r - 1 /\ i = 4 * m + r
          BY <4>1, <4>3, FurtherRound
        <5> HIDE DEF r
        <5>2. (passed + m + r - 1) % 4 = a - 1
          <6>1. passed + m + r - 1 = passed + m + (r - 1)
            BY <5>1
          <6> QED BY <4>1, <5>1, <6>1
        <5>3. r = q
          BY <5>1, <5>2, <2>6
        <5> QED BY <5>1, <5>3
      <4> QED BY <4>2, <4>3
    <3>2. ASSUME NEW i \in T(m) PROVE i \in T(m + 1)
      BY <3>2, FurtherRound DEF TrialsOf
    <3>3. j \in T(m + 1)
      <4>1. (j - 1) \div 4 = m /\ (j - 1) % 4 = q - 1 /\ j \in 1 .. 4 * (m + 1)
        BY FurtherRound
      <4>2. passed + m + (q - 1) = passed + m + q - 1
        OBVIOUS
      <4> HIDE DEF j
      <4> QED BY <2>5, <4>1, <4>2 DEF TrialsOf
    <3> HIDE DEF T, j
    <3> QED BY <3>1, <3>2, <3>3
  <2> HIDE DEF T, j
  <2>3. IsFiniteSet(T(m)) /\ Cardinality(T(m)) = m
    BY <1>2
  <2>4. IsFiniteSet(T(m + 1)) /\ Cardinality(T(m + 1)) = Cardinality(T(m)) + 1
    BY <2>1, <2>2, <2>3, FS_AddElement
  <2> QED BY <2>3, <2>4
<1> HIDE DEF S
<1>3. n \in S
  BY <1>1, <1>2, CountingUp
<1> QED BY <1>3 DEF S

(* The trials of n rounds, and what is counted of trials.                  *)
AreRounds(all, passed, n) ==
  DOMAIN all = 1 .. 4 * n /\ \A i \in 1 .. 4 * n : IsTrial(all[i], passed, i)
HowOften(all, k) == Cardinality({i \in DOMAIN all : all[i].key = k})
HowOftenAt(all, k, p) ==
  Cardinality({i \in DOMAIN all : all[i].key = k /\ all[i].position = p})

(* How often a scorer appears in the trials of n rounds.                   *)
LEMMA CountedTrials ==
  ASSUME NEW all, NEW passed \in Nat, NEW n \in Nat, AreRounds(all, passed, n), NEW a \in 1 .. 4
  PROVE  /\ \A p \in 1 .. 4 : HowOftenAt(all, ScorerKeys[a], p)
              = RoundsBefore(passed + n, (a + 4 - p) % 4) - RoundsBefore(passed, (a + 4 - p) % 4)
         /\ HowOften(all, ScorerKeys[a]) = n
<1>6. DOMAIN all = 1 .. 4 * n /\ \A i \in 1 .. 4 * n : IsTrial(all[i], passed, i)
  BY DEF AreRounds
<1>1. ASSUME NEW i \in 1 .. 4 * n
      PROVE  /\ all[i].position = ((i - 1) % 4) + 1
             /\ all[i].key = ScorerKeys[a]
                  <=> (passed + (i - 1) \div 4 + ((i - 1) % 4)) % 4 = a - 1
  <2> DEFINE q == passed + (i - 1) \div 4
             p == ((i - 1) % 4) + 1
             b == ((q + p - 1) % 4) + 1
  <2>1. q \in Nat /\ p \in 1 .. 4 /\ b \in 1 .. 4
    OBVIOUS
  <2>2. all[i].position = p /\ all[i].key = Rotate(q)[p]
    BY <1>1, <1>6, Eight DEF IsTrial
  <2>3. b - 1 = (passed + (i - 1) \div 4 + ((i - 1) % 4)) % 4
    OBVIOUS
  <2>4. all[i].position = ((i - 1) % 4) + 1
    BY <2>2
  <2> HIDE DEF q, p
  <2>5. all[i].key = ScorerKeys[b]
    BY <2>1, <2>2, RotateFacts
  <2> HIDE DEF b
  <2>6. all[i].key = ScorerKeys[a] <=> b = a
    BY <2>1, <2>5, KeysDiffer
  <2>7. b = a <=> b - 1 = a - 1
    BY <2>1
  <2> QED BY <2>3, <2>4, <2>6, <2>7
<1>2. ASSUME NEW p \in 1 .. 4
      PROVE  {i \in DOMAIN all : all[i].key = ScorerKeys[a] /\ all[i].position = p}
               = TurnsOf(a, p, passed, n)
  <2>1. ASSUME NEW i \in 1 .. 4 * n
        PROVE  (all[i].key = ScorerKeys[a] /\ all[i].position = p)
                 <=> ((i - 1) % 4 = p - 1 /\ (passed + (i - 1) \div 4 + p - 1) % 4 = a - 1)
    <3> DEFINE x == (i - 1) % 4
               y == (i - 1) \div 4
    <3>1. x \in 0 .. 3 /\ y \in Nat
      OBVIOUS
    <3>2. /\ all[i].position = x + 1
          /\ all[i].key = ScorerKeys[a] <=> (passed + y + x) % 4 = a - 1
      BY <1>1
    <3> HIDE DEF x, y
    <3>3. x + 1 = p <=> x = p - 1
      BY <3>1
    <3>4. x = p - 1 => passed + y + x = passed + y + p - 1
      BY <3>1
    <3>5. (all[i].key = ScorerKeys[a] /\ all[i].position = p)
            <=> (x = p - 1 /\ (passed + y + p - 1) % 4 = a - 1)
      BY <3>2, <3>3, <3>4
    <3> QED BY <3>5 DEF x, y
  <2> QED BY <1>6, <2>1 DEF TurnsOf
<1>3. {i \in DOMAIN all : all[i].key = ScorerKeys[a]} = TrialsOf(a, passed, n)
  BY <1>1, <1>6 DEF TrialsOf
<1>4. ASSUME NEW p \in 1 .. 4
      PROVE  Cardinality(TurnsOf(a, p, passed, n)) =
               RoundsBefore(passed + n, (a + 4 - p) % 4) - RoundsBefore(passed, (a + 4 - p) % 4)
  BY TurnCount
<1>5. Cardinality(TrialsOf(a, passed, n)) = n
  BY TrialCount
<1> QED BY <1>2, <1>3, <1>4, <1>5 DEF HowOften, HowOftenAt

(* The turns of the first scorer are even exactly when the number of       *)
(* rounds is a multiple of the number of scorers.                          *)
LEMMA EvenRounds ==
  ASSUME NEW passed \in Nat, NEW n \in Nat
  PROVE  LET Turns(c) == RoundsBefore(passed + n, c) - RoundsBefore(passed, c)
         IN /\ n % 4 = 0 => \A c \in 0 .. 3 : Turns(c) = n \div 4
            /\ (\A c, d \in 0 .. 3 : Turns(c) = Turns(d)) => n % 4 = 0
<1> DEFINE Turns(c) == RoundsBefore(passed + n, c) - RoundsBefore(passed, c)
<1>1. ASSUME n % 4 = 0, NEW c \in 0 .. 3 PROVE Turns(c) = n \div 4
  <2> DEFINE m == n \div 4
             x == passed + 3 - c
  <2>1. n = 4 * m /\ m \in Nat /\ x \in Nat
    BY <1>1
  <2>2. Turns(c) = (x + n) \div 4 - x \div 4
    <3>1. passed + n + 3 - c = x + n
      OBVIOUS
    <3> QED BY <3>1 DEF RoundsBefore
  <2> HIDE DEF m, x
  <2>3. (x + 4 * m) \div 4 = x \div 4 + m
    BY <2>1
  <2> QED BY <2>1, <2>2, <2>3 DEF m
<1>2. ASSUME \A c, d \in 0 .. 3 : Turns(c) = Turns(d) PROVE n % 4 = 0
  <2> DEFINE d == Turns(0)
  <2>1. d \in Int
    BY DEF RoundsBefore
  <2>2. Turns(0) + Turns(1) + Turns(2) + Turns(3) = n
    <3>1. \A k \in Nat : RoundsBefore(k, 0) + RoundsBefore(k, 1) + RoundsBefore(k, 2)
                           + RoundsBefore(k, 3) = k
      BY DEF RoundsBefore
    <3>2. \A k \in Nat : \A c \in 0 .. 3 : RoundsBefore(k, c) \in Int
      BY DEF RoundsBefore
    <3>3. passed + n \in Nat
      OBVIOUS
    <3> QED BY <3>1, <3>2, <3>3
  <2>3. Turns(1) = d /\ Turns(2) = d /\ Turns(3) = d
    BY <1>2
  <2> HIDE DEF Turns, d
  <2>4. n = 4 * d
    BY <2>1, <2>2, <2>3 DEF d
  <2> QED BY <2>1, <2>4
<1> QED BY <1>1, <1>2

-----------------------------------------------------------------------------
(* Trials *)

(* Trials of n rounds can be compared.                                     *)
LEMMA RoundsAreComparable ==
  ASSUME NEW all, NEW passed \in Nat, NEW n \in Nat, AreRounds(all, passed, n)
  PROVE  /\ n % Len(ScorerKeys) = 0
              <=> \A k \in ToSet(ScorerKeys), p, q \in DOMAIN ScorerKeys :
                    HowOftenAt(all, k, p) = HowOftenAt(all, k, q)
         /\ \A k, l \in ToSet(ScorerKeys) : HowOften(all, k) = HowOften(all, l)
<1> DEFINE Turns(k, p) == HowOftenAt(all, k, p)
           Own(k) == HowOften(all, k)
           Hits(c) == RoundsBefore(passed + n, c) - RoundsBefore(passed, c)
<1>1. ASSUME NEW a \in 1 .. 4
      PROVE  /\ \A p \in 1 .. 4 : Turns(ScorerKeys[a], p) = Hits((a + 4 - p) % 4)
             /\ Own(ScorerKeys[a]) = n
  BY CountedTrials
<1>2. /\ n % 4 = 0 => \A c \in 0 .. 3 : Hits(c) = n \div 4
      /\ (\A c, d \in 0 .. 3 : Hits(c) = Hits(d)) => n % 4 = 0
  BY EvenRounds
<1>3. /\ ToSet(ScorerKeys) = {ScorerKeys[a] : a \in 1 .. 4} /\ DOMAIN ScorerKeys = 1 .. 4
      /\ Len(ScorerKeys) = 4
  BY KeysDiffer, Eight
<1> DEFINE Even == \A k \in ToSet(ScorerKeys), p, q \in DOMAIN ScorerKeys : Turns(k, p) = Turns(k, q)
           Fair == \A k, l \in ToSet(ScorerKeys) : Own(k) = Own(l)
<1>4. ASSUME NEW a \in 1 .. 4, NEW p \in 1 .. 4 PROVE (a + 4 - p) % 4 \in 0 .. 3
  OBVIOUS
<1>5. ASSUME NEW c \in 0 .. 3 PROVE \E p \in 1 .. 4 : (1 + 4 - p) % 4 = c
  OBVIOUS
<1> HIDE DEF Hits
<1>7. n % 4 = 0 => Even
  <2> SUFFICES ASSUME n % 4 = 0, NEW a \in 1 .. 4, NEW p \in 1 .. 4, NEW q \in 1 .. 4
               PROVE  Turns(ScorerKeys[a], p) = Turns(ScorerKeys[a], q)
    BY <1>3
  <2>1. /\ Turns(ScorerKeys[a], p) = Hits((a + 4 - p) % 4)
        /\ Turns(ScorerKeys[a], q) = Hits((a + 4 - q) % 4)
    BY <1>1
  <2>2. (a + 4 - p) % 4 \in 0 .. 3 /\ (a + 4 - q) % 4 \in 0 .. 3
    BY <1>4
  <2> QED BY <1>2, <2>1, <2>2
<1>8. Even => n % 4 = 0
  <2> SUFFICES ASSUME Even, NEW c \in 0 .. 3, NEW d \in 0 .. 3 PROVE Hits(c) = Hits(d)
    BY <1>2
  <2>1. PICK p \in 1 .. 4 : (1 + 4 - p) % 4 = c
    BY <1>5
  <2>2. PICK q \in 1 .. 4 : (1 + 4 - q) % 4 = d
    BY <1>5
  <2>3. Turns(ScorerKeys[1], p) = Hits(c) /\ Turns(ScorerKeys[1], q) = Hits(d)
    BY <1>1, <2>1, <2>2
  <2>4. Turns(ScorerKeys[1], p) = Turns(ScorerKeys[1], q)
    BY <1>3
  <2> QED BY <2>3, <2>4
<1>9. Fair
  BY <1>1, <1>3
<1> QED BY <1>3, <1>7, <1>8, <1>9

(* What the property says depends on the report only.                      *)
LEMMA SameReport ==
  ASSUME TrialsComparable, json' = json PROVE TrialsComparable'
BY DEF TrialsComparable, Reported, HowMany

(* Before the first trial, and after the end of a process.                 *)
LEMMA NoTrials ==
  ASSUME trials' = <<>>, TrialsComparable',
         pc' \in {"idle", "load", "score", "write", "reload", "pair", "requests", "trial", "json"},
         pc' # "idle" => /\ rounds' \in Nat \X Nat
                         /\ rounds'[1] > 0 => rounds'[2] > 0,
         pc' = "json" => rounds'[2] = 0
  PROVE  TrialsInv'
<1>1. IsSeq(<<>>) /\ Len(<<>>) = 0 /\ DOMAIN <<>> = {}
  BY DEF IsSeq
<1>2. IsSeq(trials)' /\ Len(trials') = 0 /\ DOMAIN trials' = {}
  BY <1>1 DEF IsSeq
<1>3. ASSUME pc' \in {"trial", "json"} PROVE 0 <= 4 * AllRounds'
  <2>1. rounds'[1] \in Nat /\ rounds'[2] \in Nat
    BY <1>3
  <2> QED BY <2>1 DEF AllRounds
<1>4. ASSUME pc' = "json" PROVE 0 = 4 * AllRounds'
  <2>1. rounds'[1] \in Nat /\ rounds'[2] = 0 /\ (rounds'[1] > 0 => rounds'[2] > 0)
    BY <1>4
  <2> QED BY <2>1 DEF AllRounds
<1> QED BY <1>2, <1>3, <1>4, Eight DEF TrialsInv

(* The end of a process keeps the report, or leaves a broken one.          *)
LEMMA ExitKeepsTrials ==
  ASSUME TrialsInv, Exit, json' = json \/ json' = Broken PROVE TrialsInv'
<1>1. pc' = "idle" /\ trials' = <<>>
  BY DEF Exit, GoTo
<1>2. TrialsComparable'
  <2>1. CASE json' = json
    BY <2>1, SameReport DEF TrialsInv
  <2>2. CASE json' = Broken
    <3>1. ~Reported'
      BY <2>2 DEF Reported
    <3> QED BY <3>1 DEF TrialsComparable
  <2> QED BY <2>1, <2>2
<1> QED BY <1>1, <1>2, NoTrials

(* A trial joins those of its comparison: it is the next one's turn, and   *)
(* the backend counts its requests only.                                   *)
LEMMA TrialKeeps ==
  ASSUME TrialsInv, Trial PROVE TrialsInv'
<1>1. PICK d : trials' = Append(trials, [key |-> Rotate(Round)[Position], position |-> Position,
                                         duration |-> d, served |-> Len(rows)])
  BY DEF Trial
<1> DEFINE t == [key |-> Rotate(Round)[Position], position |-> Position,
                 duration |-> d, served |-> Len(rows)]
<1>2. /\ pc = "trial" /\ Round < AllRounds /\ pc' = "trial" /\ json' = json
      /\ rows' = rows /\ rounds' = rounds
  BY DEF Trial, InTrials, GoTo, disk
<1>3. /\ IsSeq(trials') /\ Len(trials') = Len(trials) + 1 /\ Len(trials) \in Nat
      /\ DOMAIN trials' = 1 .. Len(trials) + 1 /\ DOMAIN trials = 1 .. Len(trials)
      /\ \A i \in 1 .. Len(trials) : trials'[i] = trials[i]
      /\ trials'[Len(trials) + 1] = t
  BY <1>1, AppendIsSeq DEF TrialsInv
<1>4. IsTrial(t, 0, Len(trials) + 1) /\ t.served = Len(rows)
  <2>1. (Len(trials) + 1) - 1 = Len(trials)
    BY <1>3
  <2>2. 0 + Len(trials) \div Len(ScorerKeys) = Round
    BY <1>3, Eight DEF Round
  <2> QED BY <2>1, <2>2 DEF IsTrial, Position
<1> HIDE DEF t
<1>5. \A i \in DOMAIN trials' : IsTrial(trials'[i], 0, i) /\ trials'[i].served = Len(rows)
  <2> TAKE i \in DOMAIN trials'
  <2>1. CASE i = Len(trials) + 1
    BY <1>3, <1>4, <2>1
  <2>2. CASE i # Len(trials) + 1
    <3>1. i \in DOMAIN trials /\ trials'[i] = trials[i]
      BY <1>3, <2>2
    <3> QED BY <3>1 DEF TrialsInv
  <2> QED BY <2>1, <2>2
<1>6. Len(trials') <= Len(ScorerKeys) * AllRounds'
  <2>1. rounds[1] \in Nat /\ rounds[2] \in Nat
    BY <1>2 DEF TrialsInv
  <2>2. AllRounds \in Nat /\ AllRounds' = AllRounds
    BY <1>2, <2>1 DEF AllRounds
  <2>3. Len(trials) \div 4 < AllRounds
    BY <1>2, Eight DEF Round
  <2>4. Len(trials) + 1 <= 4 * AllRounds
    BY <1>3, <2>2, <2>3
  <2> QED BY <1>3, <2>2, <2>4, Eight
<1>7. TrialsComparable'
  BY <1>2, SameReport DEF TrialsInv
<1>8. IsSeq(trials)'
  BY <1>3 DEF IsSeq
<1> QED BY <1>2, <1>5, <1>6, <1>7, <1>8 DEF TrialsInv, IsTrial

(* The trials end when all rounds are over.                                *)
LEMMA EndTrialsKeeps ==
  ASSUME TrialsInv, EndTrials PROVE TrialsInv'
<1>1. /\ pc = "trial" /\ Round = AllRounds /\ pc' = "json" /\ json' = json
      /\ rows' = rows /\ rounds' = rounds /\ trials' = trials
  BY DEF EndTrials, GoTo, disk, memory
<1>2. Len(trials) = Len(ScorerKeys) * AllRounds
  <2>1. rounds[1] \in Nat /\ rounds[2] \in Nat /\ Len(trials) <= 4 * AllRounds /\ IsSeq(trials)
    BY <1>1, Eight DEF TrialsInv
  <2>2. AllRounds \in Nat /\ Len(trials) \in Nat
    BY <2>1 DEF AllRounds, IsSeq
  <2>3. Len(trials) \div 4 = AllRounds
    BY <1>1, Eight DEF Round
  <2> QED BY <2>1, <2>2, <2>3, Eight
<1>3. TrialsComparable'
  BY <1>1, SameReport DEF TrialsInv
<1> QED BY <1>1, <1>2, <1>3 DEF TrialsInv, IsTrial, IsSeq, AllRounds

(* What is measured are the rounds after the warm-up.                      *)
LEMMA MeasuredRounds ==
  ASSUME TrialsInv, pc = "json"
  PROVE  /\ rounds[2] \in Nat /\ rounds[1] \in Nat /\ AreRounds(Measured, rounds[1], rounds[2])
         /\ \A i, j \in DOMAIN Measured : Measured[i].served = Measured[j].served
<1> DEFINE r1 == rounds[1]
           r2 == rounds[2]
           from == r1 * Len(ScorerKeys) + 1
<1>1. /\ r1 \in Nat /\ r2 \in Nat /\ Len(trials) = 4 * (r1 + r2) /\ IsSeq(trials)
      /\ from = 4 * r1 + 1
  BY Eight DEF TrialsInv, AllRounds
<1>2. trials \in Seq(ToSet(trials)) /\ DOMAIN trials = 1 .. 4 * (r1 + r2)
  <2>1. trials \in Seq(ToSet(trials))
    BY <1>1 DEF IsSeq
  <2> QED BY <1>1, <2>1
<1> HIDE DEF r1, r2, from
<1>3. /\ DOMAIN Measured = 1 .. 4 * r2
      /\ \A i \in 1 .. 4 * r2 : Measured[i] = trials[4 * r1 + i] /\ 4 * r1 + i \in DOMAIN trials
  <2> DEFINE m == SubSeq(trials, 4 * r1 + 1, 4 * (r1 + r2))
  <2>1. Measured = m
    BY <1>1 DEF Measured, from, r1
  <2>2. 4 * r1 + 1 \in Nat /\ 4 * (r1 + r2) \in Nat /\ 4 * (r1 + r2) + 1 - (4 * r1 + 1) = 4 * r2
    BY <1>1
  <2>3. Len(m) = 4 * r2 /\ \A i \in 1 .. 4 * r2 : m[i] = trials[4 * r1 + 1 + i - 1]
    BY <1>1, <1>2, <2>2
  <2>4. DOMAIN m = 1 .. 4 * r2
    BY <1>1, <1>2, <2>2
  <2> HIDE DEF m
  <2>5. \A i \in 1 .. 4 * r2 : 4 * r1 + 1 + i - 1 = 4 * r1 + i /\ 4 * r1 + i \in 1 .. 4 * (r1 + r2)
    BY <1>1
  <2> QED BY <1>2, <2>1, <2>3, <2>4, <2>5
<1>4. ASSUME NEW i \in 1 .. 4 * r2 PROVE IsTrial(Measured[i], r1, i)
  <2> DEFINE j == 4 * r1 + i
  <2>1. j \in DOMAIN trials /\ Measured[i] = trials[j]
    BY <1>3
  <2>2. IsTrial(trials[j], 0, j)
    BY <2>1 DEF TrialsInv
  <2>3. (j - 1) % 4 = (i - 1) % 4 /\ 0 + (j - 1) \div 4 = r1 + (i - 1) \div 4
    BY <1>1
  <2> HIDE DEF j
  <2> QED BY <2>1, <2>2, <2>3, Eight DEF IsTrial
<1>5. \A i \in DOMAIN Measured : Measured[i].served = Len(rows)
  BY <1>3 DEF TrialsInv
<1>6. AreRounds(Measured, r1, r2)
  BY <1>3, <1>4 DEF AreRounds
<1> QED BY <1>1, <1>5, <1>6 DEF r1, r2

(* So the trials that are reported can be compared.                        *)
LEMMA WriteJsonKeepsTrials ==
  ASSUME TrialsInv, WriteJson PROVE TrialsInv'
<1> DEFINE all == Measured
<1>1. /\ pc = "json" /\ pc' = "md" /\ json' = Report /\ trials' = trials /\ rows' = rows
      /\ rounds' = rounds
  BY DEF WriteJson, GoTo, memory
<1>2. json'.performance.trials = all
      /\ json'.performance.balanced = (rounds[2] % Len(ScorerKeys) = 0)
  BY <1>1 DEF Report, Performance
<1>3. /\ rounds[2] \in Nat /\ rounds[1] \in Nat /\ AreRounds(all, rounds[1], rounds[2])
      /\ \A i, j \in DOMAIN all : all[i].served = all[j].served
  BY <1>1, MeasuredRounds
<1> HIDE DEF all
<1>4. /\ rounds[2] % Len(ScorerKeys) = 0
           <=> \A k \in ToSet(ScorerKeys), p, q \in DOMAIN ScorerKeys :
                 HowOftenAt(all, k, p) = HowOftenAt(all, k, q)
      /\ \A k, l \in ToSet(ScorerKeys) : HowOften(all, k) = HowOften(all, l)
  BY <1>3, RoundsAreComparable
<1>5. TrialsComparable'
  <2> DEFINE report == json'
             Turns(k, p) == HowMany(report.performance.trials, LAMBDA t : t.key = k /\ t.position = p)
             Own(k) == HowMany(report.performance.trials, LAMBDA t : t.key = k)
             balanced == rounds[2] % Len(ScorerKeys) = 0
  <2>1. (\A k, p : Turns(k, p) = HowOftenAt(all, k, p)) /\ (\A k : Own(k) = HowOften(all, k))
    BY <1>2 DEF HowMany, HowOften, HowOftenAt
  <2>2. ASSUME NEW i \in DOMAIN report.performance.trials, NEW j \in DOMAIN report.performance.trials
        PROVE  report.performance.trials[i].served = report.performance.trials[j].served
    BY <1>2, <1>3
  <2> HIDE DEF Turns, Own, balanced
  <2>3. /\ balanced <=> \A k \in ToSet(ScorerKeys), p, q \in DOMAIN ScorerKeys : Turns(k, p) = Turns(k, q)
        /\ \A k, l \in ToSet(ScorerKeys) : Own(k) = Own(l)
    BY <1>4, <2>1 DEF balanced
  <2>4. report.performance.balanced = balanced
    BY <1>2 DEF balanced
  <2> HIDE DEF report
  <2> USE DEF Turns, Own
  <2>5. /\ report.performance.balanced
             <=> \A k \in ToSet(ScorerKeys), p, q \in DOMAIN ScorerKeys : Turns(k, p) = Turns(k, q)
        /\ \A i, j \in DOMAIN report.performance.trials :
             report.performance.trials[i].served = report.performance.trials[j].served
        /\ \A k, l \in ToSet(ScorerKeys) : Own(k) = Own(l)
    BY <2>2, <2>3, <2>4
  <2> QED BY <2>5 DEF TrialsComparable, report, HowMany
<1> QED BY <1>1, <1>5 DEF TrialsInv, IsTrial, IsSeq, AllRounds

(* Every action keeps it.                                                  *)
LEMMA TrialsStep ==
  ASSUME \A r \in Rounds : r \in Nat \X Nat, TrialsInv, [Next]_vars PROVE TrialsInv'
<1>1. ASSUME NEW r \in Rounds, Launch(r) PROVE TrialsInv'
  <2>1. /\ pc = "idle" /\ trials' = trials /\ json' = json
        /\ \/ pc' = "idle"
           \/ ~(r[1] > 0 /\ r[2] = 0) /\ pc' = "load" /\ rounds' = r
    BY <1>1 DEF Launch, disk
  <2>2. trials' = <<>> /\ TrialsComparable'
    BY <2>1, SameReport DEF TrialsInv
  <2>3. r \in Nat \X Nat /\ (~(r[1] > 0 /\ r[2] = 0) => (r[1] > 0 => r[2] > 0))
    OBVIOUS
  <2> QED BY <2>1, <2>2, <2>3, NoTrials
<1>2. CASE LoadRows \/ ScoreRow \/ OpenOutput \/ WriteRows \/ Reload \/ Pair \/ LoadRequests
  <2>1. /\ pc \in {"load", "score", "write", "reload", "pair", "requests"}
        /\ trials' = trials /\ rounds' = rounds /\ json' = json
        /\ pc' \in {"load", "score", "write", "reload", "pair", "requests", "trial", "json"}
        /\ pc' = "json" => rounds[2] = 0
    BY <1>2 DEF LoadRows, ScoreRow, Scoring, OpenOutput, WriteRows, Reload, Pair, LoadRequests,
                GoTo, disk, memory
  <2>2. trials' = <<>> /\ TrialsComparable'
    BY <2>1, SameReport DEF TrialsInv
  <2>3. rounds' \in Nat \X Nat /\ (rounds'[1] > 0 => rounds'[2] > 0)
    BY <2>1 DEF TrialsInv
  <2> QED BY <2>1, <2>2, <2>3, NoTrials
<1>3. CASE RefuseInput \/ RefuseRow \/ ScorerRaises \/ OrdersDiffer \/ PairsDiffer
           \/ RefuseRequests \/ TrialRaises \/ WriteMarkdown \/ Interrupt
  <2>1. Exit /\ (json' = json \/ json' = Broken)
    BY <1>3 DEF RefuseInput, RefuseRow, ScorerRaises, OrdersDiffer, PairsDiffer,
                RefuseRequests, TrialRaises, WriteMarkdown, Interrupt, Fail, disk
  <2> QED BY <2>1, ExitKeepsTrials
<1>4. CASE Trial
  BY <1>4, TrialKeeps
<1>5. CASE EndTrials
  BY <1>5, EndTrialsKeeps
<1>6. CASE WriteJson
  BY <1>6, WriteJsonKeepsTrials
<1>7. CASE Edit \/ UNCHANGED vars
  <2>1. pc' = pc /\ trials' = trials /\ rows' = rows /\ rounds' = rounds /\ json' = json
    BY <1>7 DEF Edit, vars, disk, memory
  <2>2. TrialsComparable'
    BY <2>1, SameReport DEF TrialsInv
  <2> QED BY <2>1, <2>2 DEF TrialsInv, IsTrial, IsSeq, AllRounds
<1> QED BY <1>1, <1>2, <1>3, <1>4, <1>5, <1>6, <1>7 DEF Next

(* Trials follow the rounds in every reachable state, whatever is killed   *)
(* or edited in between.                                                   *)
THEOREM TrialsInvariance == Spec => []TrialsInv
<1>1. Init => TrialsInv
  <2> SUFFICES ASSUME Init PROVE TrialsInv
    OBVIOUS
  <2>1. pc = "idle" /\ trials = <<>> /\ json = NoFile
    BY DEF Init
  <2>2. IsSeq(<<>>) /\ DOMAIN <<>> = {}
    BY DEF IsSeq
  <2>3. TrialsComparable
    BY <2>1 DEF TrialsComparable, Reported
  <2> QED BY <2>1, <2>2, <2>3 DEF TrialsInv
<1>2. TrialsInv /\ [Next]_vars => TrialsInv'
  <2>1. \A r \in Rounds : r \in Nat \X Nat
    BY ComparisonAssumption
  <2> QED BY <2>1, TrialsStep
<1> QED BY <1>1, <1>2, PTL DEF Spec

(* A report's trials can be compared: every scorer has as many, each is    *)
(* charged for its own requests, and balanced means even turns.            *)
THEOREM TrialsAreComparable == Spec => []TrialsComparable
<1>1. TrialsInv => TrialsComparable
  BY DEF TrialsInv
<1> QED BY <1>1, TrialsInvariance, PTL

-----------------------------------------------------------------------------
(* Adding up *)

(* Two parts of a finite set without a common element.                     *)
LEMMA TwoParts ==
  ASSUME NEW S, IsFiniteSet(S), NEW A \in SUBSET S, NEW B \in SUBSET S, A \cap B = {}
  PROVE  /\ Cardinality(A) \in Nat /\ Cardinality(B) \in Nat
         /\ Cardinality(A \cup B) = Cardinality(A) + Cardinality(B)
<1>1. /\ IsFiniteSet(A) /\ IsFiniteSet(B)
      /\ Cardinality(A) \in Nat /\ Cardinality(B) \in Nat
  BY FS_Subset, FS_CardinalityType
<1>2. Cardinality(A \cup B) = Cardinality(A) + Cardinality(B) - Cardinality(A \cap B)
  BY <1>1, FS_Union
<1>3. Cardinality(A \cap B) = 0
  BY FS_EmptySet
<1> QED BY <1>1, <1>2, <1>3

(* The counts of all families add up to those of all rows.                 *)
LEMMA SummaryAddsUp == ASSUME IsSeq(results) PROVE FamiliesAddUp(Summary)
<1> DEFINE D == DOMAIN results
           F == {results[i].family : i \in D}
           names == SetToSeq(F)
           Own(f) == {i \in D : results[i].family = f}
           OfFamily(S, k) == {x \in S : results[x].family = names[k]}
<1>1. D = 1 .. Len(results) /\ IsFiniteSet(D)
  <2>1. D = 1 .. Len(results) /\ Len(results) \in Nat
    BY DEF IsSeq
  <2> QED BY <2>1, FS_Interval
<1>2. IsFiniteSet(F)
  <2>1. [i \in D |-> results[i].family] \in Surjection(D, F)
    BY DEF Surjection
  <2> HIDE DEF D, F
  <2> QED BY <1>1, <2>1, FS_Surjection
<1>3. names \in Seq(F) /\ IsInjective(names) /\ \A f \in F : \E k \in DOMAIN names : names[k] = f
  <2> HIDE DEF F
  <2> QED BY <1>2, ListedOnce
<1> HIDE DEF names
<1>4. ASSUME NEW S \in SUBSET D
      PROVE  Total([k \in DOMAIN names |-> Cardinality(OfFamily(S, k))]) = Cardinality(S)
  <2> DEFINE part == [x \in S |-> results[x].family]
  <2>1. part \in [S -> F] /\ \A x \in S : \E k \in DOMAIN names : names[k] = part[x]
    BY <1>3
  <2>2. \A k \in DOMAIN names : {x \in S : part[x] = names[k]} = OfFamily(S, k)
    OBVIOUS
  <2>3. IsFiniteSet(S)
    BY <1>1, FS_Subset
  <2> HIDE DEF part, F, OfFamily, D
  <2>4. Total([k \in DOMAIN names |-> Cardinality({x \in S : part[x] = names[k]})]) = Cardinality(S)
    BY <1>3, <2>1, <2>3, PartsAddUp
  <2>5. [k \in DOMAIN names |-> Cardinality({x \in S : part[x] = names[k]})]
          = [k \in DOMAIN names |-> Cardinality(OfFamily(S, k))]
    BY <2>2
  <2> QED BY <2>4, <2>5
<1>5. /\ Summary.totals = Counts(results, D)
      /\ Summary.families = [f \in F |-> Counts(results, Own(f))]
  BY DEF Summary, Tally
<1> DEFINE right == {i \in D : results[i].correct}
           none == {i \in D : results[i].choice = None}
<1>6. /\ Summary.totals.examples = Cardinality(D)
      /\ Summary.totals.correct = Cardinality(right)
      /\ Summary.totals.invalid = Cardinality(none)
  BY <1>5 DEF Counts
<1>7. ASSUME NEW k \in DOMAIN names
      PROVE  /\ Summary.families[names[k]].examples = Cardinality(OfFamily(D, k))
             /\ Summary.families[names[k]].correct = Cardinality(OfFamily(right, k))
             /\ Summary.families[names[k]].invalid = Cardinality(OfFamily(none, k))
  <2>1. names[k] \in F
    BY <1>3
  <2>2. Summary.families[names[k]] = Counts(results, Own(names[k]))
    BY <1>5, <2>1
  <2>3. /\ Own(names[k]) = OfFamily(D, k)
        /\ {i \in Own(names[k]) : results[i].correct} = OfFamily(right, k)
        /\ {i \in Own(names[k]) : results[i].choice = None} = OfFamily(none, k)
    OBVIOUS
  <2> DEFINE own == Own(names[k])
  <2>4. /\ Counts(results, own).examples = Cardinality(own)
        /\ Counts(results, own).correct = Cardinality({i \in own : results[i].correct})
        /\ Counts(results, own).invalid = Cardinality({i \in own : results[i].choice = None})
    BY DEF Counts
  <2> HIDE DEF Own, OfFamily, right, none, D
  <2> QED BY <2>2, <2>3, <2>4
<1>8. DOMAIN Summary.families = F
  BY <1>5
<1>9. right \in SUBSET D /\ none \in SUBSET D /\ D \in SUBSET D
  OBVIOUS
<1> HIDE DEF Own, OfFamily, right, none, D, F
<1>10. /\ Summary.totals.examples = Total([k \in DOMAIN names |-> Summary.families[names[k]].examples])
       /\ Summary.totals.correct = Total([k \in DOMAIN names |-> Summary.families[names[k]].correct])
       /\ Summary.totals.invalid = Total([k \in DOMAIN names |-> Summary.families[names[k]].invalid])
  <2>1. [k \in DOMAIN names |-> Summary.families[names[k]].examples]
          = [k \in DOMAIN names |-> Cardinality(OfFamily(D, k))]
    BY <1>7
  <2>2. [k \in DOMAIN names |-> Summary.families[names[k]].correct]
          = [k \in DOMAIN names |-> Cardinality(OfFamily(right, k))]
    BY <1>7
  <2>3. [k \in DOMAIN names |-> Summary.families[names[k]].invalid]
          = [k \in DOMAIN names |-> Cardinality(OfFamily(none, k))]
    BY <1>7
  <2> QED BY <1>4, <1>6, <1>9, <2>1, <2>2, <2>3
<1> QED BY <1>8, <1>10 DEF FamiliesAddUp, names

(* Rows by their id: as many as there are, each of them right or wrong as   *)
(* it was scored.                                                          *)
LEMMA ByIdFacts ==
  ASSUME NEW lines, RowsOK(lines)
  PROVE  /\ IsFiniteSet(DOMAIN ById(lines))
         /\ \A id \in DOMAIN ById(lines) : ById(lines)[id].correct \in BOOLEAN
         /\ Cardinality(DOMAIN ById(lines)) = Tally(lines).examples
         /\ Cardinality({id \in DOMAIN ById(lines) : ById(lines)[id].correct}) = Tally(lines).correct
<1> DEFINE D == DOMAIN lines
           back == ById(lines)
           right == {i \in D : lines[i].correct}
           rightIds == {id \in DOMAIN back : back[id].correct}
<1>1. IsFiniteSet(D) /\ \A i, j \in D : lines[i].id = lines[j].id => i = j
  <2>1. D = 1 .. Len(lines) /\ Len(lines) \in Nat
    BY DEF RowsOK, IsSeq
  <2> QED BY <2>1, FS_Interval DEF RowsOK
<1>2. DOMAIN back = {lines[i].id : i \in D} /\ \A i \in D : back[lines[i].id] = lines[i]
  <2>1. DOMAIN back = {lines[i].id : i \in D}
    BY DEF ById
  <2>2. ASSUME NEW i \in D PROVE back[lines[i].id] = lines[i]
    <3>1. (CHOOSE j \in D : lines[j].id = lines[i].id) = i
      BY <1>1
    <3> QED BY <3>1 DEF ById
  <2> QED BY <2>1, <2>2
<1> HIDE DEF back
<1>3. \A id \in DOMAIN back : back[id].correct \in BOOLEAN
  BY <1>2 DEF RowsOK
<1>4. IsFiniteSet(DOMAIN back) /\ Cardinality(DOMAIN back) = Cardinality(D)
  <2>1. [i \in D |-> lines[i].id] \in Bijection(D, DOMAIN back)
    BY <1>1, <1>2 DEF Bijection, Injection, Surjection, IsInjective
  <2> HIDE DEF D
  <2>2. ExistsBijection(D, DOMAIN back)
    BY <2>1 DEF ExistsBijection
  <2> QED BY <1>1, <2>2, FS_Bijection
<1>5. Cardinality(rightIds) = Cardinality(right)
  <2>1. [i \in right |-> lines[i].id] \in Bijection(right, rightIds)
    <3>1. \A i \in right : lines[i].id \in rightIds
      BY <1>2
    <3>2. \A id \in rightIds : \E i \in right : lines[i].id = id
      BY <1>2
    <3>3. \A i, j \in right : lines[i].id = lines[j].id => i = j
      BY <1>1
    <3> HIDE DEF right, rightIds
    <3> QED BY <3>1, <3>2, <3>3 DEF Bijection, Injection, Surjection, IsInjective
  <2>2. IsFiniteSet(right)
    BY <1>1, FS_Subset
  <2> HIDE DEF right, rightIds
  <2>3. ExistsBijection(right, rightIds)
    BY <2>1 DEF ExistsBijection
  <2> QED BY <2>2, <2>3, FS_Bijection
<1>6. Tally(lines).examples = Cardinality(D) /\ Tally(lines).correct = Cardinality(right)
  BY DEF Tally, Counts
<1> QED BY <1>3, <1>4, <1>5, <1>6 DEF back

(* Of two scorings of the same rows, the four ways in which they can be     *)
(* right or wrong together.                                                *)
LEMMA FourWays ==
  ASSUME NEW left, NEW right, DOMAIN left = DOMAIN right, IsFiniteSet(DOMAIN left),
         \A id \in DOMAIN left : left[id].correct \in BOOLEAN /\ right[id].correct \in BOOLEAN
  PROVE  /\ Where(left, right, TRUE, TRUE) \in Nat /\ Where(left, right, TRUE, FALSE) \in Nat
         /\ Where(left, right, FALSE, TRUE) \in Nat
         /\ Where(left, right, TRUE, TRUE) + Where(left, right, TRUE, FALSE)
              = Cardinality({id \in DOMAIN left : left[id].correct})
         /\ Where(left, right, TRUE, TRUE) + Where(left, right, FALSE, TRUE)
              = Cardinality({id \in DOMAIN right : right[id].correct})
         /\ Where(left, right, TRUE, TRUE) + Where(left, right, TRUE, FALSE)
              + Where(left, right, FALSE, TRUE) + Where(left, right, FALSE, FALSE)
              = Cardinality(DOMAIN left)
<1> DEFINE D == DOMAIN left
           TT == {id \in D : left[id].correct = TRUE /\ right[id].correct = TRUE}
           TF == {id \in D : left[id].correct = TRUE /\ right[id].correct = FALSE}
           FT == {id \in D : left[id].correct = FALSE /\ right[id].correct = TRUE}
           FF == {id \in D : left[id].correct = FALSE /\ right[id].correct = FALSE}
           L == {id \in D : left[id].correct}
           R == {id \in D : right[id].correct}
           tt == Cardinality(TT)
           tf == Cardinality(TF)
           ft == Cardinality(FT)
           ff == Cardinality(FF)
<1>1. /\ Where(left, right, TRUE, TRUE) = tt /\ Where(left, right, TRUE, FALSE) = tf
      /\ Where(left, right, FALSE, TRUE) = ft /\ Where(left, right, FALSE, FALSE) = ff
  BY DEF Where
<1>2. TT \cup TF = L /\ TT \cup FT = R /\ FT \cup FF = D \ L /\ L \cup (D \ L) = D
  OBVIOUS
<1>3. TT \cap TF = {} /\ TT \cap FT = {} /\ FT \cap FF = {} /\ L \cap (D \ L) = {}
  OBVIOUS
<1>4. /\ TT \in SUBSET D /\ TF \in SUBSET D /\ FT \in SUBSET D /\ FF \in SUBSET D
      /\ L \in SUBSET D /\ D \ L \in SUBSET D /\ IsFiniteSet(D)
  OBVIOUS
<1> HIDE DEF TT, TF, FT, FF, L, R, D
<1>5. tt + tf = Cardinality(L)
  BY <1>2, <1>3, <1>4, TwoParts
<1>6. tt + ft = Cardinality(R)
  BY <1>2, <1>3, <1>4, TwoParts
<1>7. ft + ff = Cardinality(D \ L)
  BY <1>2, <1>3, <1>4, TwoParts
<1>8. Cardinality(L) + Cardinality(D \ L) = Cardinality(D)
  BY <1>2, <1>3, <1>4, TwoParts
<1>9. tt \in Nat /\ tf \in Nat /\ ft \in Nat /\ ff \in Nat
  BY <1>4, FS_Subset, FS_CardinalityType
<1> HIDE DEF tt, tf, ft, ff
<1>10. tt + tf + ft + ff = Cardinality(D)
  BY <1>5, <1>7, <1>8, <1>9
<1> QED BY <1>1, <1>5, <1>6, <1>9, <1>10 DEF L, R, D

(* What is counted of two files read back is what was counted while they   *)
(* were scored.                                                            *)
LEMMA FilesAddUp ==
  ASSUME NEW l, NEW r, RowsOK(l), RowsOK(r), DOMAIN ById(l) = DOMAIN ById(r)
  PROVE  /\ TableAddsUp(Paired(ById(l), ById(r)), Tally(l), Tally(r))
         /\ OrderSensitivity(ById(l), ById(r)).regressions
              - OrderSensitivity(ById(l), ById(r)).recoveries
              = Tally(l).correct - Tally(r).correct
<1> DEFINE left == ById(l)
           right == ById(r)
           C(f) == Cardinality({id \in DOMAIN f : f[id].correct})
<1>1. /\ IsFiniteSet(DOMAIN left) /\ DOMAIN left = DOMAIN right
      /\ \A id \in DOMAIN left : left[id].correct \in BOOLEAN /\ right[id].correct \in BOOLEAN
      /\ Cardinality(DOMAIN left) = Tally(l).examples /\ C(left) = Tally(l).correct
      /\ Cardinality(DOMAIN right) = Tally(r).examples /\ C(right) = Tally(r).correct
  BY ByIdFacts
<1> HIDE DEF left, right
<1>2. /\ Where(left, right, TRUE, TRUE) \in Nat /\ Where(left, right, TRUE, FALSE) \in Nat
      /\ Where(left, right, FALSE, TRUE) \in Nat
      /\ Where(left, right, TRUE, TRUE) + Where(left, right, TRUE, FALSE) = C(left)
      /\ Where(left, right, TRUE, TRUE) + Where(left, right, FALSE, TRUE) = C(right)
      /\ Where(left, right, TRUE, TRUE) + Where(left, right, TRUE, FALSE)
           + Where(left, right, FALSE, TRUE) + Where(left, right, FALSE, FALSE)
           = Cardinality(DOMAIN left)
  BY <1>1, FourWays
<1> HIDE DEF C
<1>3. TableAddsUp(Paired(left, right), Tally(l), Tally(r))
  BY <1>1, <1>2 DEF TableAddsUp, Paired
<1>4. Where(left, right, TRUE, FALSE) - Where(left, right, FALSE, TRUE) = C(left) - C(right)
  <2> DEFINE tt == Where(left, right, TRUE, TRUE)
             tf == Where(left, right, TRUE, FALSE)
             ft == Where(left, right, FALSE, TRUE)
             cl == C(left)
             cr == C(right)
  <2>1. tt \in Nat /\ tf \in Nat /\ ft \in Nat /\ tt + tf = cl /\ tt + ft = cr
    BY <1>2
  <2> HIDE DEF tt, tf, ft, cl, cr
  <2>2. tf - ft = cl - cr
    BY <2>1
  <2> QED BY <2>2 DEF tf, ft, cl, cr
<1>5. /\ OrderSensitivity(left, right).regressions = Where(left, right, TRUE, FALSE)
      /\ OrderSensitivity(left, right).recoveries = Where(left, right, FALSE, TRUE)
  BY DEF OrderSensitivity
<1> QED BY <1>1, <1>3, <1>4, <1>5 DEF left, right

(* Each scorer has two benchmarks, one after the other.                    *)
LEMMA NthFacts ==
  ASSUME NEW k \in ToSet(ScorerKeys)
  PROVE  /\ Nth(k, FALSE) \in 1 .. TotalBenchmarks /\ Nth(k, TRUE) \in 1 .. TotalBenchmarks
         /\ Nth(k, FALSE) = Nth(k, TRUE) - 1 /\ Reversed(Nth(k, TRUE))
<1>1. PICK a \in 1 .. 4 : k = ScorerKeys[a]
  BY KeysDiffer
<1>2. \A n \in 1 .. 8 : /\ (n + 1) \div 2 \in 1 .. 4
                        /\ (n + 1) \div 2 = a <=> n = 2 * a - 1 \/ n = 2 * a
  OBVIOUS
<1>3. \A n \in 1 .. 8 : KeyOf(n) = k <=> n = 2 * a - 1 \/ n = 2 * a
  BY <1>1, <1>2, KeysDiffer DEF KeyOf
<1>4. Reversed(2 * a) /\ ~Reversed(2 * a - 1) /\ 2 * a \in 1 .. 8 /\ 2 * a - 1 \in 1 .. 8
  BY DEF Reversed
<1>5. Reversed(2 * a) = TRUE /\ Reversed(2 * a - 1) = FALSE
  BY <1>4 DEF Reversed
<1>6. Nth(k, TRUE) = 2 * a
  <2>1. \A n \in 1 .. 8 : KeyOf(n) = k /\ Reversed(n) = TRUE <=> n = 2 * a
    BY <1>3, <1>4, <1>5
  <2> QED BY <1>4, <2>1, Eight DEF Nth
<1>7. Nth(k, FALSE) = 2 * a - 1
  <2>1. \A n \in 1 .. 8 : KeyOf(n) = k /\ Reversed(n) = FALSE <=> n = 2 * a - 1
    BY <1>3, <1>4, <1>5
  <2> QED BY <1>4, <2>1, Eight DEF Nth
<1> QED BY <1>4, <1>6, <1>7, Eight

(* What the property says depends on the report only.                      *)
LEMMA SameSums ==
  ASSUME ReportAddsUp, json' = json \/ json' = Broken
  PROVE  ReportAddsUp'
<1>1. CASE json' = json
  BY <1>1 DEF ReportAddsUp, Reported, TotalsOf, TotalBenchmarks
<1>2. CASE json' = Broken
  BY <1>2 DEF ReportAddsUp, Reported
<1> QED BY <1>1, <1>2

(* Steps that write no file and neither sum up nor read back.              *)
LEMMA OtherSteps ==
  ASSUME RowsInv, UNCHANGED <<disk, summaries, records>>, RowsOK(results)',
         Len(records) = (IF pc' \in {"pair", "requests", "trial", "json", "md"} THEN TotalBenchmarks
                         ELSE 2 * ((nth' - 1) \div 2)),
         pc' = "reload" => Reversed(nth'),
         pc' \in {"requests", "trial", "json"} => IdsAgree
  PROVE  RowsInv'
<1>1. files' = files /\ json' = json /\ summaries' = summaries /\ records' = records
  BY DEF disk
<1>2. SummariesOK'
  BY <1>1 DEF RowsInv, SummariesOK
<1>3. RecordsOK'
  BY <1>1 DEF RowsInv, RecordsOK, Read, Ids, IdsAgree, TotalBenchmarks, IsSeq, Reversed
<1>4. ReportAddsUp'
  BY <1>1, SameSums DEF RowsInv
<1> QED BY <1>2, <1>3, <1>4 DEF RowsInv

(* The end of a process forgets all rows.                                  *)
LEMMA ExitKeepsRows ==
  ASSUME RowsInv, Exit, json' = json \/ json' = Broken PROVE RowsInv'
<1>1. /\ pc' = "idle" /\ nth' = 1 /\ summaries' = <<>> /\ results' = <<>> /\ records' = <<>>
  BY DEF Exit, GoTo
<1>2. IsSeq(<<>>) /\ Len(<<>>) = 0 /\ DOMAIN <<>> = {}
  BY DEF IsSeq
<1>3. RowsOK(results)'
  BY <1>1, <1>2 DEF RowsOK, IsSeq
<1>4. SummariesOK'
  BY <1>1, <1>2 DEF SummariesOK
<1>5. RecordsOK'
  BY <1>1, <1>2 DEF RecordsOK, IsSeq
<1>6. ReportAddsUp'
  BY SameSums DEF RowsInv
<1> QED BY <1>3, <1>4, <1>5, <1>6 DEF RowsInv

(* A row that is accepted has an id of its own.                            *)
LEMMA ScoreRowKeepsRows ==
  ASSUME RowsInv, ScoreRow PROVE RowsInv'
<1>1. /\ pc = "score" /\ pc' = "score" /\ nth' = nth /\ UNCHANGED <<disk, summaries, records>>
      /\ RowAccepted
  BY DEF ScoreRow, Scoring, GoTo
<1>2. PICK choice : results' = Append(results, [id |-> ExampleId, family |-> Row.family,
                                               choice |-> choice, correct |-> choice = Row.label])
  BY DEF ScoreRow
<1> DEFINE x == [id |-> ExampleId, family |-> Row.family, choice |-> choice,
                 correct |-> choice = Row.label]
<1>3. x.id = ExampleId /\ x.correct \in BOOLEAN
  OBVIOUS
<1> HIDE DEF x
<1>4. /\ IsSeq(results') /\ DOMAIN results' = 1 .. Len(results) + 1
      /\ DOMAIN results = 1 .. Len(results) /\ Len(results) \in Nat
      /\ \A i \in 1 .. Len(results) : results'[i] = results[i]
      /\ results'[Len(results) + 1] = x
  BY <1>2, AppendIsSeq DEF x, RowsInv, RowsOK
<1>5. \A i \in DOMAIN results : results[i].id # x.id
  BY <1>1, <1>3 DEF RowAccepted
<1>6. RowsOK(results')
  <2>1. \A i \in 1 .. Len(results) + 1 : i = Len(results) + 1 \/ i \in 1 .. Len(results)
    BY <1>4
  <2> QED BY <1>3, <1>4, <1>5, <2>1 DEF RowsInv, RowsOK
<1>7. Len(records) = 2 * ((nth - 1) \div 2)
  BY <1>1 DEF RowsInv, RecordsOK
<1>8. RowsOK(results)'
  BY <1>6 DEF RowsOK, IsSeq
<1> QED BY <1>1, <1>7, <1>8, OtherSteps

(* A file is opened that has not been summed up yet.                       *)
LEMMA OpenOutputKeepsRows ==
  ASSUME ReportInv, RowsInv, OpenOutput PROVE RowsInv'
<1>1. /\ pc = "score" /\ pc' = "write" /\ json' = json /\ nth' = nth
      /\ summaries' = summaries /\ results' = results /\ records' = records
      /\ files' = [files EXCEPT ![nth] = [run |-> launches, records |-> <<>>]]
  BY DEF OpenOutput, GoTo, memory
<1>2. \A n \in DOMAIN summaries : files'[n] = files[n]
  <2>1. DOMAIN summaries = 1 .. nth - 1 /\ nth \in 1 .. 8 /\ DOMAIN files = 1 .. 8
    BY <1>1, Eight DEF ReportInv, StageOK, FilesOK, Done, IsSeq
  <2>2. \A n \in 1 .. nth - 1 : n \in 1 .. 8 /\ n # nth
    BY <2>1
  <2> QED BY <1>1, <2>1, <2>2
<1>3. RowsOK(results)'
  BY <1>1 DEF RowsInv, RowsOK, IsSeq
<1>4. SummariesOK'
  BY <1>1, <1>2 DEF RowsInv, SummariesOK
<1>5. RecordsOK'
  BY <1>1, <1>2 DEF RowsInv, RecordsOK, Read, Ids, IsSeq
<1>6. ReportAddsUp'
  BY <1>1, SameSums DEF RowsInv
<1> QED BY <1>3, <1>4, <1>5, <1>6 DEF RowsInv

(* The rows written are those summed up.                                   *)
LEMMA WriteRowsKeepsRows ==
  ASSUME ReportInv, RowsInv, NoFileIsNoRows, WriteRows PROVE RowsInv'
<1>1. /\ pc = "write" /\ pc' = (IF Reversed(nth) THEN "reload" ELSE "load")
      /\ json' = json /\ records' = records /\ results' = results
      /\ nth' = (IF Reversed(nth) THEN nth ELSE nth + 1)
      /\ summaries' = Append(summaries, Summary)
      /\ files' = [files EXCEPT ![nth].records = @ \o results]
  BY DEF WriteRows, GoTo
<1>2. /\ nth \in 1 .. 8 /\ IsSeq(summaries) /\ IsSeq(results) /\ Len(summaries) = nth - 1
      /\ Len(records) = 2 * ((nth - 1) \div 2) /\ IsSeq(records)
  BY <1>1, Eight DEF ReportInv, StageOK, Done, RowsInv, RecordsOK
<1>3. /\ files'[nth].records = results
      /\ \A n \in 1 .. 8 : n # nth => files'[n] = files[n]
  BY <1>1, <1>2, WrittenFile, Eight
<1>4. /\ DOMAIN summaries' = 1 .. nth /\ DOMAIN summaries = 1 .. nth - 1
      /\ \A n \in 1 .. nth - 1 : summaries'[n] = summaries[n]
      /\ summaries'[nth] = Summary
  <2> HIDE DEF Summary
  <2>1. (nth - 1) + 1 = nth
    BY <1>2
  <2> QED BY <1>1, <1>2, <2>1, AppendIsSeq
<1>5. \A n \in 1 .. nth - 1 : n \in 1 .. 8 /\ n # nth
  BY <1>2
<1>6. SummariesOK'
  <2>1. FamiliesAddUp(Summary)
    BY <1>2, SummaryAddsUp
  <2>2. ASSUME NEW n \in DOMAIN summaries'
        PROVE  RowsOK(files'[n].records) /\ FamiliesAddUp(summaries'[n])
    <3>1. CASE n = nth
      BY <1>3, <1>4, <2>1, <3>1 DEF RowsInv
    <3>2. CASE n # nth
      <4>1. n \in 1 .. nth - 1
        BY <1>2, <1>4, <3>2
      <4> QED BY <1>3, <1>4, <1>5, <4>1 DEF RowsInv, SummariesOK
    <3> QED BY <3>1, <3>2
  <2> QED BY <2>2 DEF SummariesOK
<1>7. RecordsOK'
  <2>1. \A n \in DOMAIN records : n \in 1 .. nth - 1 /\ n \in 1 .. nth
    BY <1>2, <1>4 DEF RowsInv, RecordsOK
  <2>2. \A n \in DOMAIN records :
          /\ n \in DOMAIN summaries' /\ records'[n] = ById(files'[n].records)
          /\ Reversed(n) => DOMAIN records'[n - 1] = DOMAIN records'[n]
    BY <1>1, <1>3, <1>4, <1>5, <2>1 DEF RowsInv, RecordsOK, Read, Ids
  <2>3. Len(records') = 2 * ((nth' - 1) \div 2)
    BY <1>1, <1>2 DEF Reversed
  <2>4. pc' \in {"reload", "load"} /\ (pc' = "reload" => Reversed(nth'))
    BY <1>1
  <2> QED BY <1>1, <1>2, <2>2, <2>3, <2>4 DEF RecordsOK, Read, Ids, IsSeq, Reversed
<1>8. ReportAddsUp'
  BY <1>1, SameSums DEF RowsInv
<1>9. RowsOK(results)'
  BY <1>1 DEF RowsInv, RowsOK, IsSeq
<1> QED BY <1>6, <1>7, <1>8, <1>9 DEF RowsInv

(* Two files are read back, and hold the same rows.                        *)
LEMMA ReloadKeepsRows ==
  ASSUME ReportInv, RowsInv, Reload PROVE RowsInv'
<1> DEFINE one == Read(nth - 1)
           two == Read(nth)
<1>1. /\ pc = "reload" /\ pc' = (IF nth = 8 THEN "pair" ELSE "load")
      /\ nth' = (IF nth = 8 THEN nth ELSE nth + 1) /\ DOMAIN one = DOMAIN two
      /\ records' = records \o <<one, two>>
      /\ files' = files /\ json' = json /\ summaries' = summaries /\ results' = results
  BY Eight DEF Reload, GoTo, disk
<1> HIDE DEF one, two
<1>2. /\ nth \in 1 .. 8 /\ IsSeq(summaries) /\ Len(summaries) = nth
      /\ Reversed(nth) /\ Len(records) = 2 * ((nth - 1) \div 2) /\ IsSeq(records)
  BY <1>1, Eight DEF ReportInv, StageOK, Done, RowsInv, RecordsOK
<1>3. nth % 2 = 0 /\ Len(records) = nth - 2 /\ nth - 1 \in Nat
  BY <1>2 DEF Reversed
<1>4. DOMAIN summaries = 1 .. nth /\ DOMAIN records = 1 .. nth - 2
  BY <1>2, <1>3 DEF IsSeq
<1>5. /\ IsSeq(records') /\ Len(records') = nth /\ DOMAIN records' = 1 .. nth
      /\ \A n \in 1 .. nth - 2 : records'[n] = records[n]
      /\ records'[nth - 1] = one /\ records'[nth] = two
  <2> DEFINE T == ToSet(records) \cup {one, two}
  <2>1. records \in Seq(T) /\ <<one, two>> \in Seq(T)
    <3>1. records \in Seq(ToSet(records))
      BY <1>2 DEF IsSeq
    <3> QED BY <3>1
  <2> HIDE DEF T
  <2>2. /\ records' \in Seq(T) /\ Len(records') = (nth - 2) + 2
        /\ \A n \in 1 .. nth - 2 : records'[n] = records[n]
        /\ records'[(nth - 2) + 1] = one /\ records'[(nth - 2) + 2] = two
    BY <1>1, <1>3, <2>1
  <2>3. (nth - 2) + 2 = nth /\ (nth - 2) + 1 = nth - 1
    BY <1>2
  <2>4. IsSeq(records')
    BY <2>2, SeqIsSeq
  <2> QED BY <2>2, <2>3, <2>4
<1>6. RecordsOK'
  <2>1. \A n \in 1 .. nth : n = nth \/ n = nth - 1 \/ n \in 1 .. nth - 2
    BY <1>2
  <2>2. /\ \A n \in 1 .. nth - 2 : records[n] = Read(n)
        /\ \A n \in 1 .. nth - 2 : n % 2 = 0 => DOMAIN records[n - 1] = DOMAIN records[n]
    BY <1>4 DEF RowsInv, RecordsOK, Ids, Reversed
  <2>3. ASSUME NEW n \in DOMAIN records'
        PROVE  n \in DOMAIN summaries' /\ records'[n] = Read(n)
    <3>1. n \in DOMAIN summaries'
      BY <1>1, <1>4, <1>5
    <3>2. CASE n = nth
      BY <1>5, <3>1, <3>2 DEF two
    <3>3. CASE n = nth - 1
      BY <1>5, <3>1, <3>3 DEF one
    <3>4. CASE n \in 1 .. nth - 2
      <4>1. records'[n] = records[n] /\ records[n] = Read(n)
        BY <1>5, <2>2, <3>4
      <4> QED BY <3>1, <4>1
    <3> QED BY <1>5, <2>1, <3>2, <3>3, <3>4
  <2>4. ASSUME NEW n \in DOMAIN records', Reversed(n)
        PROVE  DOMAIN records'[n - 1] = DOMAIN records'[n]
    <3>1. CASE n = nth
      BY <1>1, <1>5, <3>1
    <3>2. CASE n = nth - 1
      <4>1. n % 2 = 0
        BY <2>4 DEF Reversed
      <4> QED BY <1>2, <1>3, <3>2, <4>1
    <3>3. CASE n \in 1 .. nth - 2
      <4>1. n - 1 \in 1 .. nth - 2
        BY <1>2, <2>4, <3>3 DEF Reversed
      <4>2. records'[n] = records[n] /\ records'[n - 1] = records[n - 1]
        BY <1>5, <3>3, <4>1
      <4>3. DOMAIN records[n - 1] = DOMAIN records[n]
        <5>1. n % 2 = 0
          BY <2>4 DEF Reversed
        <5> QED BY <2>2, <3>3, <5>1
      <4> QED BY <4>2, <4>3
    <3> QED BY <1>5, <2>1, <3>1, <3>2, <3>3
  <2>5. Len(records') = IF pc' = "pair" THEN TotalBenchmarks ELSE 2 * ((nth' - 1) \div 2)
    BY <1>1, <1>2, <1>3, <1>5, Eight
  <2>6. \A n : Read(n)' = Read(n)
    BY <1>1 DEF Read
  <2> QED BY <1>1, <1>5, <2>3, <2>4, <2>5, <2>6
          DEF RecordsOK, Ids, Read, IsSeq, Reversed, TotalBenchmarks
<1>7. SummariesOK'
  BY <1>1 DEF RowsInv, SummariesOK
<1>8. ReportAddsUp'
  BY <1>1, SameSums DEF RowsInv
<1>9. RowsOK(results)'
  BY <1>1 DEF RowsInv, RowsOK, IsSeq
<1> QED BY <1>6, <1>7, <1>8, <1>9 DEF RowsInv

(* The report is made of summaries and records that belong together.       *)
LEMMA WriteJsonKeepsRows ==
  ASSUME ReportInv, RowsInv, WriteJson PROVE RowsInv'
<1>1. /\ pc = "json" /\ pc' = "md" /\ json' = Report
      /\ files' = files /\ nth' = nth /\ summaries' = summaries /\ results' = results
      /\ records' = records
  BY DEF WriteJson, GoTo, memory
<1>2. /\ DOMAIN records = 1 .. 8 /\ DOMAIN summaries = 1 .. 8 /\ IdsAgree
  BY <1>1, Eight DEF ReportInv, StageOK, Done, RowsInv, RecordsOK, IsSeq
<1>3. \A n \in 1 .. 8 :
        /\ RowsOK(files[n].records) /\ FamiliesAddUp(summaries[n])
        /\ records[n] = ById(files[n].records)
        /\ summaries[n].totals = Tally(files[n].records)
        /\ Reversed(n) => DOMAIN records[n - 1] = DOMAIN records[n]
  BY <1>2 DEF ReportInv, FilesOK, RowsInv, SummariesOK, RecordsOK, Read, Ids
<1>4. /\ json'.summaries = summaries
      /\ \A b \in Baselines, reversed \in BOOLEAN :
           json'.paired[b][reversed]
             = Paired(records[Nth(Primary, reversed)], records[Nth(b, reversed)])
      /\ \A k \in ToSet(ScorerKeys) :
           json'.order[k] = OrderSensitivity(records[Nth(k, FALSE)], records[Nth(k, TRUE)])
  BY <1>1 DEF Report
<1>5. ASSUME NEW b \in Baselines, NEW reversed \in BOOLEAN
      PROVE  TableAddsUp(json'.paired[b][reversed], summaries[Nth(Primary, reversed)].totals,
                         summaries[Nth(b, reversed)].totals)
  <2>1. b \in ToSet(ScorerKeys) /\ Primary \in ToSet(ScorerKeys)
    BY DEF Baselines, Primary, ScorerKeys, ToSet
  <2> DEFINE p == Nth(Primary, reversed)
             q == Nth(b, reversed)
  <2>2. p \in 1 .. 8 /\ q \in 1 .. 8
    <3>1. CASE reversed = TRUE
      BY <2>1, <3>1, NthFacts, Eight
    <3>2. CASE reversed = FALSE
      BY <2>1, <3>2, NthFacts, Eight
    <3> QED BY <3>1, <3>2
  <2>3. DOMAIN records[p] = DOMAIN records[q]
    BY <1>2 DEF IdsAgree, Ids
  <2>4. json'.paired[b][reversed] = Paired(records[p], records[q])
    BY <1>4
  <2> HIDE DEF p, q
  <2>5. TableAddsUp(Paired(records[p], records[q]), summaries[p].totals, summaries[q].totals)
    BY <1>3, <2>2, <2>3, FilesAddUp
  <2> QED BY <2>4, <2>5 DEF p, q
<1>6. ASSUME NEW k \in ToSet(ScorerKeys)
      PROVE  json'.order[k].regressions - json'.order[k].recoveries
               = summaries[Nth(k, FALSE)].totals.correct - summaries[Nth(k, TRUE)].totals.correct
  <2> DEFINE p == Nth(k, FALSE)
             q == Nth(k, TRUE)
  <2>1. p \in 1 .. 8 /\ q \in 1 .. 8 /\ DOMAIN records[p] = DOMAIN records[q]
    BY <1>3, NthFacts, Eight
  <2>2. json'.order[k] = OrderSensitivity(records[p], records[q])
    BY <1>4
  <2> HIDE DEF p, q
  <2>3. OrderSensitivity(records[p], records[q]).regressions
          - OrderSensitivity(records[p], records[q]).recoveries
          = summaries[p].totals.correct - summaries[q].totals.correct
    <3> DEFINE l == files[p].records
               r == files[q].records
    <3>1. /\ RowsOK(l) /\ RowsOK(r) /\ records[p] = ById(l) /\ records[q] = ById(r)
          /\ summaries[p].totals = Tally(l) /\ summaries[q].totals = Tally(r)
      BY <1>3, <2>1
    <3> HIDE DEF l, r
    <3>2. OrderSensitivity(ById(l), ById(r)).regressions
            - OrderSensitivity(ById(l), ById(r)).recoveries
            = Tally(l).correct - Tally(r).correct
      BY <2>1, <3>1, FilesAddUp
    <3> QED BY <3>1, <3>2
  <2> QED BY <2>2, <2>3 DEF p, q
<1>7. ReportAddsUp'
  BY <1>3, <1>4, <1>5, <1>6, Eight DEF ReportAddsUp, TotalsOf
<1>8. SummariesOK'
  BY <1>1 DEF RowsInv, SummariesOK
<1>9. RecordsOK'
  BY <1>1 DEF RowsInv, RecordsOK, Read, Ids, TotalBenchmarks, IsSeq, Reversed
<1>10. RowsOK(results)'
  BY <1>1 DEF RowsInv, RowsOK, IsSeq
<1> QED BY <1>7, <1>8, <1>9, <1>10 DEF RowsInv

(* Every action keeps it.                                                  *)
LEMMA RowsStep ==
  ASSUME NoFileIsNoRows, ReportInv, RowsInv, [Next]_vars PROVE RowsInv'
<1> DEFINE late == {"pair", "requests", "trial", "json", "md"}
           Kept(l, n) == IF l \in late THEN TotalBenchmarks ELSE 2 * ((n - 1) \div 2)
<1>1. Len(records) = Kept(pc, nth) /\ RowsOK(results) /\ (pc = "reload" => Reversed(nth))
      /\ (pc \in {"requests", "trial", "json"} => IdsAgree)
  BY DEF RowsInv, RecordsOK
<1>2. CASE \E r \in Rounds : Launch(r)
  <2>1. /\ pc = "idle" /\ pc' \in {"idle", "load"} /\ nth' = nth /\ results' = results
        /\ UNCHANGED <<disk, summaries, records>>
    BY <1>2 DEF Launch
  <2>2. RowsOK(results)'
    BY <1>1, <2>1 DEF RowsOK, IsSeq
  <2> QED BY <1>1, <2>1, <2>2, OtherSteps
<1>3. CASE LoadRows
  <2>1. /\ pc = "load" /\ pc' = "score" /\ nth' = nth /\ results' = <<>>
        /\ UNCHANGED <<disk, summaries, records>>
    BY <1>3 DEF LoadRows, GoTo
  <2>2. RowsOK(results)'
    BY <2>1 DEF RowsOK, IsSeq
  <2> QED BY <1>1, <2>1, <2>2, OtherSteps
<1>4. CASE RefuseInput \/ RefuseRow \/ ScorerRaises \/ OrdersDiffer \/ PairsDiffer
           \/ RefuseRequests \/ TrialRaises \/ WriteMarkdown \/ Interrupt
  <2>1. Exit /\ (json' = json \/ json' = Broken)
    BY <1>4 DEF RefuseInput, RefuseRow, ScorerRaises, OrdersDiffer, PairsDiffer,
                RefuseRequests, TrialRaises, Fail, WriteMarkdown, Interrupt, disk
  <2> QED BY <2>1, ExitKeepsRows
<1>5. CASE ScoreRow
  BY <1>5, ScoreRowKeepsRows
<1>6. CASE OpenOutput
  BY <1>6, OpenOutputKeepsRows
<1>7. CASE WriteRows
  BY <1>7, WriteRowsKeepsRows
<1>8. CASE Reload
  BY <1>8, ReloadKeepsRows
<1>9. CASE Pair \/ LoadRequests \/ Trial \/ EndTrials
  <2>1. /\ pc \in {"pair", "requests", "trial"} /\ pc' \in {"requests", "trial", "json"}
        /\ results' = results /\ UNCHANGED <<disk, summaries, records>> /\ IdsAgree
    BY <1>1, <1>9 DEF Pair, LoadRequests, Trial, EndTrials, InTrials, GoTo, memory
  <2>2. RowsOK(results)'
    BY <1>1, <2>1 DEF RowsOK, IsSeq
  <2> QED BY <1>1, <2>1, <2>2, OtherSteps
<1>10. CASE WriteJson
  BY <1>10, WriteJsonKeepsRows
<1>11. CASE Edit \/ UNCHANGED vars
  <2>1. /\ pc' = pc /\ nth' = nth /\ results' = results
        /\ UNCHANGED <<disk, summaries, records>>
    BY <1>11 DEF Edit, vars, memory
  <2>2. RowsOK(results)'
    BY <1>1, <2>1 DEF RowsOK, IsSeq
  <2> QED BY <1>1, <2>1, <2>2, OtherSteps
<1> QED BY <1>2, <1>3, <1>4, <1>5, <1>6, <1>7, <1>8, <1>9, <1>10, <1>11 DEF Next

(* Initially nothing has been scored.                                      *)
LEMMA InitRows == Init => RowsInv
<1> SUFFICES ASSUME Init PROVE RowsInv
  OBVIOUS
<1>1. /\ pc = "idle" /\ nth = 1 /\ summaries = <<>> /\ results = <<>> /\ records = <<>>
      /\ json = NoFile
  BY DEF Init
<1>2. IsSeq(<<>>) /\ Len(<<>>) = 0 /\ DOMAIN <<>> = {}
  BY DEF IsSeq
<1>3. RowsOK(results) /\ SummariesOK
  BY <1>1, <1>2 DEF RowsOK, SummariesOK
<1>4. RecordsOK
  BY <1>1, <1>2 DEF RecordsOK
<1>5. ReportAddsUp
  BY <1>1 DEF ReportAddsUp, Reported
<1> QED BY <1>3, <1>4, <1>5 DEF RowsInv

(* What was scored, written, summed up and read back stays together, with   *)
(* edits of the input between any two steps.                               *)
THEOREM RowsInvariance == ASSUME NoFileIsNoRows PROVE Spec => []RowsInv
<1>1. ReportInv /\ RowsInv /\ [Next]_vars => RowsInv'
  BY NoFileIsNoRows, RowsStep
<1> QED BY <1>1, InitRows, ReportInvariance, NoFileIsNoRows, PTL DEF Spec

(* The tables of a report agree with its summaries, and these with their   *)
(* split by family, for all inputs, scorers, edits and interruptions.      *)
THEOREM ReportsAddUp == ASSUME NoFileIsNoRows PROVE Spec => []ReportAddsUp
<1>1. RowsInv => ReportAddsUp
  BY DEF RowsInv
<1> QED BY <1>1, RowsInvariance, NoFileIsNoRows, PTL
=============================================================================

----------------------------- MODULE SnakeEpisode -----------------------------
(***************************************************************************)
(* main() of examples/snake/play.py, which plays a headless episode and    *)
(* appends every decision to a trace, and examples/snake/video.py, which   *)
(* renders a trace frame by frame and has ffmpeg make a video of them.     *)
(* Episodes and renderings follow one another, or run side by side; any of *)
(* them may fail or be killed, and their files stay.  SnakeGame says what  *)
(* a move does to the board; here a game is which one it is, its steps and *)
(* whether the snake is alive.                                             *)
(***************************************************************************)
EXTENDS Totals, SequencesExt, FiniteSets

CONSTANTS
  MaxSteps,      \* values of --max-steps
  HoldFrames,    \* values of --hold-frames
  Work,          \* tokens that one decision of the model may take
  MaxEpisodes, MaxRenderings,  \* bounds
  Absent, Broken

(* The record of a decision, in the trace.                                 *)
Records == [id : Nat, step : Nat, tokens : Nat, mode : {"model", "deterministic"}]

ASSUME EpisodeAssumption ==
  /\ MaxSteps \subseteq Nat \ {0} /\ HoldFrames \subseteq Nat \ {0} /\ Work \subseteq Nat
  /\ MaxEpisodes \in Nat /\ MaxRenderings \in Nat
  /\ Absent \notin Seq(Records)

VARIABLES
  trace,     \* the trace file: a record of each decision
  player,    \* where the episode is
  game, maxSteps,
  charged,   \* runtime metrics of the backend
  totals,    \* kept by main() over the episode
  evaluated, \* tokens the backend has evaluated in the episode
  pending,   \* the record of the move being made
  summary,   \* what the last episode printed at its end, or Absent
  renderer,  \* where the rendering is
  rows,      \* the trace as loaded by the rendering
  hold, copied,  \* frames for each row; frames made
  frames,    \* the frames directory, by number
  video      \* the video file

player_vars == <<trace, player, game, maxSteps, charged, totals, evaluated, pending, summary>>
video_vars == <<renderer, rows, hold, copied, frames, video>>
episodeVars == <<player_vars, video_vars>>

NoTotals == [decisions |-> 0, tokens |-> 0]

EpisodeInit ==
  /\ trace = Absent /\ player = "idle" /\ game = [id |-> 0, steps |-> 0, alive |-> FALSE]
  /\ maxSteps = 1 /\ charged = 0 /\ totals = NoTotals /\ evaluated = 0
  /\ pending = Absent /\ summary = Absent
  /\ renderer = [at |-> "idle", runs |-> 0]
  /\ rows = <<>> /\ hold = 1 /\ copied = 0 /\ frames = <<>> /\ video = Absent

-----------------------------------------------------------------------------
(* play.py *)

PlayLaunch(limit) ==
  /\ player = "idle" /\ game.id < MaxEpisodes
  /\ player' = "load" /\ maxSteps' = limit
  /\ game' = [id |-> game.id + 1, steps |-> 0, alive |-> TRUE]
  /\ summary' = Absent
  /\ UNCHANGED <<trace, charged, totals, evaluated, pending, video_vars>>

(* Faulty: the trace of the episode before stays.                          *)
BuildScorerOnly ==
  /\ player = "load" /\ player' = "decide"
  /\ charged' = 0 /\ totals' = NoTotals /\ evaluated' = 0
  /\ UNCHANGED <<trace, game, maxSteps, pending, summary, video_vars>>

(* Only when the model is there is the old trace given up.                 *)
BuildScorer ==
  /\ player = "load" /\ player' = "decide"
  /\ trace' = Absent
  /\ charged' = 0 /\ totals' = NoTotals /\ evaluated' = 0
  /\ UNCHANGED <<game, maxSteps, pending, summary, video_vars>>

GameGoesOn == game.alive /\ game.steps < maxSteps

Charge(before, tokens, byModel) ==
  /\ charged' = before + tokens
  /\ evaluated' = evaluated + tokens
  /\ totals' = [decisions |-> totals.decisions + (IF byModel THEN 1 ELSE 0),
                tokens |-> totals.tokens + charged']
  /\ pending' = [id |-> game.id, step |-> game.steps + 1, tokens |-> charged',
                 mode |-> IF byModel THEN "model" ELSE "deterministic"]

(* Faulty: the metrics of the backend are not reset before each decision.  *)
DecideWithoutReset ==
  /\ player = "decide" /\ GameGoesOn /\ player' = "move"
  /\ (\E tokens \in Work : Charge(charged, tokens, TRUE)) \/ Charge(charged, 0, FALSE)
  /\ UNCHANGED <<trace, game, maxSteps, summary, video_vars>>

(* The model decides, or choose_move does without it.                      *)
Decide ==
  /\ player = "decide" /\ GameGoesOn /\ player' = "move"
  /\ (\E tokens \in Work : Charge(0, tokens, TRUE)) \/ Charge(0, 0, FALSE)
  /\ UNCHANGED <<trace, game, maxSteps, summary, video_vars>>

Move ==
  /\ player = "move" /\ player' = "record"
  /\ \E lives \in BOOLEAN : game' = [game EXCEPT !.steps = @ + 1, !.alive = lives]
  /\ UNCHANGED <<trace, maxSteps, charged, totals, evaluated, pending, summary, video_vars>>

AppendTrace ==
  /\ player = "record" /\ player' = "decide"
  /\ trace' = IF trace = Absent THEN <<pending>> ELSE Append(trace, pending)
  /\ pending' = Absent
  /\ UNCHANGED <<game, maxSteps, charged, totals, evaluated, summary, video_vars>>

EndEpisode ==
  /\ player = "decide" /\ ~GameGoesOn /\ player' = "idle"
  /\ summary' = [steps |-> game.steps, decisions |-> totals.decisions, tokens |-> totals.tokens]
  /\ UNCHANGED <<trace, game, maxSteps, charged, totals, evaluated, pending, video_vars>>

(* The model cannot be loaded, scoring or writing raises, or a kill.       *)
EpisodeFails ==
  /\ player # "idle" /\ player' = "idle" /\ pending' = Absent
  /\ UNCHANGED <<trace, game, maxSteps, charged, totals, evaluated, summary, video_vars>>

-----------------------------------------------------------------------------
(* video.py *)

At(next) == renderer' = [renderer EXCEPT !.at = next]

(* A trace that is missing is an error.                                    *)
LoadTrace(n) ==
  /\ renderer.at \in {"idle", "done"} /\ renderer.runs < MaxRenderings /\ trace # Absent
  /\ renderer' = [at |-> "frames", runs |-> renderer.runs + 1]
  /\ rows' = trace /\ hold' = n /\ copied' = 0
  /\ UNCHANGED <<player_vars, frames, video>>

RowOf(frame) == ((frame - 1) \div hold) + 1

(* Faulty: a frame that is there already is not drawn again.               *)
CopyFrameOnce ==
  /\ renderer.at = "frames" /\ copied < hold * Len(rows)
  /\ frames' = IF copied < Len(frames) THEN frames ELSE Append(frames, rows[RowOf(copied + 1)])
  /\ copied' = copied + 1
  /\ UNCHANGED <<player_vars, renderer, rows, hold, video>>

(* Each row is drawn and copied to its frames; what the directory holds    *)
(* beyond them stays.                                                      *)
CopyFrame ==
  /\ renderer.at = "frames" /\ copied < hold * Len(rows)
  /\ LET picture == rows[RowOf(copied + 1)]
     IN frames' = IF copied < Len(frames) THEN [frames EXCEPT ![copied + 1] = picture]
                                          ELSE Append(frames, picture)
  /\ copied' = copied + 1
  /\ UNCHANGED <<player_vars, renderer, rows, hold, video>>

(* ffmpeg takes the frames from the first on, as long as there is a next;  *)
(* -y overwrites an earlier video.                                         *)
StartEncoding ==
  /\ renderer.at = "frames" /\ copied = hold * Len(rows)
  /\ At("encode") /\ video' = Broken
  /\ UNCHANGED <<player_vars, rows, hold, copied, frames>>

Encode ==
  /\ renderer.at = "encode"
  /\ At("done") /\ video' = frames
  /\ UNCHANGED <<player_vars, rows, hold, copied, frames>>

(* Drawing fails, there is no ffmpeg, ffmpeg fails, or a kill.             *)
RenderingFails ==
  /\ renderer.at \in {"frames", "encode"} /\ At("idle")
  /\ UNCHANGED <<player_vars, rows, hold, copied, frames, video>>

EpisodeNext ==
  \/ \E limit \in MaxSteps : PlayLaunch(limit)
  \/ BuildScorer \/ Decide \/ Move \/ AppendTrace \/ EndEpisode \/ EpisodeFails
  \/ \E n \in HoldFrames : LoadTrace(n)
  \/ CopyFrame \/ StartEncoding \/ Encode \/ RenderingFails

EpisodeSpec == EpisodeInit /\ [][EpisodeNext]_episodeVars

-----------------------------------------------------------------------------
(* Properties *)

Own == IF trace = Absent THEN <<>> ELSE trace

DecisionsOf(records) == Cardinality({k \in DOMAIN records : records[k].mode = "model"})

TokensOf(records) == Total([k \in DOMAIN records |-> records[k].tokens])

(* A trace holds the moves of one game only, from the first on without a   *)
(* gap, whatever episodes failed before; and the summary of an episode is  *)
(* that of its trace, with all the work of the backend and none of it      *)
(* twice.                                                                  *)
TraceIsOneEpisode ==
  /\ \A k \in DOMAIN Own : Own[k].step = k /\ Own[k].id = Own[1].id
  /\ summary # Absent =>
       /\ summary.steps = Len(Own)
       /\ summary.decisions = DecisionsOf(Own)
       /\ summary.tokens = TokensOf(Own)
       /\ summary.tokens = evaluated

(* A video begins with every row of its trace, in order, each for as many  *)
(* frames as asked for, also in a directory that was used before and while *)
(* the next episode replaces the trace.                                    *)
VideoShowsTrace ==
  renderer.at = "done" => /\ Len(video) >= hold * Len(rows)
              /\ \A i \in DOMAIN rows : \A k \in (i - 1) * hold + 1 .. i * hold :
                   video[k] = rows[i]

(* examples/snake/README.md:229: the video is generated from the actual    *)
(* states and decisions used by the test; so it shows nothing else.        *)
VideoShowsNothingElse ==
  renderer.at = "done" => \A k \in DOMAIN video : video[k] \in ToSet(rows)

-----------------------------------------------------------------------------
(* Why they hold *)

EpisodeTypes ==
  /\ trace = Absent \/ trace \in Seq(Records)
  /\ player \in {"idle", "load", "decide", "move", "record"}
  /\ game \in [id : Nat, steps : Nat, alive : BOOLEAN]
  /\ totals \in [decisions : Nat, tokens : Nat]
  /\ evaluated \in Nat
  /\ player \in {"move", "record"} => pending \in Records

VideoTypes ==
  /\ renderer \in [at : {"idle", "frames", "encode", "done"}, runs : Nat]
  /\ rows \in Seq(Records) /\ frames \in Seq(Records)
  /\ hold \in Nat \ {0} /\ copied \in Nat

(* From the moment the old trace is given up, the trace is of the game     *)
(* being played, but for the move that is being made.                      *)
MovesMade == Len(Own) + (IF player = "record" THEN 1 ELSE 0)

TraceOK ==
  /\ \A k \in DOMAIN Own : Own[k].step = k /\ Own[k].id = Own[1].id
  /\ player \in {"decide", "move", "record"} =>
       /\ \A k \in DOMAIN Own : Own[k].id = game.id
       /\ game.steps = MovesMade
  /\ player = "load" => game.steps = 0
  /\ player \in {"move", "record"} => pending.id = game.id /\ pending.step = Len(Own) + 1

(* The totals are those of the trace and of the move that is being made.   *)
SumsOK ==
  /\ player = "decide" =>
       totals = [decisions |-> DecisionsOf(Own), tokens |-> TokensOf(Own)]
  /\ player \in {"move", "record"} =>
       /\ totals.decisions = DecisionsOf(Own) + (IF pending.mode = "model" THEN 1 ELSE 0)
       /\ totals.tokens = TokensOf(Own) + pending.tokens
  /\ player \in {"decide", "move", "record"} => evaluated = totals.tokens

SummaryOK ==
  summary # Absent =>
    /\ player = "idle"
    /\ summary = [steps |-> Len(Own), decisions |-> DecisionsOf(Own), tokens |-> TokensOf(Own)]
    /\ evaluated = TokensOf(Own)

(* The frames made so far are the rows, each as often as asked for, and so *)
(* are those of the video when it is done.                                 *)
ShowsRows(pictures, n) ==
  /\ n <= hold * Len(rows) /\ n <= Len(pictures)
  /\ \A k \in 1 .. n : pictures[k] = rows[RowOf(k)]

FramesOK ==
  /\ renderer.at = "frames" => ShowsRows(frames, copied)
  /\ renderer.at = "encode" => ShowsRows(frames, hold * Len(rows))
  /\ renderer.at = "done" => ShowsRows(video, hold * Len(rows))

EpisodeInv == EpisodeTypes /\ VideoTypes /\ TraceOK /\ SumsOK /\ SummaryOK /\ FramesOK
=============================================================================

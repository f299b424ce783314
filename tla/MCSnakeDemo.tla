----------------------------- MODULE MCSnakeDemo -----------------------------
(* Small instances of ModelDownload and SnakeEpisode, which share no state: *)
(* a behaviour has launches of the demo, or episodes and their videos.     *)
EXTENDS ModelDownload, SnakeEpisode

DemoInit == DownloadInit /\ EpisodeInit

DemoNext ==
  \/ DownloadNext /\ game.id = 0 /\ UNCHANGED episodeVars
  \/ EpisodeNext /\ started = 0 /\ UNCHANGED downloadVars

Spec == DemoInit /\ [][DemoNext]_<<downloadVars, episodeVars>>
=============================================================================

---------------------------- MODULE ModelDownload ----------------------------
(***************************************************************************)
(* examples/snake/demo.py: a launch of the demo checks the installed model *)
(* or downloads the pinned one, then starts the web server on it.          *)
(* Launches share the model directory and know nothing of each other.  As  *)
(* on any POSIX system, a file that is open outlives its name, and a name  *)
(* may come to stand for another launch's file.                            *)
(***************************************************************************)
EXTENDS Integers, Sequences

CONSTANTS
  Launches,          \* processes that run demo.py
  MaxLaunches,       \* bound: how often demo.py is started, in all
  Chunks,            \* length of the pinned model, in chunks of the download
  Chunk, Other, Hole,  \* a chunk of the pinned model; anything else; never written
  NoFile

ASSUME DownloadAssumption ==
  /\ MaxLaunches \in Nat /\ Chunks \in Nat \ {0}
  /\ Chunk \notin {Other, Hole} /\ NoFile \notin Nat

VARIABLES
  model,     \* the file that has the model's name, or NoFile
  partial,   \* the one that has its name with .part
  content,   \* of every file there has been, by number: its chunks
  at,        \* of each launch: what it does next
  output,    \* of each launch: the file it writes
  received,  \* of each launch: the chunks it has hashed
  loaded,    \* of each launch: what its web server has loaded
  identity,  \* of each launch: what the backend says it has loaded, by hash
  started,   \* launches so far
  raced      \* two launches have been downloading at once since all were idle

files == <<model, partial, content>>
downloadVars == <<files, at, output, received, loaded, identity, started, raced>>

Pinned == [i \in 1 .. Chunks |-> Chunk]

(* A model that was installed by an earlier run, or by anything else.      *)
DownloadInit ==
  /\ content \in {<<>>, <<Pinned>>, <<<<Other>>>>}
  /\ model = IF content = <<>> THEN NoFile ELSE 1
  /\ partial = NoFile
  /\ at = [l \in Launches |-> "idle"] /\ output = [l \in Launches |-> NoFile]
  /\ received = [l \in Launches |-> <<>>] /\ loaded = [l \in Launches |-> <<>>]
  /\ identity = [l \in Launches |-> <<>>]
  /\ started = 0 /\ raced = FALSE

-----------------------------------------------------------------------------
Downloading == {"unlink", "open", "stream", "compare", "cleanup", "replace"}

GoTo(l, next) ==
  /\ at' = [at EXCEPT ![l] = next]
  /\ raced' = IF \A k \in Launches : at'[k] = "idle" THEN FALSE
              ELSE raced \/ \E j, k \in Launches : /\ j # k
                                                   /\ at'[j] \in Downloading /\ at'[k] \in Downloading

(* A launch on the default model; with a --model of its own a launch        *)
(* neither hashes nor downloads anything, and is left out.                 *)
Launch(l, force) ==
  /\ at[l] = "idle" /\ started < MaxLaunches
  /\ started' = started + 1
  /\ received' = [received EXCEPT ![l] = <<>>] /\ loaded' = [loaded EXCEPT ![l] = <<>>]
  /\ identity' = [identity EXCEPT ![l] = <<>>]
  /\ GoTo(l, IF model # NoFile /\ ~force THEN "hash" ELSE "unlink")
  /\ UNCHANGED <<files, output>>

(* The installed model is hashed, unless it went away meanwhile.           *)
HashInstalled(l) ==
  /\ at[l] = "hash"
  /\ GoTo(l, IF model # NoFile /\ content[model] = Pinned THEN "serve" ELSE "refused")
  /\ UNCHANGED <<files, output, received, loaded, identity, started>>

(* "Remove it or rerun with --force-download", the launch says, and ends.  *)
TakeAdvice(l) ==
  /\ at[l] = "refused"
  /\ GoTo(l, "idle")
  /\ model' \in {model, NoFile}
  /\ UNCHANGED <<partial, content, output, received, loaded, identity, started>>

Unlink(l) ==
  /\ at[l] = "unlink" /\ partial' = NoFile
  /\ GoTo(l, "open")
  /\ UNCHANGED <<model, content, output, received, loaded, identity, started>>

(* open("wb"): a new file, or the one that has the name, emptied.          *)
Open(l) ==
  /\ at[l] = "open"
  /\ IF partial = NoFile
     THEN partial' = Len(content) + 1 /\ content' = Append(content, <<>>)
     ELSE content' = [content EXCEPT ![partial] = <<>>] /\ UNCHANGED partial
  /\ output' = [output EXCEPT ![l] = partial']
  /\ GoTo(l, "stream")
  /\ UNCHANGED <<model, received, loaded, identity, started>>

(* A launch writes where it left off, whoever else has written meanwhile.  *)
Written(file, offset, chunk) ==
  [i \in 1 .. IF offset < Len(file) THEN Len(file) ELSE offset + 1 |->
     IF i = offset + 1 THEN chunk ELSE IF i <= Len(file) THEN file[i] ELSE Hole]

Receive(l) ==
  /\ at[l] = "stream" /\ Len(received[l]) < Chunks
  /\ \E chunk \in {Chunk, Other} :
       /\ content' = [content EXCEPT ![output[l]] = Written(@, Len(received[l]), chunk)]
       /\ received' = [received EXCEPT ![l] = Append(@, chunk)]
  /\ UNCHANGED <<model, partial, at, output, loaded, identity, started, raced>>

(* The response ends, perhaps too early.                                   *)
EndOfStream(l) ==
  /\ at[l] = "stream"
  /\ GoTo(l, "compare")
  /\ UNCHANGED <<files, output, received, loaded, identity, started>>

(* The connection cannot be made, or breaks.                               *)
StreamFails(l) ==
  /\ at[l] \in {"open", "stream"}
  /\ GoTo(l, "cleanup")
  /\ UNCHANGED <<files, output, received, loaded, identity, started>>

(* Faulty: any whole response will do.                                     *)
CompareLength(l) ==
  /\ at[l] = "compare"
  /\ GoTo(l, IF Len(received[l]) = Chunks THEN "replace" ELSE "cleanup")
  /\ UNCHANGED <<files, output, received, loaded, identity, started>>

Compare(l) ==
  /\ at[l] = "compare"
  /\ GoTo(l, IF received[l] = Pinned THEN "replace" ELSE "cleanup")
  /\ UNCHANGED <<files, output, received, loaded, identity, started>>

(* Faulty: a failed download takes the installed model with it.            *)
CleanupAll(l) ==
  /\ at[l] = "cleanup" /\ partial' = NoFile /\ model' = NoFile
  /\ GoTo(l, "idle")
  /\ UNCHANGED <<content, output, received, loaded, identity, started>>

Cleanup(l) ==
  /\ at[l] = "cleanup" /\ partial' = NoFile
  /\ GoTo(l, "idle")
  /\ UNCHANGED <<model, content, output, received, loaded, identity, started>>

(* Whatever has the .part name now gets the model's name.                  *)
Replace(l) ==
  /\ at[l] = "replace"
  /\ IF partial = NoFile
     THEN GoTo(l, "idle") /\ UNCHANGED <<model, partial>>
     ELSE GoTo(l, "serve") /\ model' = partial /\ partial' = NoFile
  /\ UNCHANGED <<content, output, received, loaded, identity, started>>

(* The web server is started on the model's name, and loads what it finds. *)
Serve(l) ==
  /\ at[l] = "serve"
  /\ IF model = NoFile
     THEN GoTo(l, "idle") /\ UNCHANGED loaded
     ELSE GoTo(l, "identify") /\ loaded' = [loaded EXCEPT ![l] = content[model]]
  /\ UNCHANGED <<files, output, received, identity, started>>

(* Only then does the backend hash the file of that name, for the identity *)
(* that every result and trace will show.                                  *)
Identify(l) ==
  /\ at[l] = "identify"
  /\ IF model = NoFile
     THEN GoTo(l, "idle") /\ UNCHANGED identity
     ELSE GoTo(l, "serving") /\ identity' = [identity EXCEPT ![l] = content[model]]
  /\ UNCHANGED <<files, output, received, loaded, started>>

(* A launch ends, or is killed, wherever it is; nothing is cleaned up.     *)
Kill(l) ==
  /\ at[l] # "idle"
  /\ GoTo(l, "idle")
  /\ UNCHANGED <<files, output, received, loaded, identity, started>>

DownloadNext ==
  \E l \in Launches :
    \/ \E force \in BOOLEAN : Launch(l, force)
    \/ HashInstalled(l) \/ TakeAdvice(l) \/ Unlink(l) \/ Open(l) \/ Receive(l)
    \/ EndOfStream(l) \/ StreamFails(l) \/ Compare(l) \/ Cleanup(l) \/ Replace(l)
    \/ Serve(l) \/ Identify(l) \/ Kill(l)

DownloadSpec == DownloadInit /\ [][DownloadNext]_downloadVars

-----------------------------------------------------------------------------
(* Properties *)

(* A web server that a launch starts has the pinned model and says so,     *)
(* whatever was installed, served, broken off or killed before, and also   *)
(* after launches that raced; only launches that download at the same time *)
(* may be misled.                                                          *)
ServedModelIsPinned ==
  \A l \in Launches : at[l] = "serving" => raced \/ (loaded[l] = Pinned /\ identity[l] = Pinned)

(* The installed model is only ever replaced by the pinned one, at once:   *)
(* a download that fails, is tampered with or killed leaves the old model. *)
OldModelKept ==
  [][ \/ UNCHANGED <<model, content>> \/ raced \/ raced'
      \/ model' = model /\ (model # NoFile => content'[model] = content[model])
      \/ model' # NoFile /\ content'[model'] = Pinned
      \/ \E l \in Launches : TakeAdvice(l) ]_<<model, content>>

-----------------------------------------------------------------------------
(* Why they hold *)

Places == Downloading \cup {"idle", "hash", "refused", "serve", "identify", "serving"}

Contents == Seq({Chunk, Other, Hole})

DownloadTypes ==
  /\ content \in Seq(Contents)
  /\ model \in DOMAIN content \cup {NoFile} /\ partial \in DOMAIN content \cup {NoFile}
  /\ at \in [Launches -> Places] /\ output \in [Launches -> Nat \cup {NoFile}]
  /\ received \in [Launches -> Contents]
  /\ loaded \in [Launches -> Contents] /\ identity \in [Launches -> Contents]
  /\ raced \in BOOLEAN

(* No file has both names, raced or not.                                   *)
NamesDiffer == model # NoFile => model # partial

(* A launch has the chunks it has hashed, and replaces the model only when *)
(* they are the pinned ones.                                               *)
HashedOK ==
  \A l \in Launches : /\ at[l] \in {"unlink", "open"} => received[l] = <<>>
                      /\ at[l] = "replace" => received[l] = Pinned

(* Without a race one launch downloads, and the file it writes is the one  *)
(* with the .part name and holds what the launch has hashed.               *)
DownloadAlone ==
  ~raced =>
    /\ \A j, k \in Launches : at[j] \in Downloading /\ at[k] \in Downloading => j = k
    /\ \A l \in Launches : at[l] \in {"stream", "compare", "replace"} =>
         /\ partial # NoFile /\ output[l] = partial
         /\ content[partial] = received[l]

(* Without a race a launch that goes on to serve has a model that is       *)
(* pinned, or none.                                                        *)
ServeOK ==
  ~raced => \A l \in Launches :
    /\ at[l] \in {"serve", "identify"} => model = NoFile \/ content[model] = Pinned
    /\ at[l] \in {"identify", "serving"} => loaded[l] = Pinned
    /\ at[l] = "serving" => identity[l] = Pinned

DownloadInv == DownloadTypes /\ NamesDiffer /\ HashedOK /\ DownloadAlone /\ ServeOK
=============================================================================

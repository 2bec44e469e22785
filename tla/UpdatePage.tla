----------------------------- MODULE UpdatePage -----------------------------
(* The updater, which lives as long as the window, and its dialog, deleted *)
(* when it is closed (gui/src/updater.cpp, update_dialog.cpp).  A release  *)
(* is a number; 1 is the running one.  Replies of the network come late,   *)
(* fail or bring what somebody else wrote.                                 *)
EXTENDS Session

CONSTANT Releases  \* versions a manifest may name; 0 stands for an incomplete one

ASSUME ReleasesAssumption == Releases \subseteq Nat \ {0}

VARIABLES
  updater,   \* m_state, m_manifest, m_version (0: empty)
  dialog,    \* phase of the dialog, "none" without one
  installed  \* version of the file at $APPIMAGE, and whether the program is one

updateVars == <<updater, dialog, installed>>

\* What a manifest names: a release, too little (0), or, damaged on its way, anything.
Damaged == -1
Manifests == Releases \cup {0, Damaged}
Phases == {"none", "Checking", "Available", "Downloading", "Done", "Error"}

UpdateInit ==
  /\ updater = [state |-> "Idle", manifest |-> 0, version |-> 0]
  /\ dialog = "none"
  /\ \E a \in BOOLEAN : installed = [version |-> 1, appImage |-> a]

\* What a signal of the updater does to the dialog, if there is one.
Shows(phase) == dialog' = IF dialog = "none" THEN "none" ELSE phase

\* onCheckForUpdates: a new dialog; a check is begun unless the updater is busy, and fails
\* at once without TLS.
CheckClicked ==
  /\ dialog = "none" /\ Input
  /\ IF updater.state = "Idle"
     THEN \/ updater' = [updater EXCEPT !.state = "FetchManifest"] /\ dialog' = "Checking"
          \/ UNCHANGED updater /\ dialog' = "Error"
     ELSE UNCHANGED updater /\ dialog' = "Checking"
  /\ UNCHANGED installed

\* The modal dialog is closed; the updater goes on.
DialogClosed ==
  /\ dialog # "none" /\ Input
  /\ dialog' = "none"
  /\ UNCHANGED <<updater, installed>>

\* A request ends with a network error, in any of the three places.
ReplyFails ==
  /\ updater.state # "Idle" /\ Step
  /\ updater' = [updater EXCEPT !.state = "Idle"]
  /\ Shows("Error")
  /\ UNCHANGED installed

ManifestReply ==
  /\ updater.state = "FetchManifest" /\ Step
  /\ \E m \in Manifests : updater' = [updater EXCEPT !.state = "FetchSig", !.manifest = m]
  /\ UNCHANGED <<dialog, installed>>

\* What onSigReply stores of a manifest whose signature was verified.
Stored ==
  LET v == updater.manifest IN
  /\ updater' = [updater EXCEPT !.state = "Idle", !.version = v]
  /\ Shows(IF v <= 0 THEN "Error" ELSE IF v > 1 THEN "Available" ELSE "Done")

\* A plausible bug: what the manifest says is stored as it arrives.
SigReplyUnchecked ==
  /\ updater.state = "FetchSig" /\ Step
  /\ Stored
  /\ UNCHANGED installed

\* onSigReply: the signature of a damaged manifest, a damaged one or that of another
\* release is rejected, and nothing of the manifest is kept.
SigReply ==
  /\ updater.state = "FetchSig" /\ Step
  /\ \/ updater.manifest # Damaged /\ Stored
     \/ updater' = [updater EXCEPT !.state = "Idle"] /\ Shows("Error")
  /\ UNCHANGED installed

\* onActionClicked: startDownload does nothing when busy or without a version.
DownloadClicked ==
  /\ dialog = "Available" /\ installed.appImage /\ Input
  /\ dialog' = "Downloading"
  /\ updater' = IF updater.state = "Idle" /\ updater.version # 0
                THEN [updater EXCEPT !.state = "Downloading"]
                ELSE updater
  /\ UNCHANGED installed

\* onAppImageReply: the file written is installed when its SHA-256 is the manifest's.
\* Anything may be in it; only the file of that release has that sum.
ImageReply ==
  /\ updater.state = "Downloading" /\ Step
  /\ updater' = [updater EXCEPT !.state = "Idle"]
  /\ \/ /\ installed' = [installed EXCEPT !.version = updater.version]
        /\ Shows("Done")
     \/ UNCHANGED installed /\ Shows("Error")

UpdateReacts == ReplyFails \/ ManifestReply \/ SigReply \/ ImageReply
UpdateNext == CheckClicked \/ DialogClosed \/ DownloadClicked \/ UpdateReacts

\* A dialog that shows progress waits for a reply that is under way, whoever asked for
\* it; what is installed was named by a manifest whose signature was verified, however
\* checks, failures and downloads of several dialogs follow each other.
UpdateSound ==
  /\ dialog \in {"Checking", "Downloading"} => updater.state # "Idle"
  /\ Damaged \notin {updater.version, installed.version} /\ installed.version # 0
=============================================================================

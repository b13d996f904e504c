----------------------------- MODULE AppUpdate -----------------------------
(***************************************************************************)
(* The program updating itself: AppUpdater fetches the release, the main   *)
(* window asks and quits, and a script that outlives the program puts the  *)
(* new installation in place and starts it.  On Windows the script unpacks *)
(* the zip beside the installation and swaps the two directories; on Linux *)
(* it moves one file over another, from beside it or, when no file could   *)
(* be created there, from /tmp, which is another file system.              *)
(***************************************************************************)
EXTENDS Naturals

CONSTANTS Clicks,    \* bound: presses of Install and starts by the operator
          Mishaps    \* bound: calls to the system that fail, and power cuts

Parameters == Clicks \in Nat /\ Mishaps \in Nat

VARIABLES
  place,   \* where the download goes: Places
  app,     \* the process the script waits for: "up", "quitting", "hung", "gone"
  other,   \* the version of an instance started since, or "none"
  net,     \* a download is under way
  slots,   \* closures connected to download_done (_on_done)
  ask,     \* those of them that have yet to ask
  disk,    \* file, stage, backup and install: "none", "part", "nest", "old" or "new"
  script,  \* the script's next step
  spent    \* [click, fault, cut]

vars == <<place, app, other, net, slots, ask, disk, script, spent>>

\* A directory that takes no file may have no room or be read-only.
Places == {"windows", "beside", "elsewhere", "readonly"}
InScript == {"wait", "extract", "verify", "park", "swap", "drop",
             "move", "copying", "cp", "overwriting", "relaunch"}
Bundles == {"old", "new"}
\* A leftover that could not be removed may hold the installation.
Contents == Bundles \cup {"none", "part", "nest"}

\* An update cut short earlier may have left its directories behind.
Init ==
  /\ place \in Places
  /\ app = "up" /\ other = "none" /\ net = FALSE /\ slots = 0 /\ ask = 0
  /\ disk \in [file : {"none"}, install : {"old"},
               stage : IF place = "windows" THEN {"none", "part"} ELSE {"none"},
               backup : IF place = "windows" THEN {"none", "part"} ELSE {"none"}]
  /\ script = "none" /\ spent = [click |-> 0, fault |-> 0, cut |-> 0]

Click == spent.click < Clicks /\ spent' = [spent EXCEPT !.click = @ + 1]
Faults(n) == /\ spent.fault + spent.cut + n <= Mishaps
             /\ spent' = [spent EXCEPT !.fault = @ + n]
Fault == Faults(1)

-----------------------------------------------------------------------------
(* The program: AppUpdater and MainWindow. *)

StartUpdate ==
  /\ app = "up" /\ ~net /\ ask = 0 /\ Click
  /\ net' = TRUE /\ slots' = slots + 1
  /\ disk' = [disk EXCEPT !.file = "part"]
  /\ UNCHANGED <<place, app, other, ask, script>>

\* AppUpdater.cancel: without a reply the file is not its own any more.
Cancel(file) == IF net THEN "none" ELSE file

\* Qt emits canceled when a progress dialog closes, by hand or by _on_done.
CancelDownload ==
  /\ app = "up" /\ net
  /\ net' = FALSE /\ disk' = [disk EXCEPT !.file = Cancel(@)]
  /\ UNCHANGED <<place, app, other, slots, ask, script, spent>>

\* Every closure connected by an earlier press is called as well.
OnDownloadFinished ==
  /\ app = "up" /\ net /\ net' = FALSE
  /\ \/ ask' = slots /\ disk' = [disk EXCEPT !.file = "new"] /\ UNCHANGED spent
     \/ ask' = 0 /\ disk' = [disk EXCEPT !.file = "none"] /\ Fault
  /\ UNCHANGED <<place, app, other, slots, script>>

\* _on_done and _apply_windows_update or _apply_linux_update.  Quitting
\* dismisses the questions that are left.  A directory that cannot be written
\* refuses the update and drops the file.
Launch(file) ==
  \/ /\ place # "readonly" /\ script' = "wait" /\ app' = "quitting" /\ ask' = 0
     /\ disk' = [disk EXCEPT !.file = file] /\ UNCHANGED spent
  \/ /\ ask' = ask - 1 /\ Fault
     /\ disk' = [disk EXCEPT !.file = IF place = "windows" THEN file ELSE "none"]
     /\ UNCHANGED <<script, app>>
  \/ /\ place = "readonly" /\ ask' = ask - 1
     /\ disk' = [disk EXCEPT !.file = "none"]
     /\ UNCHANGED <<script, app, spent>>

Answer ==
  /\ app = "up" /\ ask > 0
  /\ \/ Launch(Cancel(disk.file))
     \/ /\ ask' = ask - 1 /\ disk' = [disk EXCEPT !.file = Cancel(@)]
        /\ UNCHANGED <<script, app, spent>>
  /\ UNCHANGED <<place, other, net, slots>>

\* A thread that is no daemon may keep the process alive without its window.
Quit ==
  /\ app = "quitting"
  /\ \/ app' = "gone" /\ UNCHANGED spent
     \/ app' = "hung" /\ Fault
  /\ UNCHANGED <<place, other, net, slots, ask, disk, script>>

\* Nothing keeps the operator from starting the program in between.
Reopen ==
  /\ app \in {"gone", "hung"} /\ other = "none" /\ disk.install \in Bundles /\ Click
  /\ other' = disk.install
  /\ UNCHANGED <<place, app, net, slots, ask, disk, script>>

App == StartUpdate \/ CancelDownload \/ OnDownloadFinished \/ Answer \/ Reopen

-----------------------------------------------------------------------------
(* The scripts. *)

ScriptStep(at, then) ==
  /\ script = at /\ script' = then
  /\ UNCHANGED <<place, app, net, slots, ask>>

\* Windows gives up after EXIT_TIMEOUT_S, without starting a second copy.
Wait ==
  \/ /\ app = "gone"
     /\ ScriptStep("wait", IF place = "windows" THEN "extract" ELSE "move")
     /\ UNCHANGED <<other, disk, spent>>
  \/ /\ app = "hung" /\ place = "windows" /\ ScriptStep("wait", "told")
     /\ UNCHANGED <<other, disk, spent>>

\* Abort starts whatever lies where the installation should be.
Abort(at, d) ==
  /\ ScriptStep(at, "told") /\ disk' = d
  /\ other' = IF d.install \in Bundles THEN d.install ELSE other

\* Remove-Item -ErrorAction SilentlyContinue may leave the directory, unnoticed.
\* What a later step trips over counts as a fault.
Left(dir) == IF disk[dir] = "none" THEN {"none"} ELSE {"none", "part"}

\* The stage is cleared and made outside of any try: a failure there ends the
\* script on the spot.
Into(target) == [disk EXCEPT ![target] = "part"]
Extract ==
  \/ /\ ScriptStep("extract", "verify")
     /\ disk' = Into("stage") /\ UNCHANGED <<other, spent>>
  \/ /\ ScriptStep("extract", "dead") /\ Fault /\ UNCHANGED other
     /\ \E d \in Left("stage") : disk' = [disk EXCEPT !.stage = d]

Verify ==
  \/ /\ disk.file = "new" /\ ScriptStep("verify", "park")
     /\ disk' = [disk EXCEPT !.stage = "new"] /\ UNCHANGED <<other, spent>>
  \/ /\ \E d \in Left("stage") : Abort("verify", [disk EXCEPT !.stage = d])
     /\ IF disk.file = "new" THEN Fault ELSE UNCHANGED spent

\* A directory a program runs from cannot be renamed.  The download lies in the
\* installation and goes with it.  Move-Item moves into a directory that exists:
\* a leftover that was not removed takes the installation in.
Park ==
  \/ /\ other = "none" /\ ScriptStep("park", "swap") /\ UNCHANGED <<other, spent>>
     /\ disk' = [disk EXCEPT !.install = "none", !.backup = disk.install, !.file = "none"]
  \/ /\ other = "none" /\ disk.backup # "none" /\ ScriptStep("park", "swap") /\ Fault
     /\ disk' = [disk EXCEPT !.install = "none", !.backup = "nest", !.file = "none"]
     /\ UNCHANGED other
  \/ /\ \E d \in Left("stage"), e \in Left("backup") :
          Abort("park", [disk EXCEPT !.stage = d, !.backup = e])
     /\ IF other = "none" THEN Fault ELSE UNCHANGED spent

\* What was parked goes back if the new installation does not land, or fails to:
\* a leftover with the old one inside is no installation.
PutsNothingBack == disk
RollBack == [disk EXCEPT !.install = disk.backup, !.backup = "none"]
Swap ==
  \/ /\ ScriptStep("swap", "drop")
     /\ disk' = [disk EXCEPT !.install = disk.stage, !.stage = "none"]
     /\ UNCHANGED <<other, spent>>
  \/ Abort("swap", RollBack) /\ Fault
  \/ Abort("swap", disk) /\ Faults(2)

Drop ==
  /\ ScriptStep("drop", "done")
  /\ \E d \in Left("backup") : disk' = [disk EXCEPT !.backup = d]
  /\ \/ other' = disk.install /\ UNCHANGED spent
     \/ UNCHANGED other /\ Fault

\* mv renames within a file system; across two it copies.
Move ==
  \/ /\ disk.file = "new" /\ place = "beside" /\ ScriptStep("move", "relaunch")
     /\ disk' = [disk EXCEPT !.install = "new", !.file = "none"]
     /\ UNCHANGED <<other, spent>>
  \/ /\ disk.file = "new" /\ place = "elsewhere" /\ ScriptStep("move", "copying")
     /\ disk' = Into("install") /\ UNCHANGED <<other, spent>>
  \/ /\ ScriptStep("move", "cp") /\ UNCHANGED <<other, disk>>
     /\ IF disk.file = "new" THEN Fault ELSE UNCHANGED spent
Copied(at) == /\ ScriptStep(at, "relaunch")
              /\ disk' = [disk EXCEPT !.install = "new", !.file = "none"]
              /\ UNCHANGED <<other, spent>>
Copying == \/ Copied("copying")
           \/ /\ ScriptStep("copying", "cp") /\ Fault
              /\ UNCHANGED <<other, disk>>

\* cp -f writes into the file in place, if there is anything to write.
CopyOver == \/ /\ disk.file = "new" /\ ScriptStep("cp", "overwriting")
               /\ disk' = Into("install") /\ UNCHANGED <<other, spent>>
            \/ /\ disk.file # "new" /\ ScriptStep("cp", "relaunch")
               /\ UNCHANGED <<other, disk, spent>>
Overwriting == \/ Copied("overwriting")
               \/ /\ ScriptStep("overwriting", "relaunch") /\ Fault
                  /\ UNCHANGED <<other, disk>>

Relaunch == /\ ScriptStep("relaunch", "done")
            /\ other' = IF disk.install \in Bundles THEN disk.install ELSE other
            /\ UNCHANGED <<disk, spent>>

Script == \/ Wait \/ Extract \/ Verify \/ Park \/ Swap \/ Drop
          \/ Move \/ Copying \/ CopyOver \/ Overwriting \/ Relaunch

\* The power goes and comes back: processes are gone, files as they were.
PowerCut ==
  /\ spent.fault + spent.cut < Mishaps /\ script \notin {"done", "told", "dead", "cut"}
  /\ spent' = [spent EXCEPT !.cut = @ + 1]
  /\ app' = "gone" /\ other' = "none" /\ net' = FALSE /\ ask' = 0 /\ script' = "cut"
  /\ UNCHANGED <<place, slots, disk>>

Next == App \/ Quit \/ Script \/ PowerCut

\* Qt closes the windows and the system runs the script; nobody makes the
\* operator answer.
Spec == Init /\ [][Next]_vars /\ WF_vars(Quit) /\ WF_vars(Script)

-----------------------------------------------------------------------------
TypeOK ==
  /\ app \in {"up", "quitting", "hung", "gone"} /\ other \in Bundles \cup {"none"}
  /\ net \in BOOLEAN /\ slots \in 0..Clicks /\ ask \in 0..slots
  /\ disk \in [{"file", "stage", "backup", "install"} -> Contents]
  /\ script \in InScript \cup {"none", "done", "told", "dead", "cut"}

\* "Two renames either land the new bundle whole or leave the old one whole"
\* (updater.py): what lies where the program is started from is never half a
\* bundle, whatever fails and whenever the power goes.  It takes two failures to
\* put a leftover there instead: it could not be removed, and the new bundle did
\* not land.  On Linux as long as the one rename is possible: mv across file
\* systems and cp write in place.
InstallWhole ==
  /\ place = "windows" \/ (place = "beside" /\ spent.fault = 0) => disk.install # "part"
  /\ disk.install = "nest" => place = "windows" /\ script = "told" /\ spent.fault > 1

\* Until the new bundle is in place the old one is on the disk, at most one
\* directory down; and a script that ends early has put it back, unless two
\* things failed.
OldKept ==
  place = "windows" =>
    /\ disk.install = "none" => disk.backup \in {"old", "nest"}
    /\ script \in {"told", "dead"} /\ spent.fault < 2 => disk.install = "old"

SwapSound == TypeOK /\ InstallWhole /\ OldKept

\* A confirmed update of which nothing failed ends in the new program running:
\* the closing dialog must not take the download along, nor two closures start
\* two scripts.
BootConfirmed ==
  /\ script = "done" /\ spent.fault = 0 => disk.install = "new" /\ other = "new"
  /\ script = "told" => spent.fault > 0 \/ spent.click > 1
  /\ script = "dead" => spent.fault > 0

\* On Linux the script waits for ever for a process that does not end.
Installing == script \in InScript /\ ~(app = "hung" /\ place # "windows")
=============================================================================

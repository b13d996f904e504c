--------------------------- MODULE UpdatesProofs ---------------------------
(***************************************************************************)
(* Proofs about the three updates, for images, windows and batches of any   *)
(* size and any bounds on what fails.                                       *)
(***************************************************************************)
EXTENDS Updates, FiniteSetTheorems, TLAPS

-----------------------------------------------------------------------------
(* The program's own update *)

Disks == [{"file", "stage", "backup", "install"} -> App!Contents]
Clicked == /\ slots \in 0..Clicks /\ ask \in 0..slots /\ slots <= spent.click
           /\ spent \in [click : 0..Clicks, fault : Nat, cut : Nat]
States == /\ app \in {"up", "quitting", "hung", "gone"} /\ net \in BOOLEAN
          /\ other \in App!Bundles \cup {"none"} /\ place \in App!Places
          /\ script \in App!InScript \cup {"none", "done", "told", "dead", "cut"}
Counted0 == disk \in Disks /\ Clicked /\ States

\* Questions are open only while the program is, and there is a download to ask
\* about, unless something failed.
Asking == ask > 0 => /\ ~net /\ script = "none"
                     /\ disk.file = "new" \/ spent.fault > 0 \/ place = "readonly"
NewFile == disk.file = "new" \/ spent.fault > 0

\* A script lives after the program it replaces, and somebody pressed Install;
\* whoever opened the program meanwhile has clicked once more.
Launched ==
  /\ script = "none" <=> app = "up"
  /\ script = "none" => other = "none" /\ disk.install = "old"
  /\ script \notin {"none", "cut"} => spent.click > 0 /\ place # "readonly"
  /\ app = "hung" => spent.fault > 0
  /\ other # "none" /\ script \in {"wait", "extract", "verify", "park"} => spent.click > 1

OnWindows == {"extract", "verify", "park", "swap", "drop"}
OnLinux   == {"move", "copying", "cp", "overwriting", "relaunch"}
Staged ==
  /\ script \in OnWindows => place = "windows"
  /\ script \in OnLinux => place # "windows"
  /\ script \in {"wait", "extract", "verify", "move"} => NewFile
  /\ script \in {"cp", "overwriting"} => spent.fault > 0
  /\ script = "copying" => place = "elsewhere"
  /\ script \in {"wait", "extract", "verify", "park"} => disk.install = "old"
  /\ script \in {"park", "swap"} => disk.stage = "new"
  /\ script = "swap" => /\ disk.install = "none" /\ disk.backup \in {"old", "nest"}
                        /\ disk.backup = "nest" => spent.fault > 0
  /\ script = "dead" => place = "windows" /\ disk.install = "old"
  /\ script = "drop" \/ (script = "done" /\ place = "windows") => disk.install = "new"
  /\ script = "relaunch" /\ spent.fault = 0 => disk.install = "new"

AppInv == /\ Counted0 /\ Asking /\ Launched /\ Staged
          /\ App!InstallWhole /\ App!OldKept /\ App!BootConfirmed

LEMMA AppStarts == App!Init => AppInv
<1> SUFFICES ASSUME App!Init PROVE AppInv OBVIOUS
<1>1. disk \in [{"file", "stage", "backup", "install"} -> App!Contents]
  <2>1. PICK S \in SUBSET {"none", "part"}, B \in SUBSET {"none", "part"} :
          disk \in [file : {"none"}, install : {"old"}, stage : S, backup : B]
    BY DEF App!Init
  <2> QED BY <2>1 DEF App!Bundles, App!Contents
<1>2. disk.file = "none" /\ disk.install = "old" BY DEF App!Init
<1>3. spent = [click |-> 0, fault |-> 0, cut |-> 0] BY DEF App!Init
<1>4. Counted0
  <2>1. disk \in Disks BY <1>1 DEF Disks
  <2>2. Clicked BY <1>3, UpdatesAssumption DEF App!Init, Clicked, App!Parameters
  <2>3. States BY DEF App!Init, States, App!Bundles, App!InScript
  <2> QED BY <2>1, <2>2, <2>3 DEF Counted0
<1> QED BY <1>2, <1>3, <1>4
  DEF App!Init, AppInv, Asking, NewFile, Launched, Staged, OnWindows, OnLinux,
      App!InstallWhole, App!OldKept, App!BootConfirmed

LEMMA AppProgram == ASSUME AppInv, App!App PROVE AppInv'
<1> USE UpdatesAssumption
        DEF AppInv, Counted0, Disks, Clicked, States, Asking, NewFile, Launched, Staged,
            OnWindows, OnLinux, App!InScript,
            App!InstallWhole, App!OldKept, App!BootConfirmed, App!TypeOK, App!Click, App!Fault,
            App!Faults, App!Cancel, App!Bundles, App!Contents, App!Parameters
<1>1. CASE App!StartUpdate BY <1>1 DEF App!StartUpdate
<1>2. CASE App!CancelDownload BY <1>2 DEF App!CancelDownload
<1>3. CASE App!OnDownloadFinished
  <2>0. disk' \in Disks BY <1>3 DEF App!OnDownloadFinished
  <2>a. Clicked' BY <1>3 DEF App!OnDownloadFinished
  <2>b. States' BY <1>3 DEF App!OnDownloadFinished
  <2>1. Counted0' BY <2>0, <2>a, <2>b
  <2>2. Asking' /\ Launched' BY <1>3 DEF App!OnDownloadFinished
  <2>3. Staged' BY <1>3 DEF App!OnDownloadFinished
  <2>4. App!InstallWhole' /\ App!OldKept' BY <1>3 DEF App!OnDownloadFinished
  <2>5. App!BootConfirmed' BY <1>3 DEF App!OnDownloadFinished
  <2> QED BY <2>1, <2>2, <2>3, <2>4, <2>5
<1>4. CASE App!Answer BY <1>4 DEF App!Answer, App!Launch
<1>5. CASE App!Reopen BY <1>5 DEF App!Reopen
<1> QED BY <1>1, <1>2, <1>3, <1>4, <1>5 DEF App!App

\* A script that cannot park leaves the installation where it is; what it has
\* unpacked and what it found may stay behind.
GivesUp == \E d \in App!Left("stage"), e \in App!Left("backup") :
             App!Abort("park", [disk EXCEPT !.stage = d, !.backup = e])
LEMMA GivesUpLeaves ==
  ASSUME disk \in Disks, GivesUp
  PROVE  /\ script = "park" /\ script' = "told" /\ UNCHANGED <<place, app, net, slots, ask>>
         /\ disk' \in Disks /\ disk'.install = disk.install
         /\ other' = IF disk.install \in App!Bundles THEN disk.install ELSE other
<1>1. PICK d \in App!Left("stage"), e \in App!Left("backup") :
        App!Abort("park", [disk EXCEPT !.stage = d, !.backup = e])
  BY Zenon DEF GivesUp
<1> DEFINE left == [disk EXCEPT !.stage = d, !.backup = e]
<1>2. left \in Disks /\ left.install = disk.install BY DEF Disks, App!Left, App!Contents
<1>3. App!Abort("park", left) BY <1>1, Zenon
<1> HIDE DEF left
<1> QED BY <1>2, <1>3 DEF App!Abort, App!ScriptStep

LEMMA Parks ==
  ASSUME App!Park
  PROVE  \/ /\ script = "park" /\ script' = "swap" /\ UNCHANGED <<place, app, net, slots, ask, other>>
            /\ disk' = [disk EXCEPT !.install = "none", !.backup = disk.install, !.file = "none"]
            /\ UNCHANGED spent
         \/ /\ script = "park" /\ script' = "swap" /\ UNCHANGED <<place, app, net, slots, ask, other>>
            /\ disk' = [disk EXCEPT !.install = "none", !.backup = "nest", !.file = "none"]
            /\ App!Fault
         \/ GivesUp /\ (IF other = "none" THEN App!Fault ELSE UNCHANGED spent)
BY Zenon DEF App!Park, GivesUp, App!ScriptStep

LEMMA DisksStay ==
  ASSUME disk \in Disks, App!Extract \/ App!Verify \/ App!Park \/ App!Swap \/ App!Drop \/ App!Move
  PROVE  disk' \in Disks
<1>1. CASE App!Swap
  <2>1. disk' \in {[disk EXCEPT !.install = disk.stage, !.stage = "none"],
                   [disk EXCEPT !.install = disk.backup, !.backup = "none"], disk}
    BY <1>1 DEF App!Swap, App!Abort, App!RollBack
  <2> QED BY <2>1 DEF Disks, App!Contents
<1>2. CASE App!Move
  <2>1. disk' \in {[disk EXCEPT !.install = "new", !.file = "none"],
                   [disk EXCEPT !.install = "part"], disk}
    BY <1>2 DEF App!Move, App!Into
  <2> QED BY <2>1 DEF Disks, App!Bundles, App!Contents
<1>3. CASE App!Park
  <2>1. CASE \/ disk' = [disk EXCEPT !.install = "none", !.backup = disk.install, !.file = "none"]
             \/ disk' = [disk EXCEPT !.install = "none", !.backup = "nest", !.file = "none"]
    BY <2>1 DEF Disks, App!Contents
  <2>2. CASE GivesUp
    BY <2>2, GivesUpLeaves
  <2> QED BY <1>3, <2>1, <2>2, Zenon DEF App!Park, GivesUp
<1>4. CASE App!Extract \/ App!Verify
  <2>1. PICK d \in {"none", "part", "new"} : disk' = [disk EXCEPT !.stage = d]
    BY <1>4 DEF App!Extract, App!Verify, App!Abort, App!Left, App!Into
  <2> QED BY <2>1 DEF Disks, App!Contents, App!Bundles
<1>5. CASE App!Drop
  <2>1. PICK d \in {"none", "part"} : disk' = [disk EXCEPT !.backup = d]
    BY <1>5 DEF App!Drop, App!Left
  <2> QED BY <2>1 DEF Disks, App!Contents
<1> QED BY <1>1, <1>2, <1>3, <1>4, <1>5

LEMMA AppScript == ASSUME AppInv, App!Script PROVE AppInv'
<1> USE UpdatesAssumption
        DEF AppInv, Counted0, Disks, Clicked, States, Asking, NewFile, Launched, Staged,
            OnWindows, OnLinux, App!InScript,
            App!InstallWhole, App!OldKept, App!BootConfirmed, App!TypeOK, App!Click, App!Fault,
            App!Faults, App!Cancel, App!Bundles, App!Contents, App!Parameters, App!ScriptStep, App!Abort, App!Into
<1>1. CASE App!Wait BY <1>1 DEF App!Wait
<1>2. CASE App!Extract
  <2>1. /\ script = "extract" /\ UNCHANGED <<place, app, net, slots, ask, other>>
        /\ disk'.install = disk.install /\ disk'.file = disk.file
        /\ disk'.backup = disk.backup
        /\ \/ script' = "verify" /\ spent' = spent
           \/ script' = "dead" /\ spent' = [spent EXCEPT !.fault = @ + 1]
    BY <1>2 DEF App!Extract
  <2>2. disk' \in Disks BY <1>2, DisksStay
  <2> HIDE DEF Disks
  <2>3. Counted0' BY <2>1, <2>2
  <2>4. Asking' /\ Launched' /\ Staged' BY <2>1
  <2>5. App!InstallWhole' /\ App!OldKept' /\ App!BootConfirmed' BY <2>1
  <2> QED BY <2>3, <2>4, <2>5
<1>3. CASE App!Verify
  <2>1. /\ script = "verify" /\ UNCHANGED <<place, app, net, slots, ask>>
        /\ disk'.install = disk.install /\ disk'.file = disk.file
        /\ disk'.backup = disk.backup
        /\ \/ script' = "park" /\ spent' = spent /\ other' = other /\ disk'.stage = "new"
           \/ /\ script' = "told" /\ spent' = [spent EXCEPT !.fault = @ + 1]
              /\ disk.install \in App!Bundles => other' = disk.install
           \/ /\ script' = "told" /\ spent' = spent /\ spent.fault > 0
              /\ disk.install \in App!Bundles => other' = disk.install
    BY <1>3 DEF App!Verify
  <2>2. disk' \in Disks BY <1>3, DisksStay
  <2> HIDE DEF Disks
  <2>3. Counted0' BY <2>1, <2>2
  <2>4. Asking' /\ Launched' /\ Staged' BY <2>1
  <2>5. App!InstallWhole' /\ App!OldKept' /\ App!BootConfirmed' BY <2>1
  <2> QED BY <2>3, <2>4, <2>5
<1>4. CASE App!Park
  <2>1. /\ script = "park" /\ UNCHANGED <<place, app, net, slots, ask>>
        /\ \/ /\ script' = "swap" /\ spent' = spent /\ other' = other
              /\ disk'.install = "none" /\ disk'.stage = "new" /\ disk'.backup = "old"
           \/ /\ script' = "swap" /\ spent' = [spent EXCEPT !.fault = @ + 1] /\ other' = other
              /\ disk'.install = "none" /\ disk'.stage = "new" /\ disk'.backup = "nest"
           \/ /\ script' = "told" /\ other' = "old" /\ disk'.install = "old"
              /\ \/ spent' = [spent EXCEPT !.fault = @ + 1]
                 \/ spent' = spent /\ spent.click > 1
    <3>1. CASE GivesUp /\ (IF other = "none" THEN App!Fault ELSE UNCHANGED spent)
      <4>2. /\ script = "park" /\ UNCHANGED <<place, app, net, slots, ask>>
            /\ script' = "told" /\ other' = "old" /\ disk'.install = "old"
        BY <3>1, GivesUpLeaves
      <4>3. \/ spent' = [spent EXCEPT !.fault = @ + 1]
            \/ spent' = spent /\ spent.click > 1
        BY <3>1, <4>2
      <4> QED BY <4>2, <4>3
    <3>2. CASE /\ script = "park" /\ script' = "swap" /\ UNCHANGED <<place, app, net, slots, ask, other>>
               /\ disk' = [disk EXCEPT !.install = "none", !.backup = disk.install, !.file = "none"]
               /\ UNCHANGED spent
      BY <3>2
    <3>3. CASE /\ script = "park" /\ script' = "swap" /\ UNCHANGED <<place, app, net, slots, ask, other>>
               /\ disk' = [disk EXCEPT !.install = "none", !.backup = "nest", !.file = "none"]
               /\ App!Fault
      BY <3>3
    <3> QED BY <1>4, <3>1, <3>2, <3>3, Parks
  <2>2. disk' \in Disks BY <1>4, DisksStay
  <2> HIDE DEF Disks
  <2>3. Counted0' BY <2>1, <2>2
  <2>4. Asking' /\ Launched' /\ Staged' BY <2>1
  <2>5. App!InstallWhole' /\ App!OldKept' /\ App!BootConfirmed' BY <2>1
  <2> QED BY <2>3, <2>4, <2>5
<1>5. CASE App!Swap
  <2>0. disk' \in Disks BY <1>5, DisksStay
  <2>a. Clicked' BY <1>5 DEF App!Swap, App!RollBack
  <2>b. States'
    <3>1. /\ UNCHANGED <<app, net, place>> /\ script' \in {"drop", "told"}
          /\ other' \in App!Bundles \cup {"none"}
      BY <1>5 DEF App!Swap, App!RollBack
    <3> QED BY <3>1
  <2>1. Counted0' BY <2>0, <2>a, <2>b
  <2>c. /\ script = "swap" /\ place = "windows" /\ place' = place
         /\ \/ script' = "drop" /\ disk'.install = "new" /\ spent' = spent
            \/ /\ script' = "told" /\ disk'.install = disk.backup /\ disk'.backup = "none"
               /\ spent' = [spent EXCEPT !.fault = @ + 1]
            \/ /\ script' = "told" /\ disk' = disk
               /\ spent' = [spent EXCEPT !.fault = @ + 2]
    BY <1>5 DEF App!Swap, App!RollBack
  <2>2. Asking' /\ Launched' BY <1>5 DEF App!Swap, App!RollBack
  <2>3. Staged' BY <2>c
  <2>4. App!InstallWhole' /\ App!OldKept' BY <2>c
  <2>5. App!BootConfirmed' BY <1>5 DEF App!Swap, App!RollBack
  <2> QED BY <2>1, <2>2, <2>3, <2>4, <2>5
<1>6. CASE App!Drop
  <2>1. /\ script = "drop" /\ script' = "done" /\ UNCHANGED <<place, app, net, slots, ask>>
        /\ disk'.install = "new" /\ disk'.file = disk.file
        /\ \/ other' = "new" /\ spent' = spent
           \/ other' = other /\ spent' = [spent EXCEPT !.fault = @ + 1]
    BY <1>6 DEF App!Drop
  <2>2. disk' \in Disks BY <1>6, DisksStay
  <2> HIDE DEF Disks
  <2>3. Counted0' BY <2>1, <2>2
  <2>4. Asking' /\ Launched' /\ Staged' BY <2>1
  <2>5. App!InstallWhole' /\ App!OldKept' /\ App!BootConfirmed' BY <2>1
  <2> QED BY <2>3, <2>4, <2>5
<1>7. CASE App!Move
  <2>0. disk' \in Disks BY <1>7, DisksStay
  <2>a. Clicked' BY <1>7 DEF App!Move
  <2>b. States' BY <1>7 DEF App!Move
  <2>1. Counted0' BY <2>0, <2>a, <2>b
  <2>c. /\ script = "move" /\ place # "windows" /\ place' = place
         /\ \/ /\ script' = "relaunch" /\ disk'.install = "new" /\ spent' = spent
            \/ /\ script' = "copying" /\ place = "elsewhere" /\ spent' = spent
               /\ disk'.install = "part"
            \/ script' = "cp" /\ disk' = disk /\ spent'.fault > 0 /\ spent'.fault >= spent.fault
    <3>1. CASE App!ScriptStep("move", "relaunch")
      BY <1>7, <3>1 DEF App!Move
    <3>2. CASE App!ScriptStep("move", "copying")
      BY <1>7, <3>2 DEF App!Move
    <3>3. CASE App!ScriptStep("move", "cp")
      <4>1. disk' = disk /\ (IF disk.file = "new" THEN App!Fault ELSE UNCHANGED spent)
        BY <1>7, <3>3 DEF App!Move
      <4> QED BY <3>3, <4>1
    <3> QED BY <1>7, <3>1, <3>2, <3>3 DEF App!Move
  <2>2. Asking' /\ Launched' BY <1>7 DEF App!Move
  <2>3. Staged' BY <2>c
  <2>4. App!InstallWhole' /\ App!OldKept' BY <2>c
  <2>5. App!BootConfirmed' BY <1>7 DEF App!Move
  <2> QED BY <2>1, <2>2, <2>3, <2>4, <2>5
<1>8. CASE App!Copying
  <2>0. disk' \in Disks BY <1>8 DEF App!Copying, App!Copied
  <2>a. Clicked' BY <1>8 DEF App!Copying, App!Copied
  <2>b. States' BY <1>8 DEF App!Copying, App!Copied
  <2>1. Counted0' BY <2>0, <2>a, <2>b
  <2>c. /\ script = "copying" /\ place = "elsewhere" /\ place' = place
         /\ \/ /\ script' = "relaunch" /\ disk'.install = "new" /\ spent' = spent
            \/ script' = "cp" /\ disk' = disk /\ spent'.fault > 0
    <3>1. CASE App!Copied("copying") BY <3>1 DEF App!Copied
    <3>2. CASE App!ScriptStep("copying", "cp") /\ App!Fault /\ UNCHANGED <<other, disk>>
      BY <3>2
    <3> QED BY <1>8, <3>1, <3>2 DEF App!Copying
  <2>2. Asking' /\ Launched' BY <1>8 DEF App!Copying, App!Copied
  <2>3. Staged' BY <2>c
  <2>4. App!InstallWhole' /\ App!OldKept' BY <2>c
  <2>5. App!BootConfirmed' BY <1>8 DEF App!Copying, App!Copied
  <2> QED BY <2>1, <2>2, <2>3, <2>4, <2>5
<1>9. CASE App!CopyOver BY <1>9 DEF App!CopyOver
<1>a. CASE App!Overwriting
  <2>0. disk' \in Disks BY <1>a DEF App!Overwriting, App!Copied
  <2>a. Clicked' BY <1>a DEF App!Overwriting, App!Copied
  <2>b. States' BY <1>a DEF App!Overwriting, App!Copied
  <2>1. Counted0' BY <2>0, <2>a, <2>b
  <2>2. Asking' /\ Launched' BY <1>a DEF App!Overwriting, App!Copied
  <2>3. Staged' BY <1>a DEF App!Overwriting, App!Copied
  <2>c. /\ script = "overwriting" /\ place # "windows" /\ place' = place
        /\ script' = "relaunch" /\ disk'.install \in {"new", disk.install}
        /\ spent'.fault > 0
    <3>1. CASE App!Copied("overwriting") BY <3>1 DEF App!Copied
    <3>2. CASE /\ App!ScriptStep("overwriting", "relaunch") /\ App!Fault
               /\ UNCHANGED <<other, disk>>
      BY <3>2
    <3> QED BY <1>a, <3>1, <3>2 DEF App!Overwriting
  <2>4. App!InstallWhole' /\ App!OldKept' BY <2>c
  <2>5. App!BootConfirmed' BY <1>a DEF App!Overwriting, App!Copied
  <2> QED BY <2>1, <2>2, <2>3, <2>4, <2>5
<1>b. CASE App!Relaunch BY <1>b DEF App!Relaunch
<1> QED BY <1>1, <1>2, <1>3, <1>4, <1>5, <1>6, <1>7, <1>8, <1>9, <1>a, <1>b DEF App!Script

LEMMA AppEnds == ASSUME AppInv, App!Quit \/ App!PowerCut PROVE AppInv'
<1> USE UpdatesAssumption
        DEF AppInv, Counted0, Disks, Clicked, States, Asking, NewFile, Launched, Staged,
            OnWindows, OnLinux, App!InScript,
            App!InstallWhole, App!OldKept, App!BootConfirmed, App!TypeOK, App!Click, App!Fault,
            App!Faults, App!Cancel, App!Bundles, App!Contents, App!Parameters
<1>1. CASE App!Quit BY <1>1 DEF App!Quit
<1>2. CASE App!PowerCut
  <2>0. disk' \in Disks BY <1>2 DEF App!PowerCut
  <2>a. Clicked' BY <1>2 DEF App!PowerCut
  <2>b. States' BY <1>2 DEF App!PowerCut
  <2>1. Counted0' BY <2>0, <2>a, <2>b
  <2>2. Asking' /\ Launched' BY <1>2 DEF App!PowerCut
  <2>3. Staged' BY <1>2 DEF App!PowerCut
  <2>4. App!InstallWhole' /\ App!OldKept' BY <1>2 DEF App!PowerCut
  <2>5. App!BootConfirmed' BY <1>2 DEF App!PowerCut
  <2> QED BY <2>1, <2>2, <2>3, <2>4, <2>5
<1> QED BY <1>1, <1>2

LEMMA AppTypes == ASSUME AppInv PROVE App!TypeOK
BY DEF AppInv, Counted0, Disks, Clicked, States, App!TypeOK

LEMMA AppStep == ASSUME AppInv, [App!Next]_host PROVE AppInv'
<1>1. CASE App!Next BY <1>1, AppProgram, AppScript, AppEnds DEF App!Next
<1>2. CASE UNCHANGED host
  BY <1>2 DEF host, AppInv, Counted0, Disks, Clicked, States, Asking, NewFile, Launched, Staged,
              App!InstallWhole, App!OldKept, App!BootConfirmed
<1> QED BY <1>1, <1>2

-----------------------------------------------------------------------------
(* Frames in flight *)

Flying(q) == {q[i] : i \in 1..Len(q)}
Sort == [k : {"data", "begin", "end"}, of : 0..MaxRuns, seq : Seqs]
Answers == [k : Replies \cup {"ack"}, seq : Seqs]

LEMMA FlyingCarried ==
  ASSUME NEW S, NEW q \in Seq(S), NEW f \in S, NEW r \in Carried(q, f)
  PROVE  r \in Seq(S) /\ Flying(r) \subseteq Flying(q) \cup {f} /\ Flying(q) \subseteq Flying(r)
<1>1. CASE r = q BY <1>1
<1>2. CASE r = Append(q, f)
  <2>1. /\ r \in Seq(S) /\ Len(r) = Len(q) + 1 /\ r[Len(q) + 1] = f
        /\ \A i \in 1..Len(q) : r[i] = q[i]
    BY <1>2
  <2> QED BY <2>1 DEF Flying
<1> QED BY <1>1, <1>2 DEF Carried

LEMMA FlyingTail ==
  ASSUME NEW S, NEW q \in Seq(S), q # <<>>
  PROVE  /\ Tail(q) \in Seq(S) /\ Head(q) \in Flying(q) /\ Flying(Tail(q)) \subseteq Flying(q)
         /\ Head(q) \in S
         /\ Len(q) = 1 => Flying(Tail(q)) = {}
<1>1. /\ Len(q) \in Nat \ {0} /\ Tail(q) \in Seq(S) /\ Len(Tail(q)) = Len(q) - 1 /\ Head(q) = q[1]
      /\ \A i \in 1..Len(q) - 1 : Tail(q)[i] = q[i + 1]
  OBVIOUS
<1> QED BY <1>1 DEF Flying

LEMMA FlyingBurst ==
  ASSUME NEW S \in SUBSET Seqs, toNode \in Seq(Sort), run \in 0..MaxRuns, Burst(S)
  PROVE  /\ toNode' \in Seq(Sort)
         /\ Flying(toNode') \subseteq Flying(toNode) \cup {Data(s) : s \in S}
<1>1. PICK n \in 0..MaxFrames - Len(toNode) : \E arrive \in [1..n -> S] :
        toNode' = toNode \o [i \in 1..n |-> Data(arrive[i])]
  BY DEF Burst
<1>2. PICK arrive \in [1..n -> S] : toNode' = toNode \o [i \in 1..n |-> Data(arrive[i])]
  BY <1>1
<1> DEFINE b == [i \in 1..n |-> Data(arrive[i])]
<1>3. \A i \in 1..n : b[i] \in Sort /\ b[i] \in {Data(s) : s \in S} BY <1>2 DEF Data, Sort
<1>4. n \in Nat BY OtaAssumption
<1>5. b \in Seq(Sort) /\ Len(b) = n BY <1>3, <1>4
<1> HIDE DEF b
<1>6. /\ toNode' \in Seq(Sort) /\ Len(toNode') = Len(toNode) + n
      /\ \A i \in 1..Len(toNode) : toNode'[i] = toNode[i]
      /\ \A i \in Len(toNode) + 1..Len(toNode) + n : toNode'[i] = b[i - Len(toNode)]
  BY <1>2, <1>4, <1>5 DEF b
<1>7. ASSUME NEW i \in 1..Len(toNode')
      PROVE  toNode'[i] \in Flying(toNode) \cup {Data(s) : s \in S}
  <2>1. CASE i \in 1..Len(toNode) BY <2>1, <1>6 DEF Flying
  <2>2. CASE i \notin 1..Len(toNode)
    <3>1. i - Len(toNode) \in 1..n /\ i \in Len(toNode) + 1..Len(toNode) + n
      BY <2>2, <1>4, <1>6
    <3> QED BY <3>1, <1>3, <1>6 DEF b
  <2> QED BY <2>1, <2>2
<1> QED BY <1>6, <1>7 DEF Flying

-----------------------------------------------------------------------------
(* The window slides over what was acknowledged *)

\* The shortest interval from a to a number of S: intervals are subsets of one
\* finite set, whose strict inclusion is well-founded.
LEMMA LeastFrom ==
  ASSUME NEW a \in Int, NEW z \in Int, NEW S, S \subseteq a..z, S # {}
  PROVE  \E b \in S : \A c \in S : b <= c
<1> DEFINE D == a..z
           F == {a..c : c \in S}
<1>1. IsFiniteSet(D) BY FS_Interval
<1>2. FiniteSubsetsOf(D) = SUBSET D BY <1>1, FS_FiniteSubsetsOfFinite
<1>3. IsWellFoundedOn(StrictSubsetOrdering(D), SUBSET D)
  BY <1>1, <1>2, FS_StrictSubsetOrderingWellFounded
<1>4. F \subseteq SUBSET D /\ F # {}
  <2>1. ASSUME NEW c \in S PROVE a..c \subseteq a..z
    <3>1. c \in Int /\ c <= z OBVIOUS
    <3> QED BY <3>1
  <2>2. F \subseteq SUBSET D BY <2>1
  <2>3. PICK c \in S : TRUE OBVIOUS
  <2> QED BY <2>2, <2>3
<1>5. \E s \in F : \A u \in F : <<u, s>> \notin StrictSubsetOrdering(D)
  <2> HIDE DEF D, F
  <2> QED BY <1>3, <1>4, WFMin
<1>6. PICK s \in F : \A u \in F : u \subseteq s => u = s
  BY <1>4, <1>5 DEF StrictSubsetOrdering
<1>7. PICK b \in S : s = a..b BY <1>6
<1>8. ASSUME NEW c \in S PROVE b <= c
  <2>1. CASE c < b
    <3>1. a..c \subseteq a..b /\ b \in a..b /\ b \notin a..c BY <2>1
    <3> QED BY <3>1, <1>6, <1>7
  <2> QED BY <2>1
<1> QED BY <1>8

LEMMA WindowSlides ==
  ASSUME acked \subseteq Seqs, base \in 0..Total
  PROVE  /\ Contiguous \in base..Total /\ Contiguous \notin acked
         /\ base..Contiguous - 1 \subseteq acked
<1> DEFINE B == {b \in base..Total : b \notin acked}
<1>0. Total \in Nat /\ base \in Nat BY OtaAssumption
<1>1. Total \in B BY <1>0 DEF Seqs
<1>2. PICK b \in B : \A c \in B : b <= c
  <2>1. B \subseteq base..Total /\ B # {} BY <1>1
  <2>2. base \in Int /\ Total \in Int BY <1>0
  <2> HIDE DEF B
  <2> QED BY <2>1, <2>2, LeastFrom
<1>3. base..b - 1 \subseteq acked BY <1>0, <1>2
<1> QED BY <1>2, <1>3 DEF Contiguous

-----------------------------------------------------------------------------
(* Over ESP-NOW: types *)

OtaTyped == /\ TypeOK /\ toNode \in Seq(Sort) /\ toPc \in Seq(Answers)
            /\ written \in Seq((0..MaxRuns) \X Seqs)

LEMMA OtaNumbers ==
  /\ Total \in Nat /\ Total > 0 /\ Window \in Nat /\ MaxRuns \in Nat /\ MaxEnds \in Nat
  /\ MaxRetries \in Nat /\ MaxFaults \in Nat /\ MaxCycles \in Nat
BY OtaAssumption

LEMMA OtaTypedInit == Init => OtaTyped
<1> SUFFICES ASSUME Init PROVE OtaTyped OBVIOUS
<1>1. retries \in [Seqs -> 0..MaxRetries] BY OtaNumbers DEF Init
<1>2. toNode = <<>> /\ toPc = <<>> /\ written = <<>> BY DEF Init
<1>3. Len(written) = 0 /\ acked = {} BY <1>2 DEF Init
<1>5. pc \in Running \cup {"idle", "ok", "failed"} /\ run \in 0..MaxRuns BY OtaNumbers DEF Init
<1>6. base \in 0..Total /\ next \in 0..Total /\ ends \in 0..MaxEnds BY OtaNumbers DEF Init
<1>7. acked \subseteq Seqs /\ term \in Replies \cup {"none"} BY DEF Init
<1>8. /\ fw \in 0..MaxRuns /\ power \in {"on", "booting", "bricked"} /\ image \in 0..MaxRuns
      /\ faults \in 0..MaxFaults /\ cycles \in 0..MaxCycles
  BY OtaNumbers DEF Init
<1>9. active \in BOOLEAN /\ bad \in BOOLEAN BY DEF Init
<1>4. TypeOK BY <1>1, <1>3, <1>5, <1>6, <1>7, <1>8, <1>9, OtaNumbers DEF TypeOK
<1> QED BY <1>2, <1>4 DEF OtaTyped

LEMMA BeginFrame ==
  ASSUME NEW r \in 0..MaxRuns
  PROVE  [Begin EXCEPT !.of = r] = [k |-> "begin", of |-> r, seq |-> 0]
BY DEF Begin

LEMMA NextRun ==
  ASSUME run \in 0..MaxRuns, Start
  PROVE  run' = run + 1 /\ run' \in 0..MaxRuns
BY OtaNumbers DEF Start

LEMMA OtaTypedWorker ==
  ASSUME OtaTyped, Start \/ Cancel \/ Worker
  PROVE  OtaTyped'
<1> USE OtaNumbers DEF OtaTyped, TypeOK, Running
<1>0. 0 \in Seqs /\ Seqs \subseteq Nat BY DEF Seqs
<1>1. CASE Start
  <2>1. [Begin EXCEPT !.of = run + 1] \in Sort 
    <3>1. run' = run + 1 /\ run' \in 0..MaxRuns BY <1>1, NextRun
    <3>2. [Begin EXCEPT !.of = run + 1] = [k |-> "begin", of |-> run + 1, seq |-> 0]
      BY <3>1, BeginFrame
    <3> QED BY <3>1, <3>2, <1>0 DEF Sort
  <2>2. toNode' \in Seq(Sort) BY <1>1, <2>1, FlyingCarried DEF Start
  <2>3. run' \in 0..MaxRuns BY <1>1, NextRun
  <2>4. retries' \in [Seqs -> 0..MaxRetries] BY <1>1 DEF Start
  <2> QED BY <1>1, <2>2, <2>3, <2>4 DEF Start, node
<1>2. CASE \E l \in {"failed", "check", "fill", "ok"} : Goto(l)
  BY <1>2 DEF Goto, heard, node
<1>3. CASE Fill
  <2>1. PICK top \in UpTo : \A n \in UpTo : top <= n
    <3>1. base + Window \in Int /\ Total \in Int OBVIOUS
    <3> QED BY <3>1 DEF UpTo
  <2>2. (CHOOSE m \in UpTo : \A n \in UpTo : m <= n) \in 0..Total
    <3>1. \A m \in UpTo : (\A n \in UpTo : m <= n) => m \in 0..Total BY DEF UpTo
    <3> QED BY <2>1, <3>1
  <2> DEFINE m == CHOOSE m \in UpTo : \A n \in UpTo : m <= n
  <2>3. /\ Burst({s \in Seqs : next <= s /\ s < m})
        /\ next' = IF next < m THEN m ELSE next
        /\ pc' = "advance" /\ UNCHANGED <<run, base, retries, ends, heard, toPc, node>>
    BY <1>3 DEF Fill
  <2> HIDE DEF m
  <2>4. toNode' \in Seq(Sort) BY <2>3, FlyingBurst
  <2> QED BY <2>2, <2>3, <2>4 DEF m, heard, node
<1>4. CASE Advance
  <2>1. base' \in 0..Total BY <1>4, WindowSlides DEF Advance
  <2> QED BY <1>4, <2>1 DEF Advance, heard, node
<1>5. CASE \E T \in SUBSET Unacked : Resend(T)
  <2>1. PICK T \in SUBSET Unacked : Resend(T) BY <1>5
  <2> DEFINE again == {s \in T : \A x \in Exhausted(T) : s < x}
  <2>0. Unacked \subseteq Seqs BY DEF Unacked, Seqs
  <2>2. again \in SUBSET Seqs BY <2>0
  <2>3. toNode' \in Seq(Sort) BY <2>1, <2>2, FlyingBurst DEF Resend
  <2>4. \A s \in again : s \in Seqs /\ retries[s] # MaxRetries BY <2>2 DEF Exhausted, Seqs
  <2>5. retries' \in [Seqs -> 0..MaxRetries] BY <2>1, <2>2, <2>4 DEF Resend, Counted
  <2>6. pc' \in {"failed", "check", "end"} /\ term' \in {"none", term} BY <2>1 DEF Resend
  <2> QED BY <2>1, <2>3, <2>5, <2>6 DEF Resend, node
<1>6. CASE SendEnd
  <2>1. End \in Sort BY <1>0 DEF End, Sort
  <2>2. toNode' \in Seq(Sort) BY <1>6, <2>1, FlyingCarried DEF SendEnd
  <2> QED BY <1>6, <2>2 DEF SendEnd, heard, node
<1> QED BY <1>1, <1>2, <1>3, <1>4, <1>5, <1>6
  DEF Cancel, Worker, AwaitReady, Check, Confirmed, EndFailed

LEMMA OtaTypedHandle ==
  ASSUME OtaTyped, Handle
  PROVE  OtaTyped'
<1>1. toPc' \in Seq(Answers) /\ Head(toPc) \in Answers
  BY FlyingTail DEF Handle, OtaTyped
<1> QED BY <1>1 DEF Handle, OtaTyped, TypeOK, Answers, worker, node

LEMMA OtaTypedNode ==
  ASSUME OtaTyped, Receive \/ Boot \/ PowerCycle
  PROVE  OtaTyped'
<1> USE OtaNumbers DEF OtaTyped, TypeOK
<1>0. 0 \in Seqs BY DEF Seqs
<1>w. written' = <<>> => written' \in Seq((0..MaxRuns) \X Seqs) /\ Len(written') <= Total
  OBVIOUS
<1>z. FlashFault => faults' \in 0..MaxFaults BY DEF FlashFault
<1>a. \A r \in Replies : Reply(r) \in Answers BY <1>0 DEF Reply, Answers
<1>b. \A r \in Replies : \A q \in Carried(toPc, Reply(r)) : q \in Seq(Answers)
  BY <1>a, FlyingCarried
<1>1. CASE Receive
  <2>1. toNode' \in Seq(Sort) /\ Head(toNode) \in Sort BY <1>1, FlyingTail DEF Receive
  <2> DEFINE f == Head(toNode)
  <2>2. UNCHANGED <<pc, run, base, next, retries, ends, acked, term, cycles>>
    BY <1>1 DEF Receive, worker, heard
  <2>3. /\ f \in Sort
        /\ \/ OnBegin(f) \/ OnBeginError(f) \/ OnData(f) \/ OnWriteError(f) \/ OnEnd(f)
              \/ NotActive(f)
           \/ UNCHANGED <<fw, power, active, image, written, bad, faults, toPc>>
    BY <1>1, <2>1 DEF Receive
  <2> HIDE DEF f
  <2>4. CASE OnBegin(f)
    <3>1. toPc' \in Seq(Answers) BY <1>b, <2>4 DEF OnBegin, Replies
    <3> QED 
    <4>1. /\ active' = TRUE /\ image' \in 0..MaxRuns /\ written' = <<>> /\ bad' = FALSE
          /\ UNCHANGED <<fw, power, faults>>
      BY <2>3, <2>4 DEF OnBegin, Sort
    <4> QED BY <1>w, <2>1, <2>2, <4>1, <3>1
  <2>5. CASE OnBeginError(f)
    <3>1. toPc' \in Seq(Answers) BY <1>b, <2>5 DEF OnBeginError, Replies
    <3> QED 
    <4>1. /\ active' = FALSE /\ written' = <<>> /\ faults' \in 0..MaxFaults
          /\ UNCHANGED <<fw, power, image, bad>>
      BY <1>z, <2>5 DEF OnBeginError
    <4> QED BY <1>w, <2>1, <2>2, <4>1, <3>1
  <2>6. CASE OnData(f)
    <3>1. Ack(f.seq) \in Answers BY <2>3 DEF Ack, Answers, Sort
    <3>2. toPc' \in Seq(Answers) BY <2>6, <3>1, FlyingCarried DEF OnData
    <3>3. <<f.of, f.seq>> \in (0..MaxRuns) \X Seqs BY <2>3 DEF Sort
    <3>4. written' \in Seq((0..MaxRuns) \X Seqs) /\ Len(written') <= Total
      <4>1. CASE Expected(f.seq)
        <5>1. written' = Append(written, <<f.of, f.seq>>) BY <2>6, <4>1 DEF OnData
        <5>2. Len(written) < Total BY <4>1, <2>3 DEF Expected, Sort, Seqs
        <5> QED BY <5>1, <5>2, <3>3
      <4>2. CASE ~Expected(f.seq) BY <2>6, <4>2 DEF OnData
      <4> QED BY <4>1, <4>2
    <3>5. bad' \in BOOLEAN /\ faults' \in 0..MaxFaults BY <1>z, <2>6 DEF OnData
    <3> QED BY <2>1, <2>2, <2>6, <3>2, <3>4, <3>5 DEF OnData
  <2>7. CASE OnWriteError(f)
    <3>1. toPc' \in Seq(Answers) BY <1>b, <2>7 DEF OnWriteError, Replies
    <3> QED BY <1>z, <2>1, <2>2, <2>3, <2>7, <3>1 DEF OnWriteError
  <2>8. CASE OnEnd(f)
    <3>1. toPc' \in Seq(Answers) BY <1>b, <2>8 DEF OnEnd, Replies, Silently
    <3> QED BY <2>1, <2>2, <2>3, <2>8, <3>1 DEF OnEnd
  <2>9. CASE NotActive(f)
    <3>1. toPc' \in Seq(Answers) BY <1>b, <2>9 DEF NotActive, Replies
    <3> QED BY <2>1, <2>2, <2>3, <2>9, <3>1 DEF NotActive
  <2> QED BY <2>1, <2>2, <2>3, <2>4, <2>5, <2>6, <2>7, <2>8, <2>9
<1>2. CASE Boot
  <2>1. toPc' \in Seq(Answers) BY <1>b, <1>2 DEF Boot, Replies
  <2> QED BY <1>2, <2>1 DEF Boot, worker, heard
<1>3. CASE PowerCycle
  <2>1. active' \in BOOLEAN BY <1>3 DEF PowerCycle
  <2> QED BY <2>1, <1>w, <1>3 DEF PowerCycle, worker, heard
<1> QED BY <1>1, <1>2, <1>3

LEMMA OtaTypedStep == ASSUME OtaTyped, [Next]_vars PROVE OtaTyped'
<1>1. CASE Next BY <1>1, OtaTypedWorker, OtaTypedHandle, OtaTypedNode DEF Next
<1>2. CASE UNCHANGED vars
  BY <1>2 DEF vars, worker, heard, node, OtaTyped, TypeOK
<1> QED BY <1>1, <1>2

-----------------------------------------------------------------------------
(* Over ESP-NOW: the first run *)

Opening == \E f \in Flying(toNode) : f.k = "begin"
Ending  == pc = "end" \/ \E f \in Flying(toNode) : f.k = "end"

\* The one ota_begin of a run travels alone, and what acknowledges a chunk of
\* an active transfer was sent after the chunk was written.
FirstRun ==
  /\ run = 0 => /\ toNode = <<>> /\ toPc = <<>> /\ ~active /\ image = 0 /\ fw = 0
                /\ pc = "idle" /\ power = "on" /\ written = <<>> /\ ~bad
  /\ run = 1 =>
       /\ \A f \in Flying(toNode) : f.of = 1
       /\ Opening => /\ Len(toNode) = 1 /\ Flying(toPc) = {} /\ acked = {} /\ base = 0
                     /\ term = "none" /\ ~active /\ power = "on"
                     /\ pc \in {"begin", "failed"}
       /\ active => /\ base <= Len(written) /\ \A s \in acked : s < Len(written)
                    /\ \A f \in Flying(toPc) : f.k = "ack" => f.seq < Len(written)

\* Without a fault and a power cut a transfer is not yet begun, under way, or
\* over; once it is over the node runs the image, and says so only when it does.
Smooth == run = 1 /\ faults = 0 /\ cycles = 0
NotBegun == /\ ~active /\ fw = 0 /\ power = "on" /\ written = <<>> /\ ~bad
            /\ Flying(toPc) = {} /\ term = "none" /\ pc \in {"begin", "failed"}
            /\ \A f \in Flying(toNode) : f.k = "begin"
UnderWay == /\ fw = 0 /\ power = "on" /\ ~bad /\ pc # "ok"
            /\ \A i \in 1..Len(written) : written[i] = <<1, i - 1>>
            /\ term \in {"none", "ready"} /\ \A f \in Flying(toPc) : f.k \in {"ack", "ready"}
            /\ Ending => base = Total
Believed == \/ term \in Confirmations \/ pc = "ok"
            \/ \E f \in Flying(toPc) : f.k \in Confirmations
Over == fw = 1 /\ (Believed => power = "on")
CleanRun == Smooth => /\ image \in {0, 1} /\ (image = 0 => NotBegun)
                      /\ image = 1 => ~Opening /\ (active => UnderWay) /\ (~active => Over)

OtaInv == OtaTyped /\ FirstRun /\ CleanRun

LEMMA OtaStarts == Init => OtaInv
<1> SUFFICES ASSUME Init PROVE OtaInv OBVIOUS
<1>1. OtaTyped BY OtaTypedInit
<1>2. FirstRun BY DEF Init, FirstRun
<1>3. CleanRun BY DEF Init, CleanRun, Smooth
<1> QED BY <1>1, <1>2, <1>3 DEF OtaInv

LEMMA FirstStart == ASSUME OtaInv, Start PROVE FirstRun' /\ CleanRun'
<1>1. /\ run \in Nat /\ run' = run + 1 /\ UNCHANGED node /\ UNCHANGED toPc
      /\ pc' = "begin" /\ base' = 0 /\ acked' = {} /\ term' = "none"
      /\ toNode' \in Carried(toNode, [Begin EXCEPT !.of = run + 1])
  BY OtaNumbers DEF OtaInv, OtaTyped, TypeOK, Start
<1>2. CASE run # 0
  <2>1. run' # 0 /\ run' # 1 BY <1>1, <1>2
  <2> QED BY <2>1 DEF FirstRun, CleanRun, Smooth
<1>3. CASE run = 0
  <2>1. run' = 1 BY <1>1, <1>3
  <2>2. /\ toNode = <<>> /\ toPc = <<>> /\ ~active /\ image = 0 /\ fw = 0
        /\ power = "on" /\ written = <<>> /\ ~bad
    BY <1>3 DEF OtaInv, FirstRun
  <2>3. Flying(toPc) = {} BY <2>2 DEF Flying
  <2> DEFINE b == [k |-> "begin", of |-> 1, seq |-> 0]
  <2>4. toNode' \in {<<>>, <<b>>}
    <3>1. [Begin EXCEPT !.of = run + 1] = b
      <4>1. run + 1 = 1 /\ 1 \in 0..MaxRuns BY <1>3, NextRun DEF OtaInv, OtaTyped, TypeOK
      <4> QED BY <4>1, BeginFrame
    <3>2. Append(<<>>, b) = <<b>> OBVIOUS
    <3> QED BY <1>1, <2>2, <3>1, <3>2 DEF Carried
  <2>5. /\ \A f \in Flying(toNode') : f.k = "begin" /\ f.of = 1
        /\ Flying(toNode') # {} => Len(toNode') = 1
    BY <2>4 DEF Flying
  <2>6. FirstRun' BY <1>1, <2>1, <2>2, <2>3, <2>5 DEF FirstRun, Opening, node
  <2>7. CleanRun' BY <1>1, <2>1, <2>2, <2>3, <2>5 DEF CleanRun, NotBegun, node
  <2> QED BY <2>6, <2>7
<1> QED BY <1>2, <1>3

\* The worker moves on, and hears what it hears.
LEMMA FirstGoto ==
  ASSUME OtaInv, Cancel \/ AwaitReady \/ Check \/ Confirmed \/ EndFailed
  PROVE  FirstRun' /\ CleanRun'
<1>1. /\ UNCHANGED <<run, base, next, retries, ends, heard, toNode, toPc, node>>
      /\ pc # "idle"
      /\ \/ pc' = "failed"
         \/ pc = "begin" /\ term = "ready" /\ pc' = "check"
         \/ pc = "check" /\ pc' = "fill"
         \/ pc = "end" /\ term \in Confirmations /\ pc' = "ok"
  BY DEF Cancel, AwaitReady, Check, Confirmed, EndFailed, Goto
<1>2. FirstRun' BY <1>1 DEF OtaInv, FirstRun, Opening, heard, node
<1>3. CleanRun'
  <2> SUFFICES ASSUME Smooth PROVE CleanRun'
    BY <1>1 DEF CleanRun, Smooth, node
  <2>1. NotBegun => NotBegun' BY <1>1 DEF NotBegun, heard, node
  <2>2. UnderWay => UnderWay' BY <1>1 DEF UnderWay, Ending, Confirmations, heard, node
  <2>3. Over => Over' BY <1>1 DEF Over, Believed, Confirmations, heard, node
  <2> QED BY <1>1, <2>1, <2>2, <2>3 DEF OtaInv, CleanRun, Smooth, Opening, heard, node
<1> QED BY <1>2, <1>3

\* Frames of a chunk, or of the end, join the others.
LEMMA FirstSends ==
  ASSUME OtaInv, NEW K, K \subseteq {"data", "end"},
         Flying(toNode') \subseteq Flying(toNode) \cup [k : K, of : {run}, seq : Seqs],
         UNCHANGED <<run, acked, toPc, node>>, base' \in base..Total,
         active => base' <= Len(written) \/ run # 1,
         pc \notin {"idle", "begin", "failed"}, pc' # "ok", term' \in {"none", term},
         pc' = "end" \/ "end" \in K => Ending \/ base' = Total
  PROVE  FirstRun' /\ CleanRun'
<1>0. run # 0 BY DEF OtaInv, FirstRun
<1>1. run = 1 => ~Opening BY DEF OtaInv, FirstRun
<1>2. ~Opening => ~Opening' BY DEF Opening
<1>3. FirstRun' BY <1>0, <1>1, <1>2 DEF OtaInv, FirstRun, node
<1>4. CleanRun'
  <2> SUFFICES ASSUME Smooth PROVE CleanRun'
    BY DEF CleanRun, Smooth, node
  <2>1. ~NotBegun BY DEF NotBegun
  <2>2. UnderWay => UnderWay'
    <3> SUFFICES ASSUME UnderWay PROVE UnderWay' OBVIOUS
    <3>1. Ending' => base' = Total
      <4>1. Ending => base' = Total BY OtaNumbers DEF UnderWay, OtaInv, OtaTyped, TypeOK
      <4> QED BY <4>1 DEF Ending
    <3> QED BY <3>1 DEF UnderWay, node
  <2>3. Over => Over' BY DEF Over, Believed, Confirmations, node
  <2> QED BY <1>1, <1>2, <2>1, <2>2, <2>3 DEF OtaInv, CleanRun, Smooth, node
<1> QED BY <1>3, <1>4

LEMMA FirstFill == ASSUME OtaInv, Fill PROVE FirstRun' /\ CleanRun'
<1>1. PICK S \in SUBSET Seqs : Burst(S) BY DEF Fill
<1>2. Flying(toNode') \subseteq Flying(toNode) \cup {Data(x) : x \in S}
  BY <1>1, FlyingBurst DEF OtaInv, OtaTyped, TypeOK
<1>3. {Data(x) : x \in S} \subseteq [k : {"data"}, of : {run}, seq : Seqs] BY DEF Data
<1>4. /\ pc = "fill" /\ pc' = "advance"
      /\ UNCHANGED <<run, base, acked, term, toPc, node>>
  BY DEF Fill, heard
<1>5. base' \in base..Total /\ (active => base' <= Len(written) \/ run # 1)
  BY <1>4, OtaNumbers DEF OtaInv, OtaTyped, TypeOK, FirstRun
<1> QED BY <1>2, <1>3, <1>4, <1>5, FirstSends

LEMMA FirstAdvance == ASSUME OtaInv, Advance PROVE FirstRun' /\ CleanRun'
<1>1. /\ pc = "advance" /\ pc' = "resend" /\ base' = Contiguous
      /\ UNCHANGED <<run, acked, term, toNode, toPc, node>>
  BY DEF Advance, heard
<1>2. base' \in base..Total /\ base..base' - 1 \subseteq acked
  BY <1>1, WindowSlides DEF OtaInv, OtaTyped, TypeOK
<1>3. ASSUME active, run = 1 PROVE base' <= Len(written)
  <2>1. base <= Len(written) /\ \A x \in acked : x < Len(written)
    BY <1>3 DEF OtaInv, FirstRun
  <2>2. base \in Nat /\ base' \in Nat /\ Len(written) \in Nat
    BY <1>2, OtaNumbers DEF OtaInv, OtaTyped, TypeOK
  <2>3. CASE base' = base BY <2>1, <2>3
  <2>4. CASE base' > base
    <3>a. \A m, n \in Nat : n > m => n - 1 \in m..n - 1 OBVIOUS
    <3>0. base' - 1 \in base..base' - 1 BY <3>a, <2>2, <2>4
    <3>1. base' - 1 \in acked BY <1>2, <3>0
    <3> QED BY <2>1, <2>2, <3>1
  <2> QED BY <1>2, <2>2, <2>3, <2>4
<1>4. Flying(toNode') \subseteq Flying(toNode) \cup [k : {}, of : {run}, seq : Seqs] BY <1>1
<1>5. active => base' <= Len(written) \/ run # 1 BY <1>3
<1> QED BY <1>1, <1>2, <1>4, <1>5, FirstSends DEF node

LEMMA FirstResend ==
  ASSUME OtaInv, NEW T \in SUBSET Unacked, Resend(T)
  PROVE  FirstRun' /\ CleanRun'
<1>1. PICK S \in SUBSET Seqs : Burst(S)
  <2>1. Unacked \subseteq Seqs BY OtaNumbers DEF Unacked, Seqs, OtaInv, OtaTyped, TypeOK
  <2> QED BY <2>1 DEF Resend
<1>2. Flying(toNode') \subseteq Flying(toNode) \cup {Data(x) : x \in S}
  BY <1>1, FlyingBurst DEF OtaInv, OtaTyped, TypeOK
<1>3. {Data(x) : x \in S} \subseteq [k : {"data"}, of : {run}, seq : Seqs] BY DEF Data
<1>4. /\ pc = "resend" /\ pc' \in {"failed", "check", "end"} /\ (pc' = "end" => ~(base < Total))
      /\ term' \in {"none", term} /\ UNCHANGED <<run, base, acked, toPc, node>>
  BY DEF Resend
<1>5. base' \in base..Total /\ (active => base' <= Len(written) \/ run # 1)
      /\ (pc' = "end" => base' = Total)
  BY <1>4, OtaNumbers DEF OtaInv, OtaTyped, TypeOK, FirstRun
<1>6. Flying(toNode') \subseteq Flying(toNode) \cup [k : {"data"}, of : {run}, seq : Seqs]
  BY <1>2, <1>3
<1>7. pc \notin {"idle", "begin", "failed"} /\ pc' # "ok" BY <1>4
<1>8. pc' = "end" \/ "end" \in {"data"} => Ending \/ base' = Total BY <1>5
<1> QED BY <1>4, <1>5, <1>6, <1>7, <1>8, FirstSends

LEMMA FirstEnd == ASSUME OtaInv, SendEnd PROVE FirstRun' /\ CleanRun'
<1>1. End \in [k : {"end"}, of : {run}, seq : Seqs] BY OtaNumbers DEF End, Seqs
<1>2. End \in Sort
  BY <1>1 DEF Sort, OtaInv, OtaTyped, TypeOK
<1>3. /\ pc = "end" /\ pc' = pc /\ toNode' \in Carried(toNode, End)
      /\ UNCHANGED <<run, base, acked, term, toPc, node>>
  BY DEF SendEnd, heard
<1>4. Flying(toNode') \subseteq Flying(toNode) \cup {End}
  BY <1>2, <1>3, FlyingCarried DEF OtaInv, OtaTyped
<1>5. base' \in base..Total /\ (active => base' <= Len(written) \/ run # 1)
  BY <1>3, OtaNumbers DEF OtaInv, OtaTyped, TypeOK, FirstRun
<1>6. Flying(toNode') \subseteq Flying(toNode) \cup [k : {"end"}, of : {run}, seq : Seqs]
  BY <1>1, <1>4
<1>7. Ending BY <1>3 DEF Ending
<1> QED BY <1>3, <1>5, <1>6, <1>7, FirstSends

LEMMA FirstHandle == ASSUME OtaInv, Handle PROVE FirstRun' /\ CleanRun'
<1> DEFINE m == Head(toPc)
<1>1. /\ m \in Flying(toPc) /\ Flying(toPc') \subseteq Flying(toPc)
      /\ UNCHANGED <<worker, toNode, node>>
      /\ acked' = acked \/ (m.k = "ack" /\ acked' = acked \cup {m.seq})
      /\ term' = term \/ (m.k \in Replies /\ term' = m.k)
  BY FlyingTail DEF Handle, OtaInv, OtaTyped
<1>2. run # 0
  <2>1. toPc # <<>> BY DEF Handle
  <2> QED BY <2>1 DEF OtaInv, FirstRun
<1> HIDE DEF m
<1>3. FirstRun' BY <1>1, <1>2 DEF OtaInv, FirstRun, Opening, worker, node
<1>4. CleanRun'
  <2> SUFFICES ASSUME Smooth PROVE CleanRun'
    BY <1>1 DEF CleanRun, Smooth, worker, node
  <2>1. ~NotBegun BY <1>1 DEF NotBegun
  <2>2. UnderWay => UnderWay' BY <1>1 DEF UnderWay, Ending, Replies, worker, node
  <2>3. Over => Over' BY <1>1 DEF Over, Believed, worker, node
  <2> QED BY <1>1, <2>1, <2>2, <2>3 DEF OtaInv, CleanRun, Smooth, Opening, worker, node
<1> QED BY <1>3, <1>4

LEMMA FirstBoot == ASSUME OtaInv, Boot PROVE FirstRun' /\ CleanRun'
<1>0. Reply("done") \in Answers /\ Reply("done").k = "done"
  BY OtaNumbers DEF Reply, Answers, Replies, Seqs
<1>1. /\ power = "booting"
      /\ \/ power' = "on" /\ Flying(toPc') \subseteq Flying(toPc) \cup {Reply("done")}
         \/ UNCHANGED toPc
      /\ UNCHANGED <<worker, heard, toNode, fw, active, image, written, bad, faults, cycles>>
  BY <1>0, FlyingCarried DEF Boot, OtaInv, OtaTyped
<1>2. FirstRun' BY <1>0, <1>1 DEF OtaInv, FirstRun, Opening, worker, heard
<1>3. CleanRun'
  <2> SUFFICES ASSUME Smooth PROVE CleanRun'
    BY <1>1 DEF CleanRun, Smooth, worker, node
  <2>1. ~NotBegun /\ ~UnderWay BY <1>1 DEF NotBegun, UnderWay
  <2>2. Over => Over' BY <1>1 DEF Over, Believed, worker, heard
  <2> QED BY <1>1, <2>1, <2>2 DEF OtaInv, CleanRun, Smooth, Opening, worker
<1> QED BY <1>2, <1>3

LEMMA FirstPower == ASSUME OtaInv, PowerCycle PROVE FirstRun' /\ CleanRun'
<1>1. /\ cycles \in Nat /\ cycles' = cycles + 1 /\ active' = FALSE /\ written' = <<>>
      /\ UNCHANGED <<worker, heard, toNode, toPc, fw, power, image, bad, faults>>
  BY OtaNumbers DEF PowerCycle, OtaInv, OtaTyped, TypeOK
<1>2. FirstRun' BY <1>1 DEF OtaInv, FirstRun, Opening, worker, heard
<1>3. ~Smooth' BY <1>1 DEF Smooth
<1> QED BY <1>2, <1>3 DEF CleanRun

-----------------------------------------------------------------------------
(* Over ESP-NOW: what the node does with a frame *)

\* The frame is taken off the link, and it was the only one if it opens a run.
LEMMA Takes ==
  ASSUME OtaInv, Receive
  PROVE  LET f == Head(toNode)
         IN  /\ f \in Flying(toNode) /\ f \in Sort /\ Flying(toNode') \subseteq Flying(toNode)
             /\ run # 0 /\ (run = 1 => f.of = 1 /\ ~Opening')
             /\ f.k = "begin" => Opening /\ (run = 1 => Flying(toNode') = {})
             /\ f.k = "end" => Ending
             /\ UNCHANGED <<worker, heard, cycles>>
<1> DEFINE f == Head(toNode)
<1>1. /\ f \in Flying(toNode) /\ f \in Sort /\ Flying(toNode') \subseteq Flying(toNode)
      /\ Len(toNode) = 1 => Flying(toNode') = {}
      /\ toNode # <<>> /\ UNCHANGED <<worker, heard, cycles>>
  BY FlyingTail DEF Receive, OtaInv, OtaTyped
<1> HIDE DEF f
<1>2. run # 0 /\ (run = 1 => f.of = 1) BY <1>1 DEF OtaInv, FirstRun
<1>3. run = 1 /\ Opening => Flying(toNode') = {} BY <1>1 DEF OtaInv, FirstRun
<1>4. f.k = "begin" => Opening BY <1>1 DEF Opening
<1>5. run = 1 => ~Opening' BY <1>1, <1>3 DEF Opening
<1>6. f.k = "end" => Ending BY <1>1 DEF Ending
<1> QED BY <1>1, <1>2, <1>3, <1>4, <1>5, <1>6 DEF f

LEMMA ReplyFlies ==
  ASSUME OtaInv, NEW r \in Replies, toPc' \in Carried(toPc, Reply(r))
  PROVE  Flying(toPc') \subseteq Flying(toPc) \cup {Reply(r)} /\ Reply(r).k = r
<1>1. Reply(r) \in Answers /\ Reply(r).k = r BY OtaNumbers DEF Reply, Answers, Seqs
<1> QED BY <1>1, FlyingCarried DEF OtaInv, OtaTyped

LEMMA FirstAsleep ==
  ASSUME OtaInv, Receive, power # "on"
  PROVE  FirstRun' /\ CleanRun'
<1> DEFINE f == Head(toNode)
<1>1. UNCHANGED <<fw, power, active, image, written, bad, faults, toPc>> BY DEF Receive
<1>2. /\ Flying(toNode') \subseteq Flying(toNode) /\ run # 0 /\ (run = 1 => ~Opening')
      /\ UNCHANGED <<worker, heard, cycles>>
  BY Takes
<1>3. FirstRun' BY <1>1, <1>2 DEF OtaInv, FirstRun, worker, heard
<1>4. CleanRun'
  <2> SUFFICES ASSUME Smooth PROVE CleanRun'
    BY <1>1, <1>2 DEF CleanRun, Smooth, worker
  <2>1. ~NotBegun BY DEF NotBegun
  <2>2. UnderWay => UnderWay' BY <1>1, <1>2 DEF UnderWay, Ending, worker, heard
  <2>3. Over => Over' BY <1>1, <1>2 DEF Over, Believed, worker, heard
  <2> QED BY <1>1, <1>2, <2>1, <2>2, <2>3 DEF OtaInv, CleanRun, Smooth, worker
<1> QED BY <1>3, <1>4

LEMMA FirstBegun ==
  ASSUME OtaInv, Receive, OnBegin(Head(toNode))
  PROVE  FirstRun' /\ CleanRun'
<1> DEFINE f == Head(toNode)
<1>1. /\ f \in Flying(toNode) /\ Flying(toNode') \subseteq Flying(toNode)
      /\ run # 0 /\ (run = 1 => f.of = 1 /\ ~Opening')
      /\ f.k = "begin" => Opening /\ (run = 1 => Flying(toNode') = {})
      /\ UNCHANGED <<worker, heard, cycles>>
  BY Takes
<1>2. /\ active' = TRUE /\ image' = f.of /\ written' = <<>> /\ bad' = FALSE /\ f.k = "begin"
      /\ UNCHANGED <<fw, power, faults>> /\ toPc' \in Carried(toPc, Reply("ready"))
  BY DEF OnBegin
<1>3. Flying(toPc') \subseteq Flying(toPc) \cup {Reply("ready")} /\ Reply("ready").k = "ready"
  BY <1>2, ReplyFlies DEF Replies
<1> HIDE DEF f
<1>4. run = 1 => /\ Flying(toPc) = {} /\ acked = {} /\ base = 0 /\ term = "none" /\ Opening
                 /\ power = "on" /\ pc \in {"begin", "failed"}
  BY <1>1, <1>2 DEF OtaInv, FirstRun
<1>5. FirstRun'
  <2>1. Len(written') = 0 BY <1>2
  <2> QED BY <1>1, <1>2, <1>3, <1>4, <2>1 DEF FirstRun, worker, heard
<1>6. CleanRun'
  <2> SUFFICES ASSUME Smooth PROVE CleanRun'
    BY <1>1, <1>2 DEF CleanRun, Smooth, worker
  <2>1. run = 1 /\ fw = 0 BY <1>4 DEF OtaInv, CleanRun, Smooth, NotBegun
  <2>2. Len(written') = 0 BY <1>2
  <2>3. ~Ending' BY <1>1, <1>2, <1>4, <2>1 DEF Ending, worker
  <2>4. UnderWay' BY <1>1, <1>2, <1>3, <1>4, <2>1, <2>2, <2>3 DEF UnderWay, worker, heard
  <2> QED BY <1>1, <1>2, <2>1, <2>4 DEF CleanRun, worker
<1> QED BY <1>5, <1>6

\* A write that fails for good is a fault, and ends the transfer.
LEMMA FirstError ==
  ASSUME OtaInv, Receive, NEW f, OnBeginError(f) \/ OnWriteError(f)
  PROVE  FirstRun' /\ CleanRun'
<1>1. /\ active' = FALSE /\ faults' = faults + 1 /\ faults \in Nat
  BY OtaNumbers DEF OnBeginError, OnWriteError, FlashFault, OtaInv, OtaTyped, TypeOK
<1>2. /\ Flying(toNode') \subseteq Flying(toNode) /\ run # 0 /\ (run = 1 => ~Opening')
      /\ UNCHANGED <<worker, heard, cycles>>
  BY Takes
<1>3. FirstRun' BY <1>1, <1>2 DEF OtaInv, FirstRun, worker, heard
<1>4. ~Smooth' BY <1>1 DEF Smooth
<1> QED BY <1>3, <1>4 DEF CleanRun

LEMMA FirstData ==
  ASSUME OtaInv, Receive, OnData(Head(toNode))
  PROVE  FirstRun' /\ CleanRun'
<1> DEFINE f == Head(toNode)
           n == Len(written)
<1>1. /\ f \in Sort /\ Flying(toNode') \subseteq Flying(toNode)
      /\ run # 0 /\ (run = 1 => f.of = 1 /\ ~Opening')
      /\ UNCHANGED <<worker, heard, cycles>>
  BY Takes
<1>2. f.seq \in Nat /\ n \in Nat /\ written \in Seq((0..MaxRuns) \X Seqs)
  BY <1>1, OtaNumbers DEF Sort, Seqs, OtaInv, OtaTyped, TypeOK
<1>3. /\ active /\ UNCHANGED <<fw, power, active, image>>
      /\ \/ f.seq = n /\ written' = Append(written, <<f.of, f.seq>>)
         \/ f.seq # n /\ UNCHANGED <<written, bad>>
      /\ bad' = bad \/ faults' = faults + 1
      /\ faults' = faults \/ faults' = faults + 1
      /\ toPc' = toPc \/ (f.seq <= n /\ toPc' \in Carried(toPc, Ack(f.seq)))
  BY DEF OnData, Expected, Had, FlashFault, Carried
<1>4. f.seq <= n /\ toPc' \in Carried(toPc, Ack(f.seq))
        => /\ Flying(toPc') \subseteq Flying(toPc) \cup {Ack(f.seq)}
           /\ Ack(f.seq).k = "ack" /\ Ack(f.seq).seq = f.seq
  <2>1. Ack(f.seq) \in Answers BY <1>1 DEF Ack, Answers, Sort
  <2> QED BY <2>1, FlyingCarried DEF OtaInv, OtaTyped, Ack
<1>5. /\ Len(written') \in {n, n + 1} /\ (f.seq = n => Len(written') = n + 1)
      /\ \A i \in 1..n : written'[i] = written[i]
      /\ f.seq = n => written'[n + 1] = <<f.of, f.seq>>
      /\ f.seq # n => Len(written') = n
  BY <1>2, <1>3
<1>6. faults \in Nat BY OtaNumbers DEF OtaInv, OtaTyped, TypeOK
<1> HIDE DEF f
<1>7. FirstRun'
  <2> SUFFICES ASSUME run = 1 PROVE FirstRun' BY <1>1 DEF FirstRun, worker
  <2>1. /\ base <= n /\ \A s \in acked : s < n
        /\ \A g \in Flying(toPc) : g.k = "ack" => g.seq < n
    BY <1>3 DEF OtaInv, FirstRun
  <2>2. n <= Len(written') /\ (f.seq <= n => f.seq < Len(written')) BY <1>2, <1>5
  <2>a. base \in Int /\ acked \subseteq Int /\ Len(written') \in Nat
    BY <1>2, <1>5, OtaNumbers DEF OtaInv, OtaTyped, TypeOK, Seqs
  <2>3. base <= Len(written') /\ \A s \in acked : s < Len(written')
    BY <1>2, <2>1, <2>2, <2>a
  <2>4. ASSUME NEW g \in Flying(toPc'), g.k = "ack" PROVE g.seq < Len(written')
    <3>1. CASE g \in Flying(toPc)
      <4>1. g.seq < n /\ g.seq \in Int
        <5>0. toPc \in Seq(Answers) BY DEF OtaInv, OtaTyped
        <5>1. g \in Answers BY <3>1, <5>0 DEF Flying
        <5>2. g.seq \in Seqs BY <5>1 DEF Answers
        <5> QED BY <5>2, <2>1, <2>4, <3>1 DEF Seqs
      <4> QED BY <4>1, <1>2, <2>2, <2>a
    <3>2. CASE g \notin Flying(toPc) BY <1>3, <1>4, <2>2, <2>4, <3>2
    <3> QED BY <3>1, <3>2
  <2>5. \A g \in Flying(toNode') : g.of = 1 BY <1>1 DEF OtaInv, FirstRun
  <2> QED BY <1>1, <2>3, <2>4, <2>5 DEF FirstRun, worker, heard
<1>8. CleanRun'
  <2> SUFFICES ASSUME Smooth, Smooth' PROVE CleanRun'
    BY <1>1, <1>3, <1>6 DEF CleanRun, Smooth, worker
  <2>1. image = 1 /\ UnderWay /\ run = 1 BY <1>3 DEF OtaInv, CleanRun, Smooth, NotBegun
  <2>2. bad' = bad BY <1>3, <1>6 DEF Smooth
  <2>3. ASSUME NEW i \in 1..Len(written') PROVE written'[i] = <<1, i - 1>>
    <3>1. CASE i \in 1..n BY <3>1, <1>5, <2>1 DEF UnderWay
    <3>2. CASE i \notin 1..n
      <4>1. i = n + 1 /\ f.seq = n BY <3>2, <1>2, <1>5
      <4>2. i - 1 = n BY <4>1, <1>2
      <4> QED BY <4>1, <4>2, <1>1, <1>5, <2>1
    <3> QED BY <3>1, <3>2
  <2>4. \A g \in Flying(toPc') : g.k \in {"ack", "ready"} BY <1>3, <1>4, <2>1 DEF UnderWay
  <2>5. Ending' => base' = Total BY <1>1, <2>1 DEF UnderWay, Ending, worker
  <2>6. UnderWay' BY <1>1, <1>3, <2>1, <2>2, <2>3, <2>4, <2>5 DEF UnderWay, worker, heard
  <2> QED BY <1>1, <1>3, <2>1, <2>6 DEF CleanRun
<1> QED BY <1>7, <1>8

LEMMA FirstVerified ==
  ASSUME OtaInv, Receive, OnEnd(Head(toNode))
  PROVE  FirstRun' /\ CleanRun'
<1> DEFINE f == Head(toNode)
<1>1. /\ Flying(toNode') \subseteq Flying(toNode)
      /\ run # 0 /\ (run = 1 => ~Opening') /\ (f.k = "end" => Ending)
      /\ UNCHANGED <<worker, heard, cycles>>
  BY Takes
<1>2. /\ active /\ active' = FALSE /\ f.k = "end" /\ UNCHANGED <<image, written, bad, faults>>
      /\ Verified => fw' = image /\ power' = "booting" /\ toPc' = toPc
  BY DEF OnEnd, Silently
<1>3. FirstRun' BY <1>1, <1>2 DEF OtaInv, FirstRun, worker
<1>4. CleanRun'
  <2> SUFFICES ASSUME Smooth PROVE CleanRun'
    BY <1>1, <1>2 DEF CleanRun, Smooth, worker
  <2>1. image = 1 /\ UnderWay /\ run = 1 /\ base = Total /\ base <= Len(written)
    BY <1>1, <1>2 DEF OtaInv, CleanRun, FirstRun, Smooth, NotBegun, UnderWay
  <2>2. written = Whole
    <3>1. /\ Len(written) = Total /\ written \in Seq((0..MaxRuns) \X Seqs)
      BY <2>1, OtaNumbers DEF OtaInv, OtaTyped, TypeOK
    <3>2. \A i \in 1..Total : written[i] = <<1, i - 1>> BY <2>1, <3>1 DEF UnderWay
    <3>3. written = [i \in 1..Total |-> written[i]] BY <3>1
    <3> QED BY <2>1, <3>2, <3>3 DEF Whole
  <2>3. Verified BY <2>1, <2>2 DEF Verified, UnderWay
  <2>4. fw' = 1 /\ toPc' = toPc BY <1>2, <2>1, <2>3
  <2>5. ~Believed' BY <1>1, <2>1, <2>4 DEF UnderWay, Believed, Confirmations, worker, heard
  <2>6. Over' BY <2>4, <2>5 DEF Over
  <2>7. image' = 1 /\ ~Opening' /\ ~active' BY <1>1, <1>2, <2>1
  <2> QED BY <2>6, <2>7 DEF CleanRun
<1> QED BY <1>3, <1>4

LEMMA FirstNotActive ==
  ASSUME OtaInv, Receive, power = "on", NotActive(Head(toNode))
  PROVE  FirstRun' /\ CleanRun'
<1> DEFINE f == Head(toNode)
<1>1. /\ f \in Flying(toNode) /\ Flying(toNode') \subseteq Flying(toNode)
      /\ run # 0 /\ (run = 1 => ~Opening')
      /\ UNCHANGED <<worker, heard, cycles>>
  BY Takes
<1>2. ~active /\ f.k # "begin" /\ UNCHANGED <<fw, power, active, image, written, bad, faults>>
  BY DEF NotActive
<1>3. FirstRun' BY <1>1, <1>2 DEF OtaInv, FirstRun, worker
<1>4. CleanRun'
  <2> SUFFICES ASSUME Smooth PROVE CleanRun'
    BY <1>1, <1>2 DEF CleanRun, Smooth, worker
  <2>1. ~NotBegun BY <1>1, <1>2 DEF NotBegun
  <2>2. image = 1 /\ Over BY <1>2, <2>1 DEF OtaInv, CleanRun, Smooth
  <2>3. Over' BY <1>2, <2>2 DEF Over
  <2>4. run = 1 BY DEF Smooth
  <2>5. image' = 1 /\ ~Opening' /\ ~active' BY <1>1, <1>2, <2>2, <2>4
  <2> QED BY <2>3, <2>5 DEF CleanRun
<1> QED BY <1>3, <1>4

LEMMA OtaStep == ASSUME OtaInv, [Next]_vars PROVE OtaInv'
<1>1. OtaTyped' BY OtaTypedStep DEF OtaInv
<1>2. FirstRun' /\ CleanRun'
  <2>1. CASE Worker
    BY <2>1, FirstGoto, FirstFill, FirstAdvance, FirstResend, FirstEnd DEF Worker
  <2>2. CASE Receive
    <3>1. CASE power # "on" BY <2>2, <3>1, FirstAsleep
    <3>2. CASE power = "on"
      BY <2>2, <3>2, FirstBegun, FirstError, FirstData, FirstVerified, FirstNotActive
      DEF Receive
    <3> QED BY <3>1, <3>2
  <2>3. CASE UNCHANGED vars
    BY <2>3 DEF vars, worker, heard, node, OtaInv, FirstRun, CleanRun, Smooth, NotBegun,
                UnderWay, Over, Believed, Opening, Ending
  <2> QED BY <2>1, <2>2, <2>3, FirstStart, FirstGoto, FirstHandle, FirstBoot, FirstPower
      DEF Next
<1> QED BY <1>1, <1>2 DEF OtaInv

LEMMA OtaSound == ASSUME OtaInv PROVE TransferSound /\ BootConfirmed
<1>1. TypeOK BY DEF OtaInv, OtaTyped
<1>2. WindowHonest BY DEF OtaInv, FirstRun, WindowHonest
<1>3. BootConfirmed
  BY DEF OtaInv, CleanRun, Smooth, NotBegun, UnderWay, Over, Believed, BootConfirmed
<1> QED BY <1>1, <1>2, <1>3 DEF TransferSound

-----------------------------------------------------------------------------
(* Over Wi-Fi: types, and what an operation does to the cable *)

Kinds == {"ready", "stored", "store_error"}
FromNodes == {"wifi_start", "done"}
NodeMessages == [k : FromNodes, from : Wifi!Nodes]
Messages == [k : Kinds] \cup [k : {"ack"}, len : 0..Lines] \cup NodeMessages
Outgoing == [k : {"begin", "data", "end", "wifi"}, of : Wifi!Runs]
Cables == [out : Seq(Outgoing), back : Seq(Messages), up : BOOLEAN]
Places == {"on", "asked", "joining", "loading", "booting"}
Updaters == [pc : Wifi!Ended \cup {"ready", "stage", "stored", "start", "done"}, run : 0..Len(Jobs),
             sent : 0..Lines, acked : 0..Lines, asks : Nat, ready : BOOLEAN, stored : BOOLEAN,
             started : BOOLEAN, done : BOOLEAN, error : BOOLEAN]
Seats == [fw : 0..Len(Jobs), at : Places, flag : BOOLEAN, got : 0..Len(Jobs)]
Boarded == [Wifi!Nodes -> Seats]

WifiTyped ==
  /\ upd \in Updaters /\ (upd.pc # "idle" => upd.run > 0) /\ cancel \in BOOLEAN
  /\ usb \in Cables
  /\ gw \in [of : 0..Len(Jobs), len : 0..Lines, state : {"none", "filling", "ready"}]
  /\ air \in [out : Seq(Wifi!Nodes), back : Seq(NodeMessages)]
  /\ board \in Boarded /\ resets \in Nat

LEMMA WifiNumbers ==
  /\ Lines \in Nat /\ Lines > 0 /\ StoreWindow \in Nat /\ AckEvery \in Nat /\ AckEvery > 0
  /\ RxLines \in Nat /\ AckEvery <= StoreWindow /\ StoreWindow < RxLines
  /\ Resends \in Nat /\ Resets \in Nat
  /\ Jobs \in Seq(Wifi!Nodes) /\ Len(Jobs) \in Nat
  /\ \A r, s \in Wifi!Runs : Jobs[r] = Jobs[s] => r = s
<1>1. /\ {Lines, StoreWindow, AckEvery, RxLines, Resends} \subseteq Nat \ {0}
      /\ AckEvery <= StoreWindow /\ StoreWindow < RxLines /\ Resets \in Nat
      /\ Jobs \in Seq(Wifi!Nodes) /\ \A r, s \in Wifi!Runs : Jobs[r] = Jobs[s] => r = s
  BY UpdatesAssumption DEF Wifi!Parameters
<1>2. Len(Jobs) \in Nat BY <1>1
<1> QED BY <1>1, <1>2

LEMMA WifiTypes == ASSUME WifiTyped PROVE Wifi!TypeOK
<1>1. upd \in Updaters /\ board \in Boarded /\ gw.state \in {"none", "filling", "ready"}
      /\ gw.len \in 0..Lines
  BY DEF WifiTyped
<1>2. /\ upd.pc \in Wifi!Ended \cup {"ready", "stage", "stored", "start", "done"}
      /\ upd.run \in 0..Len(Jobs) /\ upd.sent \in 0..Lines /\ upd.acked \in 0..Lines
  BY <1>1 DEF Updaters
<1> QED BY <1>1, <1>2 DEF Boarded, Seats, Places, Wifi!TypeOK

LEMMA WifiTarget == ASSUME WifiTyped, upd.pc # "idle"
                    PROVE  upd.run \in Wifi!Runs /\ Jobs[upd.run] \in Wifi!Nodes
<1>1. upd.run \in 0..Len(Jobs) /\ upd.run > 0 BY DEF WifiTyped, Updaters
<1>2. upd.run \in Wifi!Runs BY <1>1, WifiNumbers DEF Wifi!Runs
<1> QED BY <1>2 DEF Wifi!Nodes

LEMMA Writes ==
  ASSUME WifiTyped, NEW line \in Outgoing, usb' = Wifi!Written(line)
  PROVE  /\ usb' \in Cables /\ usb'.back = usb.back /\ usb'.up = usb.up
         /\ usb'.out = usb.out \/ (usb.up /\ usb'.out = Append(usb.out, line))
         /\ usb.up /\ Len(usb.out) < RxLines => usb'.out = Append(usb.out, line)
<1>1. CASE usb.up /\ Len(usb.out) < RxLines
  <2>1. usb' = [usb EXCEPT !.out = Append(usb.out, line)] BY <1>1 DEF Wifi!Written
  <2>2. Append(usb.out, line) \in Seq(Outgoing) BY DEF WifiTyped, Cables
  <2> QED BY <1>1, <2>1, <2>2 DEF WifiTyped, Cables
<1>2. CASE ~(usb.up /\ Len(usb.out) < RxLines)
  BY <1>2 DEF Wifi!Written, WifiTyped
<1> QED BY <1>1, <1>2

LEMMA TakesLine ==
  ASSUME WifiTyped, usb.out # <<>>, Wifi!Takes
  PROVE  /\ usb' \in Cables /\ usb'.back = usb.back /\ usb'.up = usb.up
         /\ usb'.out = Tail(usb.out) /\ Head(usb.out) \in Outgoing
<1>1. Tail(usb.out) \in Seq(Outgoing) /\ Head(usb.out) \in Outgoing
  BY FlyingTail DEF WifiTyped, Cables
<1> QED BY <1>1 DEF WifiTyped, Cables, Wifi!Takes

LEMMA SaysLine ==
  ASSUME WifiTyped, usb.out # <<>>, NEW m \in Messages, Wifi!Says(m)
  PROVE  /\ usb' \in Cables /\ usb'.back = Append(usb.back, m) /\ usb'.up = usb.up
         /\ usb'.out = Tail(usb.out)
<1>1. Tail(usb.out) \in Seq(Outgoing) /\ Append(usb.back, m) \in Seq(Messages)
  BY FlyingTail DEF WifiTyped, Cables
<1> QED BY <1>1 DEF WifiTyped, Cables, Wifi!Says

LEMMA TakesMessage ==
  ASSUME WifiTyped, usb.back # <<>>, usb' = [usb EXCEPT !.back = Tail(@)]
  PROVE  /\ usb' \in Cables /\ usb'.out = usb.out /\ usb'.up = usb.up
         /\ usb'.back = Tail(usb.back) /\ Head(usb.back) \in Messages
<1>1. Tail(usb.back) \in Seq(Messages) /\ Head(usb.back) \in Messages
  BY FlyingTail DEF WifiTyped, Cables
<1> QED BY <1>1 DEF WifiTyped, Cables

\* The thread moves on.
LEMMA Gone ==
  ASSUME WifiTyped, upd.pc # "idle",
         NEW p \in {"failed", "ok", "ready", "stage", "stored", "start", "done"}, Wifi!Goto(p)
  PROVE  /\ upd' \in Updaters /\ upd'.pc = p /\ UNCHANGED usb
         /\ upd'.run = upd.run /\ upd'.sent = upd.sent /\ upd'.acked = upd.acked
         /\ upd'.ready = upd.ready /\ upd'.stored = upd.stored /\ upd'.done = upd.done
         /\ upd'.error = upd.error
BY DEF Wifi!Goto, WifiTyped, Updaters, Wifi!Ended

-----------------------------------------------------------------------------
(* Over Wi-Fi: queues of one kind, and of one kind up to a last element *)

All(q, kind) == \A m \in Flying(q) : m.k = kind
UpToLast(q, kind, last) ==
  /\ Len(q) > 0 /\ q[Len(q)].k = last /\ \A i \in 1..Len(q) - 1 : q[i].k = kind

\* Besides what nodes say, replies of the kinds in E, of one kind once and those
\* of E before it, or acknowledgements up to h.
Only(q, E) == \A m \in Flying(q) : m.k \in FromNodes \cup E
Once(q, kind, E) == \E i \in 1..Len(q) :
  /\ q[i].k = kind /\ \A j \in 1..Len(q) : /\ j < i => q[j].k \in FromNodes \cup E
                                           /\ j > i => q[j].k \in FromNodes
Newest(q, last, h) ==
  \/ last = h /\ Only(q, {})
  \/ \E i \in 1..Len(q) : /\ q[i].k = "ack" /\ q[i].len = h
                          /\ \A j \in 1..Len(q) : j > i => q[j].k \in FromNodes

LEMMA SeqAppend ==
  ASSUME NEW S, NEW q \in Seq(S), NEW m \in S
  PROVE  /\ Len(q) \in Nat /\ Append(q, m) \in Seq(S) /\ Len(Append(q, m)) = Len(q) + 1
         /\ Append(q, m)[Len(q) + 1] = m /\ \A i \in 1..Len(q) : Append(q, m)[i] = q[i]
         /\ Flying(Append(q, m)) = Flying(q) \cup {m}
<1>1. /\ Len(q) \in Nat /\ Append(q, m) \in Seq(S) /\ Len(Append(q, m)) = Len(q) + 1
      /\ Append(q, m)[Len(q) + 1] = m /\ \A i \in 1..Len(q) : Append(q, m)[i] = q[i]
  OBVIOUS
<1>2. 1..Len(q) + 1 = (1..Len(q)) \cup {Len(q) + 1} BY <1>1
<1>3. Flying(Append(q, m)) \subseteq Flying(q) \cup {m} BY <1>1, <1>2 DEF Flying
<1>4. Flying(q) \cup {m} \subseteq Flying(Append(q, m)) BY <1>1, <1>2 DEF Flying
<1> QED BY <1>1, <1>3, <1>4

LEMMA SeqTail ==
  ASSUME NEW S, NEW q \in Seq(S), q # <<>>
  PROVE  /\ Len(q) \in Nat \ {0} /\ Tail(q) \in Seq(S) /\ Len(Tail(q)) = Len(q) - 1
         /\ Head(q) = q[1] /\ \A i \in 1..Len(q) - 1 : Tail(q)[i] = q[i + 1]
         /\ Head(q) \in Flying(q) /\ Flying(Tail(q)) \subseteq Flying(q)
<1>1. /\ Len(q) \in Nat \ {0} /\ Tail(q) \in Seq(S) /\ Len(Tail(q)) = Len(q) - 1
      /\ Head(q) = q[1] /\ \A i \in 1..Len(q) - 1 : Tail(q)[i] = q[i + 1]
  OBVIOUS
<1> QED BY <1>1, FlyingTail

LEMMA LastAppended ==
  ASSUME NEW S, NEW q \in Seq(S), NEW m \in S, NEW kind, All(q, kind)
  PROVE  UpToLast(Append(q, m), kind, m.k) /\ Append(q, m)[Len(Append(q, m))] = m
<1>1. \A i \in 1..Len(q) : q[i].k = kind BY DEF All, Flying
<1>2. Len(Append(q, m)) - 1 = Len(q) BY SeqAppend
<1> QED BY <1>1, <1>2, SeqAppend DEF UpToLast

LEMMA Emptied == ASSUME NEW S, NEW q \in Seq(S), Len(q) = 0 PROVE q = <<>>
OBVIOUS

LEMMA LastTail ==
  ASSUME NEW S, NEW q \in Seq(S), NEW kind, NEW last, UpToLast(q, kind, last)
  PROVE  /\ q # <<>> /\ Len(Tail(q)) = Len(q) - 1
         /\ \/ Len(q) = 1 /\ Head(q).k = last /\ Tail(q) = <<>> /\ Head(q) = q[Len(q)]
            \/ /\ Head(q).k = kind /\ UpToLast(Tail(q), kind, last)
               /\ Tail(q)[Len(Tail(q))] = q[Len(q)]
<1>1. q # <<>> BY DEF UpToLast
<1>2. CASE Len(q) = 1
  <2>1. Len(Tail(q)) = 0 /\ Tail(q) \in Seq(S) BY <1>1, <1>2, SeqTail
  <2>2. Tail(q) = <<>> BY <2>1, Emptied
  <2> QED BY <1>1, <1>2, <2>2, SeqTail DEF UpToLast
<1>3. CASE Len(q) # 1
  <2>1. Len(q) > 1 /\ Len(q) \in Nat
    <3>1. Len(q) \in Nat \ {0} BY <1>1, SeqTail
    <3>2. \A n \in Nat \ {0} : n # 1 => n > 1 /\ n \in Nat OBVIOUS
    <3> QED BY <1>3, <3>1, <3>2
  <2>2. Tail(q)[Len(Tail(q))] = q[Len(q)]
    <3>1. Len(Tail(q)) = Len(q) - 1 /\ Len(q) - 1 \in 1..Len(q) - 1 /\ (Len(q) - 1) + 1 = Len(q)
      BY <1>1, <2>1, SeqTail
    <3> QED BY <1>1, <3>1, SeqTail
  <2>3. Head(q).k = kind BY <1>1, <2>1, SeqTail DEF UpToLast
  <2>4. ASSUME NEW i \in 1..Len(Tail(q)) - 1 PROVE Tail(q)[i].k = kind
    <3>1. i \in 1..Len(q) - 1 /\ i + 1 \in 1..Len(q) - 1 BY <1>1, <2>1, SeqTail
    <3>2. Tail(q)[i] = q[i + 1] BY <1>1, <3>1, SeqTail
    <3> QED BY <3>1, <3>2 DEF UpToLast
  <2> QED BY <1>1, <2>1, <2>2, <2>3, <2>4, SeqTail DEF UpToLast
<1> QED BY <1>2, <1>3

LEMMA OnceAppended ==
  ASSUME NEW S, NEW q \in Seq(S), NEW m \in S, NEW kind, NEW E, m.k \in FromNodes,
         Once(q, kind, E)
  PROVE  Once(Append(q, m), kind, E)
<1>1. PICK i \in 1..Len(q) :
        /\ q[i].k = kind /\ \A j \in 1..Len(q) : /\ j < i => q[j].k \in FromNodes \cup E
                                                 /\ j > i => q[j].k \in FromNodes
  BY DEF Once
<1>2. 1..Len(Append(q, m)) = (1..Len(q)) \cup {Len(q) + 1} BY SeqAppend
<1>3. \A j \in 1..Len(Append(q, m)) :
        /\ j < i => Append(q, m)[j].k \in FromNodes \cup E
        /\ j > i => Append(q, m)[j].k \in FromNodes
  BY <1>1, <1>2, SeqAppend
<1>4. Append(q, m)[i].k = kind /\ i \in 1..Len(Append(q, m)) BY <1>1, <1>2, SeqAppend
<1> QED BY <1>3, <1>4 DEF Once

LEMMA OnceMade ==
  ASSUME NEW S, NEW q \in Seq(S), NEW m \in S, NEW E, Only(q, E)
  PROVE  Once(Append(q, m), m.k, E)
<1>1. \A j \in 1..Len(q) : q[j].k \in FromNodes \cup E BY DEF Only, Flying
<1> DEFINE i == Len(q) + 1
<1>2. i \in 1..Len(Append(q, m)) /\ Append(q, m)[i] = m BY SeqAppend
<1>3. \A j \in 1..Len(Append(q, m)) : j <= i /\ (j < i => j \in 1..Len(q)) BY SeqAppend
<1>4. \A j \in 1..Len(Append(q, m)) :
        /\ j < i => Append(q, m)[j].k \in FromNodes \cup E
        /\ j > i => Append(q, m)[j].k \in FromNodes
  BY <1>1, <1>3, SeqAppend
<1> QED BY <1>2, <1>4 DEF Once

LEMMA OnceTail ==
  ASSUME NEW S, NEW q \in Seq(S), NEW kind, NEW E, Once(q, kind, E)
  PROVE  /\ q # <<>>
         /\ \/ Head(q).k = kind /\ Only(Tail(q), {})
            \/ Head(q).k \in FromNodes \cup E /\ Once(Tail(q), kind, E)
<1>1. PICK i \in 1..Len(q) :
        /\ q[i].k = kind /\ \A j \in 1..Len(q) : /\ j < i => q[j].k \in FromNodes \cup E
                                                 /\ j > i => q[j].k \in FromNodes
  BY DEF Once
<1>2. q # <<>> BY <1>1
<1>3. \A j \in 1..Len(Tail(q)) : j + 1 \in 1..Len(q) /\ Tail(q)[j] = q[j + 1] BY <1>2, SeqTail
<1>4. CASE i = 1
  <2>1. \A j \in 1..Len(Tail(q)) : Tail(q)[j].k \in FromNodes BY <1>1, <1>3, <1>4
  <2>2. Only(Tail(q), {}) BY <2>1 DEF Only, Flying
  <2> QED BY <1>1, <1>2, <1>4, <2>2, SeqTail
<1>5. CASE i # 1
  <2>1. i - 1 \in 1..Len(Tail(q)) /\ (i - 1) + 1 = i BY <1>2, <1>5, SeqTail
  <2>2. Tail(q)[i - 1] = q[i] BY <1>3, <2>1
  <2>3. \A j \in 1..Len(Tail(q)) : /\ j < i - 1 => Tail(q)[j].k \in FromNodes \cup E
                                   /\ j > i - 1 => Tail(q)[j].k \in FromNodes
    BY <1>1, <1>3
  <2>4. Head(q).k \in FromNodes \cup E BY <1>1, <1>2, <1>5, SeqTail
  <2> QED BY <1>1, <1>2, <2>1, <2>2, <2>3, <2>4 DEF Once
<1> QED BY <1>4, <1>5

LEMMA NewestAppended ==
  ASSUME NEW S, NEW q \in Seq(S), NEW m \in S, NEW last, NEW h, m.k \in FromNodes,
         Newest(q, last, h)
  PROVE  Newest(Append(q, m), last, h)
<1>1. CASE last = h /\ Only(q, {})
  <2>1. Only(Append(q, m), {}) BY <1>1, SeqAppend DEF Only
  <2> QED BY <1>1, <2>1 DEF Newest
<1>2. CASE ~(last = h /\ Only(q, {}))
  <2>1. PICK i \in 1..Len(q) : /\ q[i].k = "ack" /\ q[i].len = h
                               /\ \A j \in 1..Len(q) : j > i => q[j].k \in FromNodes
    BY <1>2 DEF Newest
  <2>2. 1..Len(Append(q, m)) = (1..Len(q)) \cup {Len(q) + 1} BY SeqAppend
  <2>3. \A j \in 1..Len(Append(q, m)) : j > i => Append(q, m)[j].k \in FromNodes
    BY <2>1, <2>2, SeqAppend
  <2>4. Append(q, m)[i] = q[i] /\ i \in 1..Len(Append(q, m)) BY <2>1, <2>2, SeqAppend
  <2> QED BY <2>1, <2>3, <2>4 DEF Newest
<1> QED BY <1>1, <1>2

LEMMA NewestMade ==
  ASSUME NEW S, NEW q \in Seq(S), NEW m \in S, NEW last, m.k = "ack"
  PROVE  Newest(Append(q, m), last, m.len)
<1> DEFINE i == Len(q) + 1
<1>1. i \in 1..Len(Append(q, m)) /\ Append(q, m)[i] = m BY SeqAppend
<1>2. \A j \in 1..Len(Append(q, m)) : ~(j > i) BY SeqAppend
<1> QED BY <1>1, <1>2 DEF Newest

LEMMA NewestTail ==
  ASSUME NEW S, NEW q \in Seq(S), q # <<>>, NEW last, NEW h, Newest(q, last, h)
  PROVE  Newest(Tail(q), IF Head(q).k = "ack" THEN Head(q).len ELSE last, h)
<1>3. \A j \in 1..Len(Tail(q)) : j + 1 \in 1..Len(q) /\ Tail(q)[j] = q[j + 1] BY SeqTail
<1>1. CASE last = h /\ Only(q, {})
  <2>1. Only(Tail(q), {}) /\ Head(q).k # "ack" BY <1>1, SeqTail DEF Only, FromNodes
  <2> QED BY <1>1, <2>1 DEF Newest
<1>2. CASE ~(last = h /\ Only(q, {}))
  <2>1. PICK i \in 1..Len(q) : /\ q[i].k = "ack" /\ q[i].len = h
                               /\ \A j \in 1..Len(q) : j > i => q[j].k \in FromNodes
    BY <1>2 DEF Newest
  <2>2. CASE i = 1
    <3>1. \A j \in 1..Len(Tail(q)) : Tail(q)[j].k \in FromNodes BY <1>3, <2>1, <2>2
    <3>2. Only(Tail(q), {}) BY <3>1 DEF Only, Flying
    <3> QED BY <2>1, <2>2, <3>2, SeqTail DEF Newest
  <2>3. CASE i # 1
    <3>1. i - 1 \in 1..Len(Tail(q)) /\ (i - 1) + 1 = i BY <2>3, SeqTail
    <3>2. Tail(q)[i - 1] = q[i] BY <1>3, <3>1
    <3>3. \A j \in 1..Len(Tail(q)) : j > i - 1 => Tail(q)[j].k \in FromNodes BY <1>3, <2>1
    <3> QED BY <2>1, <3>1, <3>2, <3>3 DEF Newest
  <2> QED BY <2>2, <2>3
<1> QED BY <1>1, <1>2

\* The multiples of k: a remainder is reached before it is passed.
LEMMA Multiples == ASSUME NEW k \in Nat, k > 0, NEW h \in Nat, h % k = 0 PROVE (h + k) % k = 0
<1> DEFINE q == h \div k
           p == (h + k) \div k
           r == (h + k) % k
<1>1. h = k * q + (h % k) /\ q \in Int BY SMTT(20)
<1>2. h + k = k * p + r /\ r \in 0..k - 1 /\ p \in Int BY SMTT(20)
<1> HIDE DEF q, p, r
<1>3. r = k * q + k - k * p BY <1>1, <1>2
<1> DEFINE d == q + 1 - p
<1>4. r = k * d /\ d \in Int BY <1>1, <1>2, <1>3
<1> HIDE DEF d
<1>5. CASE d >= 1 BY <1>2, <1>4, <1>5
<1>6. CASE d <= -1 BY <1>2, <1>4, <1>6
<1>7. CASE d = 0 BY <1>4, <1>7 DEF r
<1> QED BY <1>4, <1>5, <1>6, <1>7

-----------------------------------------------------------------------------
(* Over Wi-Fi: the stream of a run *)

\* Where a run and its stream stand, while the cable is plugged.  A run that
\* has settled has nothing of its own on the cable; one that was cancelled may
\* have, but no other follows it.
Late == {"start", "done", "ok"}
Settled ==
  /\ upd.pc \notin {"stage", "stored"} /\ ~(upd.pc = "ready" /\ upd.ready)
  /\ All(usb.out, "wifi") /\ Only(usb.back, {})
  /\ upd.pc \in Late /\ gw.state = "ready" => gw.of = upd.run

Opens == UpToLast(usb.out, "wifi", "begin")
AtReady == upd.pc = "ready" /\ upd.sent = 0 /\ upd.acked = 0
Opened ==
  /\ AtReady /\ ~upd.ready /\ ~upd.error
  /\ Opens /\ usb.out[Len(usb.out)].of = upd.run /\ Only(usb.back, {})
Begun ==
  /\ AtReady /\ ~upd.error /\ usb.out = <<>>
  /\ gw.of = upd.run /\ gw.len = 0 /\ gw.state = "filling"
  /\ IF upd.ready THEN Only(usb.back, {}) ELSE Once(usb.back, "ready", {})
Refused ==
  /\ AtReady /\ ~upd.ready /\ usb.out = <<>>
  /\ IF upd.error THEN Only(usb.back, {}) ELSE Once(usb.back, "store_error", {})

\* The lines held and those on the cable are n.
Datas(n) == gw.state = "filling" /\ All(usb.out, "data") /\ Len(usb.out) + gw.len = n
Closes(n) == /\ gw.state = "filling" /\ UpToLast(usb.out, "data", "end")
             /\ Len(usb.out) - 1 + gw.len = n
Acked == /\ Only(usb.back, {"ack"}) /\ upd.acked <= gw.len
         /\ \A m \in Flying(usb.back) : m.k = "ack" => m.len <= gw.len
         /\ \E h \in 0..gw.len : /\ h % AckEvery = 0 /\ gw.len < h + AckEvery
                                 /\ Newest(usb.back, upd.acked, h)
Filling ==
  upd.pc = "stage" /\ ~upd.error /\ gw.of = upd.run /\ Datas(upd.sent) /\ Acked
Closing ==
  /\ upd.pc = "stored" /\ ~upd.stored /\ ~upd.error /\ gw.of = upd.run
  /\ Only(usb.back, {"ack"}) /\ (Datas(Lines) \/ Closes(Lines))
Stored ==
  /\ upd.pc = "stored" /\ ~upd.error /\ usb.out = <<>>
  /\ gw.of = upd.run /\ gw.state = "ready"
  /\ IF upd.stored THEN Only(usb.back, {}) ELSE Once(usb.back, "stored", {"ack"})
Cancelled ==
  /\ upd.pc = "failed" /\ cancel
  /\ All(usb.out, "wifi") \/ Opens \/ \E n \in 0..Lines : Datas(n) \/ Closes(n)

Unplugged == usb.out = <<>> /\ usb.back = <<>> /\ gw = Wifi!NoStore
Whole0 == gw.state = "ready" => gw.len = Lines
Stream == IF usb.up THEN \/ Settled \/ Opened \/ Begun \/ Refused
                         \/ Filling \/ Closing \/ Stored \/ Cancelled
          ELSE Unplugged

LEMMA StreamStarts == Wifi!Init => WifiTyped /\ Stream /\ Whole0
<1> SUFFICES ASSUME Wifi!Init PROVE WifiTyped /\ Stream /\ Whole0 OBVIOUS
<1>1. /\ usb.out = <<>> /\ usb.back = <<>> /\ usb.up /\ upd.pc = "idle" /\ gw.state = "none"
  BY DEF Wifi!Init, Wifi!Fresh, Wifi!NoStore
<1>2. Flying(<<>>) = {} BY DEF Flying
<1>3. Settled BY <1>1, <1>2 DEF Settled, All, Only, Late
<1>4. upd \in Updaters
  <2>1. upd = [pc |-> "idle", run |-> 0, sent |-> 0, acked |-> 0, asks |-> 0, ready |-> FALSE,
               stored |-> FALSE, started |-> FALSE, done |-> FALSE, error |-> FALSE]
    BY DEF Wifi!Init, Wifi!Fresh
  <2>2. 0 \in 0..Lines /\ 0 \in 0..Len(Jobs) BY WifiNumbers
  <2> QED BY <2>1, <2>2 DEF Updaters, Wifi!Ended
<1>5. usb \in Cables /\ air \in [out : Seq(Wifi!Nodes), back : Seq(NodeMessages)]
  BY DEF Wifi!Init, Cables
<1>6. board \in Boarded /\ resets \in Nat /\ cancel \in BOOLEAN
  <2>1. 0 \in 0..Len(Jobs) BY WifiNumbers
  <2>2. board \in Boarded BY <2>1 DEF Wifi!Init, Boarded, Seats, Places
  <2> QED BY <2>2 DEF Wifi!Init
<1>7. gw \in [of : 0..Len(Jobs), len : 0..Lines, state : {"none", "filling", "ready"}]
  BY WifiNumbers DEF Wifi!Init, Wifi!NoStore
<1> QED BY <1>1, <1>3, <1>4, <1>5, <1>6, <1>7 DEF WifiTyped, Stream, Whole0

LEMMA Began ==
  ASSUME WifiTyped, Wifi!StartJob
  PROVE  /\ upd' \in Updaters /\ upd'.run = upd.run + 1 /\ upd'.run \in Wifi!Runs
         /\ upd'.pc = (IF usb.up THEN "ready" ELSE "failed") /\ upd'.sent = 0 /\ upd'.acked = 0
         /\ ~upd'.ready /\ ~upd'.error /\ ~upd'.stored /\ ~upd'.done
         /\ ~cancel /\ upd.pc \in Wifi!Ended
         /\ LET line == [k |-> "begin", of |-> upd.run + 1]
            IN  line \in Outgoing /\ usb' = Wifi!Written(line)
<1>1. upd.run \in 0..Len(Jobs) /\ upd.run < Len(Jobs) BY DEF WifiTyped, Updaters, Wifi!StartJob
<1>2. upd.run + 1 \in Wifi!Runs /\ upd.run + 1 \in 0..Len(Jobs)
  BY <1>1, WifiNumbers DEF Wifi!Runs
<1>3. Wifi!Fresh(upd.run + 1) \in Updaters
  BY <1>2, WifiNumbers DEF Updaters, Wifi!Fresh, Wifi!Ended
<1>4. upd' = [Wifi!Fresh(upd.run + 1) EXCEPT !.pc = IF usb.up THEN "ready" ELSE "failed"]
  BY DEF Wifi!StartJob
<1> DEFINE p == IF usb.up THEN "ready" ELSE "failed"
           x == upd.run + 1
<1>5. p \in {"ready", "failed"} OBVIOUS
<1>6. upd' = [pc |-> p, run |-> x, sent |-> 0, acked |-> 0, asks |-> 0, ready |-> FALSE,
              stored |-> FALSE, started |-> FALSE, done |-> FALSE, error |-> FALSE]
  BY <1>4 DEF Wifi!Fresh
<1> HIDE DEF p, x
<1>7. upd' \in Updaters
  <2>1. x \in 0..Len(Jobs) BY <1>2 DEF x
  <2> QED BY <1>5, <1>6, <2>1, WifiNumbers DEF Updaters, Wifi!Ended
<1>8. [k |-> "begin", of |-> upd.run + 1] \in Outgoing BY <1>2 DEF Outgoing
<1> QED BY <1>2, <1>6, <1>7, <1>8 DEF Wifi!StartJob, p, x

LEMMA WorkerTyped ==
  ASSUME WifiTyped, Wifi!Worker
  PROVE  WifiTyped'
<1> SUFFICES upd' \in Updaters /\ (upd'.pc # "idle" => upd'.run > 0) /\ usb' \in Cables
  BY DEF WifiTyped, Wifi!Worker
<1>0. usb \in Cables /\ upd \in Updaters /\ (upd.pc # "idle" => upd.run > 0) BY DEF WifiTyped
<1>1. CASE Wifi!StartJob
  <2>1. usb' \in Cables BY <1>1, Began, Writes
  <2>2. upd'.run > 0
    <3>1. upd'.run \in Wifi!Runs BY <1>1, Began
    <3> QED BY <3>1, WifiNumbers DEF Wifi!Runs
  <2> QED BY <1>1, <2>1, <2>2, Began
<1>2. ASSUME NEW p \in {"failed", "ok", "stage", "start", "done"}, Wifi!Goto(p), upd.pc # "idle"
      PROVE  upd' \in Updaters /\ upd'.run > 0 /\ usb' \in Cables
  BY <1>0, <1>2, Gone
<1>3. CASE Wifi!GiveUp \/ Wifi!AwaitReady \/ Wifi!AwaitStored \/ Wifi!AwaitStart
           \/ Wifi!AwaitDone \/ Wifi!TimeOut
  BY <1>2, <1>3 DEF Wifi!GiveUp, Wifi!AwaitReady, Wifi!AwaitStored, Wifi!AwaitStart,
                    Wifi!AwaitDone, Wifi!TimeOut, Wifi!Running, Wifi!Ended
<1>4. ASSUME upd.pc # "idle", NEW kind \in {"data", "end", "wifi"}
      PROVE  Wifi!Line(kind) \in Outgoing
  BY <1>4, WifiTarget DEF Outgoing, Wifi!Line
<1>5. CASE Wifi!StageLine
  <2>1. upd.pc = "stage" /\ upd.sent < Lines BY <1>5 DEF Wifi!StageLine
  <2>2. usb' \in Cables
    <3>1. usb' = Wifi!Written(Wifi!Line("data")) \/ usb' = usb BY <1>5 DEF Wifi!StageLine
    <3>2. Wifi!Line("data") \in Outgoing BY <1>4, <2>1
    <3> QED BY <1>0, <3>1, <3>2, Writes
  <2>3. upd.sent + 1 \in 0..Lines BY <1>0, <2>1, WifiNumbers DEF Updaters
  <2>4. upd' = [upd EXCEPT !.sent = upd.sent + 1] \/ upd' = [upd EXCEPT !.error = TRUE]
    BY <1>5 DEF Wifi!StageLine
  <2> QED BY <1>0, <2>1, <2>2, <2>3, <2>4 DEF Updaters
<1>6. CASE Wifi!StageEnd
  <2>1. upd.pc = "stage" /\ usb' = Wifi!Written(Wifi!Line("end"))
        /\ upd' = [upd EXCEPT !.pc = "stored", !.stored = FALSE]
    BY <1>6 DEF Wifi!StageEnd
  <2>2. usb' \in Cables BY <1>4, <2>1, Writes
  <2> QED BY <1>0, <2>1, <2>2 DEF Updaters
<1>7. CASE Wifi!Ask
  <2>1. upd.pc = "start" /\ usb' = Wifi!Written(Wifi!Line("wifi"))
        /\ upd' = [upd EXCEPT !.asks = upd.asks + 1]
    BY <1>7 DEF Wifi!Ask
  <2>2. usb' \in Cables BY <1>4, <2>1, Writes
  <2> QED BY <1>0, <2>1, <2>2 DEF Updaters
<1> QED BY <1>1, <1>3, <1>5, <1>6, <1>7 DEF Wifi!Worker

\* Nothing is in an empty queue.
LEMMA InEmpty ==
  /\ Flying(<<>>) = {}
  /\ \A kind : All(<<>>, kind) /\ \A last : ~UpToLast(<<>>, kind, last)
  /\ \A E : Only(<<>>, E) /\ \A kind : ~Once(<<>>, kind, E)
  /\ \A last, h : Newest(<<>>, last, h) => last = h
<1>1. Flying(<<>>) = {} BY DEF Flying
<1> QED BY <1>1 DEF All, UpToLast, Only, Once, Newest

LEMMA StreamJob ==
  ASSUME WifiTyped, Stream, usb.up, Wifi!StartJob, UNCHANGED <<cancel, gw>>
  PROVE  Stream'
<1>1. Settled
  BY Began DEF Stream, Opened, Begun, Refused, Filling, Closing, Stored, Cancelled, AtReady,
               Wifi!Ended
<1> DEFINE line == [k |-> "begin", of |-> upd.run + 1]
<1>2. /\ upd'.run = upd.run + 1 /\ upd'.pc = "ready" /\ upd'.sent = 0 /\ upd'.acked = 0
      /\ ~upd'.ready /\ ~upd'.error /\ line \in Outgoing /\ usb' = Wifi!Written(line)
  BY Began
<1>3. /\ usb'.back = usb.back /\ usb'.up
      /\ usb'.out = usb.out \/ usb'.out = Append(usb.out, line)
  BY <1>2, Writes
<1>4. CASE usb'.out = usb.out
  <2>1. Settled' BY <1>1, <1>2, <1>3, <1>4 DEF Settled, Late
  <2> QED BY <1>3, <2>1 DEF Stream
<1>5. CASE usb'.out = Append(usb.out, line)
  <2>1. All(usb.out, "wifi") /\ usb.out \in Seq(Outgoing)
    BY <1>1 DEF Settled, WifiTyped, Cables
  <2>2. UpToLast(Append(usb.out, line), "wifi", line.k)
        /\ Append(usb.out, line)[Len(Append(usb.out, line))] = line
    BY <2>1, <1>2, LastAppended
  <2>a. line.k = "begin" /\ line.of = upd'.run BY <1>2
  <2>b. UpToLast(usb'.out, "wifi", "begin") BY <1>5, <2>2, <2>a
  <2>c. usb'.out[Len(usb'.out)] = line BY <1>5, <2>2
  <2>3. Opens' /\ usb'.out[Len(usb'.out)].of = upd'.run BY <2>a, <2>b, <2>c DEF Opens
  <2>4. Opened' BY <1>1, <1>2, <1>3, <2>3 DEF Opened, AtReady, Settled
  <2> QED BY <1>3, <2>4 DEF Stream
<1> QED BY <1>3, <1>4, <1>5

LEMMA StreamGivenUp ==
  ASSUME WifiTyped, Stream, usb.up, Wifi!GiveUp, UNCHANGED <<cancel, gw>>
  PROVE  Stream'
<1>1. upd.pc \notin Wifi!Ended /\ (cancel \/ upd.error) /\ Wifi!Goto("failed")
  BY DEF Wifi!GiveUp, Wifi!Running
<1>2. /\ upd'.pc = "failed" /\ usb' = usb /\ upd'.run = upd.run /\ cancel' = cancel /\ gw' = gw
      /\ upd.sent \in 0..Lines
  BY <1>1, Gone DEF Wifi!Ended, WifiTyped, Updaters
<1>3. ASSUME All(usb.out, "wifi"), Only(usb.back, {}) PROVE Stream'
  BY <1>2, <1>3 DEF Stream, Settled, Late
<1>4. ASSUME cancel, All(usb.out, "wifi") \/ Opens \/ \E n \in 0..Lines : Datas(n) \/ Closes(n)
      PROVE  Stream'
  <2>1. (All(usb.out, "wifi") \/ Opens \/ \E n \in 0..Lines : Datas(n) \/ Closes(n))'
    BY <1>2, <1>4 DEF Opens, Datas, Closes
  <2> QED BY <1>2, <1>4, <2>1 DEF Stream, Cancelled
<1>5. CASE Settled BY <1>3, <1>5 DEF Settled
<1>6. CASE Opened BY <1>1, <1>4, <1>6 DEF Opened
<1>7. CASE Begun \/ Refused \/ Stored
  <2>1. usb.out = <<>> BY <1>7 DEF Begun, Refused, Stored
  <2>2. All(usb.out, "wifi") BY <2>1, InEmpty
  <2>3. upd.error => Only(usb.back, {}) BY <1>7 DEF Begun, Refused, Stored
  <2> QED BY <1>1, <1>3, <1>4, <2>2, <2>3
<1>8. CASE Filling BY <1>1, <1>2, <1>4, <1>8 DEF Filling
<1>9. CASE Closing
  <2>1. Lines \in 0..Lines BY WifiNumbers
  <2> QED BY <1>1, <1>4, <1>9, <2>1 DEF Closing
<1> QED BY <1>1, <1>5, <1>6, <1>7, <1>8, <1>9 DEF Stream, Cancelled, Wifi!Ended

LEMMA StreamReady ==
  ASSUME WifiTyped, Stream, usb.up, Wifi!AwaitReady, UNCHANGED <<cancel, gw>>
  PROVE  Stream'
<1>1. upd.pc = "ready" /\ upd.ready /\ Wifi!Goto("stage") BY DEF Wifi!AwaitReady
<1>2. Begun
  BY <1>1 DEF Stream, Settled, Opened, Refused, Filling, Closing, Stored, Cancelled, AtReady
<1>3. /\ upd'.pc = "stage" /\ usb' = usb /\ upd'.run = upd.run /\ gw' = gw
      /\ upd'.sent = 0 /\ upd'.acked = 0 /\ ~upd'.error
  BY <1>1, <1>2, Gone DEF Begun, AtReady
<1>4. usb.out = <<>> /\ gw.len = 0 /\ gw.state = "filling" /\ gw.of = upd.run
      /\ Only(usb.back, {})
  BY <1>1, <1>2 DEF Begun
<1>5. Datas(0)' BY <1>3, <1>4, InEmpty DEF Datas
<1>6. 0 % AckEvery = 0 /\ 0 < 0 + AckEvery /\ 0 \in 0..0 BY WifiNumbers, SMTT(20)
<1>7. Acked'
  <2>1. Only(usb.back, {"ack"}) /\ \A m \in Flying(usb.back) : m.k # "ack"
    BY <1>4 DEF Only, FromNodes
  <2>2. Newest(usb.back, 0, 0) BY <1>4 DEF Newest
  <2> QED BY <1>3, <1>4, <1>6, <2>1, <2>2 DEF Acked
<1>8. Filling' BY <1>3, <1>4, <1>5, <1>7 DEF Filling
<1> QED BY <1>3, <1>8 DEF Stream

\* While lines are staged, the window leaves room for one more.
LEMMA Room ==
  ASSUME WifiTyped, Filling
  PROVE  /\ Len(usb.out) \in Nat /\ gw.len \in Nat /\ upd.sent \in Nat /\ upd.acked \in Nat
         /\ Len(usb.out) + gw.len = upd.sent /\ upd.acked <= gw.len
<1>1. usb.out \in Seq(Outgoing) /\ gw.len \in 0..Lines /\ upd.sent \in 0..Lines
      /\ upd.acked \in 0..Lines
  BY DEF WifiTyped, Cables, Updaters
<1>2. Len(usb.out) \in Nat BY <1>1
<1> QED BY <1>1, <1>2, WifiNumbers DEF Filling, Datas, Acked

LEMMA StreamStages ==
  ASSUME WifiTyped, Stream, usb.up, Wifi!StageLine, UNCHANGED <<cancel, gw>>
  PROVE  Stream'
<1>a. upd.pc = "stage" BY DEF Wifi!StageLine
<1>1. /\ upd.pc = "stage" /\ upd.sent - upd.acked <= StoreWindow
      /\ upd' = [upd EXCEPT !.sent = upd.sent + 1] /\ usb' = Wifi!Written(Wifi!Line("data"))
  BY DEF Wifi!StageLine
<1>2. Filling
  <2>1. ~Settled /\ ~Opened /\ ~Begun /\ ~Refused
    BY <1>a DEF Settled, Opened, Begun, Refused, AtReady
  <2>2. ~Closing /\ ~Stored /\ ~Cancelled BY <1>a DEF Closing, Stored, Cancelled
  <2> QED BY <2>1, <2>2 DEF Stream
<1>3. Len(usb.out) < RxLines
  <2>1. \A q, l, s, a, x, y \in Nat : q + l = s /\ a <= l /\ s - a <= x /\ x < y => q < y
    OBVIOUS
  <2> QED BY <1>1, <1>2, <2>1, Room, WifiNumbers
<1>4. Wifi!Line("data") \in Outgoing /\ Wifi!Line("data").k = "data"
  BY <1>1, WifiTarget DEF Outgoing, Wifi!Line
<1>5. usb'.back = usb.back /\ usb'.up /\ usb'.out = Append(usb.out, Wifi!Line("data"))
  BY <1>1, <1>3, <1>4, Writes
<1>6. usb.out \in Seq(Outgoing) BY DEF WifiTyped, Cables
<1>7. Len(usb'.out) = Len(usb.out) + 1
      /\ Flying(usb'.out) = Flying(usb.out) \cup {Wifi!Line("data")}
  BY <1>4, <1>5, <1>6, SeqAppend
<1>8. /\ upd'.pc = upd.pc /\ upd'.error = upd.error /\ upd'.run = upd.run
      /\ upd'.sent = upd.sent + 1 /\ upd'.acked = upd.acked
  BY <1>1 DEF WifiTyped, Updaters
<1>9. Len(usb'.out) + gw.len = upd'.sent BY <1>2, <1>7, <1>8, Room
<1>10. All(usb'.out, "data") BY <1>2, <1>4, <1>7 DEF Filling, Datas, All
<1>11. Datas(upd.sent)' BY <1>2, <1>9, <1>10 DEF Filling, Datas
<1>12. Acked' BY <1>2, <1>5, <1>8 DEF Filling, Acked
<1>13. Filling' BY <1>2, <1>5, <1>8, <1>11, <1>12 DEF Filling
<1> QED BY <1>5, <1>13 DEF Stream

LEMMA StreamCloses ==
  ASSUME WifiTyped, Stream, usb.up, Wifi!StageEnd, UNCHANGED <<cancel, gw>>
  PROVE  Stream'
<1> DEFINE line == Wifi!Line("end")
<1>1. /\ upd.pc = "stage" /\ upd.sent = Lines /\ usb' = Wifi!Written(line)
      /\ upd' = [upd EXCEPT !.pc = "stored", !.stored = FALSE]
  BY DEF Wifi!StageEnd
<1>2. Filling
  BY <1>1 DEF Stream, Settled, Opened, Begun, Refused, Closing, Stored, Cancelled, AtReady
<1>3. line \in Outgoing /\ line.k = "end" BY <1>1, WifiTarget DEF Outgoing, Wifi!Line
<1> HIDE DEF line
<1>4. usb'.back = usb.back /\ usb'.up /\ usb'.out \in {usb.out, Append(usb.out, line)}
  BY <1>1, <1>3, Writes
<1>5. upd'.pc = "stored" /\ ~upd'.stored /\ upd'.error = upd.error /\ upd'.run = upd.run
  BY <1>1 DEF WifiTyped, Updaters
<1>6. (Datas(Lines) \/ Closes(Lines))'
  <2>1. Datas(Lines) BY <1>1, <1>2 DEF Filling
  <2>2. CASE usb'.out = usb.out BY <2>1, <2>2 DEF Datas
  <2>3. CASE usb'.out = Append(usb.out, line)
    <3>1. usb.out \in Seq(Outgoing) BY DEF WifiTyped, Cables
    <3>2. UpToLast(usb'.out, "data", "end") BY <2>1, <2>3, <1>3, <3>1, LastAppended DEF Datas
    <3>3. Len(usb'.out) - 1 = Len(usb.out) BY <2>3, <1>3, <3>1, SeqAppend
    <3> QED BY <2>1, <3>2, <3>3 DEF Datas, Closes
  <2> QED BY <1>4, <2>2, <2>3
<1>7. Closing' BY <1>2, <1>4, <1>5, <1>6 DEF Closing, Filling, Acked
<1> QED BY <1>4, <1>7 DEF Stream

LEMMA StreamStored ==
  ASSUME WifiTyped, Stream, usb.up, Wifi!AwaitStored, UNCHANGED <<cancel, gw>>
  PROVE  Stream'
<1>1. upd.pc = "stored" /\ upd.stored /\ Wifi!Goto("start") BY DEF Wifi!AwaitStored
<1>2. Stored
  BY <1>1 DEF Stream, Settled, Opened, Begun, Refused, Filling, Closing, Cancelled, AtReady
<1>3. upd'.pc = "start" /\ usb' = usb /\ upd'.run = upd.run BY <1>1, Gone
<1>4. All(usb.out, "wifi") BY <1>2, InEmpty DEF Stored
<1>5. Settled' BY <1>1, <1>2, <1>3, <1>4 DEF Settled, Stored
<1> QED BY <1>3, <1>5 DEF Stream

LEMMA StreamLate ==
  ASSUME WifiTyped, Stream, usb.up, Wifi!Ask \/ Wifi!AwaitStart \/ Wifi!AwaitDone,
         UNCHANGED <<cancel, gw>>
  PROVE  Stream'
<1>1. upd.pc \in Late BY DEF Late, Wifi!Ask, Wifi!AwaitStart, Wifi!AwaitDone
<1>2. Settled
  BY <1>1 DEF Stream, Opened, Begun, Refused, Filling, Closing, Stored, Cancelled, AtReady, Late
<1>3. CASE Wifi!Ask
  <2>1. /\ usb' = Wifi!Written(Wifi!Line("wifi")) /\ upd' = [upd EXCEPT !.asks = upd.asks + 1]
        /\ upd.pc = "start"
    BY <1>3 DEF Wifi!Ask
  <2>2. Wifi!Line("wifi") \in Outgoing /\ Wifi!Line("wifi").k = "wifi"
    BY <2>1, WifiTarget DEF Outgoing, Wifi!Line
  <2>3. /\ usb'.back = usb.back /\ usb'.up
        /\ usb'.out = usb.out \/ usb'.out = Append(usb.out, Wifi!Line("wifi"))
    BY <2>1, <2>2, Writes
  <2>4. usb.out \in Seq(Outgoing) BY DEF WifiTyped, Cables
  <2>5. Flying(usb'.out) \subseteq Flying(usb.out) \cup {Wifi!Line("wifi")}
    <3>1. Flying(Append(usb.out, Wifi!Line("wifi"))) = Flying(usb.out) \cup {Wifi!Line("wifi")}
      BY <2>2, <2>4, SeqAppend
    <3> QED BY <2>3, <3>1
  <2>6. upd'.pc = upd.pc /\ upd'.run = upd.run BY <2>1 DEF WifiTyped, Updaters
  <2>7. All(usb'.out, "wifi") BY <1>2, <2>2, <2>5 DEF Settled, All
  <2>8. Settled' BY <1>1, <1>2, <2>3, <2>6, <2>7 DEF Settled, Late
  <2> QED BY <2>3, <2>8 DEF Stream
<1>4. CASE Wifi!AwaitStart \/ Wifi!AwaitDone
  <2>1. Wifi!Goto("done") \/ Wifi!Goto("ok") BY <1>4 DEF Wifi!AwaitStart, Wifi!AwaitDone
  <2>2. upd'.pc \in {"done", "ok"} /\ usb' = usb /\ upd'.run = upd.run
    BY <1>1, <2>1, Gone DEF Late
  <2>3. Settled' BY <1>1, <1>2, <2>2 DEF Settled, Late
  <2> QED BY <2>2, <2>3 DEF Stream
<1> QED BY <1>3, <1>4

\* The gateway's acknowledgements never leave the PC waiting at a full window.
LEMMA Unstalled == ASSUME WifiTyped, Filling, Wifi!Quiet PROVE ~Wifi!Blocked
<1>1. usb.out = <<>> /\ usb.back = <<>> BY DEF Wifi!Quiet
<1>2. PICK h \in 0..gw.len : gw.len < h + AckEvery /\ Newest(usb.back, upd.acked, h)
  BY DEF Filling, Acked
<1>3. upd.acked = h BY <1>1, <1>2, InEmpty
<1>4. gw.len = upd.sent BY <1>1, Room
<1> QED BY <1>2, <1>3, <1>4, Room, WifiNumbers DEF Wifi!Blocked

LEMMA StreamTimesOut ==
  ASSUME WifiTyped, Stream, usb.up, Wifi!TimeOut, UNCHANGED <<cancel, gw>>
  PROVE  Stream'
<1>1. upd.pc \notin Wifi!Ended /\ ~upd.error /\ Wifi!Goto("failed")
  BY DEF Wifi!TimeOut, Wifi!Running, Wifi!On
<1>2. upd'.pc = "failed" /\ usb' = usb BY <1>1, Gone DEF Wifi!Ended
<1>3. ASSUME All(usb.out, "wifi"), Only(usb.back, {}) PROVE Stream'
  BY <1>2, <1>3 DEF Stream, Settled, Late
<1>4. ~Settled => usb.out = <<>> /\ usb.back = <<>> /\ Wifi!Quiet
                  /\ (upd.pc = "stage" => Wifi!Blocked)
                  /\ (upd.pc = "ready" => ~upd.ready) /\ (upd.pc = "stored" => ~upd.stored)
  BY DEF Stream, Opened, Begun, Refused, Filling, Closing, Stored, Cancelled, AtReady,
         Wifi!TimeOut, Wifi!Quiet, Wifi!Running, Wifi!Ended
<1>5. CASE Settled BY <1>3, <1>5 DEF Settled
<1>6. CASE ~Settled BY <1>3, <1>4, <1>6, InEmpty
<1> QED BY <1>5, <1>6

LEMMA StreamWorker ==
  ASSUME WifiTyped, Stream, usb.up, Wifi!Worker
  PROVE  Stream'
BY StreamJob, StreamGivenUp, StreamReady, StreamStages, StreamCloses, StreamStored, StreamLate,
   StreamTimesOut
DEF Wifi!Worker

LEMMA Notes ==
  ASSUME WifiTyped, NEW m \in Messages
  PROVE  LET u == Wifi!Noted(m)
         IN  /\ u \in Updaters /\ u.pc = upd.pc /\ u.run = upd.run /\ u.sent = upd.sent
             /\ u.acked = IF m.k = "ack" THEN m.len ELSE upd.acked
             /\ u.ready = (upd.ready \/ m.k = "ready")
             /\ u.stored = (upd.stored \/ m.k = "stored")
             /\ u.error = (upd.error \/ m.k = "store_error")
             /\ u.done = (upd.done \/ (m.k = "done" /\ m.from = Wifi!Target))
<1> DEFINE u == Wifi!Noted(m)
<1>0. upd \in Updaters BY DEF WifiTyped
<1>1. CASE m.k = "ready"
  <2>1. u = [upd EXCEPT !.ready = TRUE] BY <1>1 DEF Wifi!Noted
  <2> QED BY <1>0, <1>1, <2>1 DEF Updaters
<1>2. CASE m.k = "ack"
  <2>1. u = [upd EXCEPT !.acked = m.len] BY <1>2 DEF Wifi!Noted
  <2>2. m.len \in 0..Lines BY <1>2 DEF Messages, Kinds, NodeMessages, FromNodes
  <2> QED BY <1>0, <1>2, <2>1, <2>2 DEF Updaters
<1>3. CASE m.k = "stored"
  <2>1. u = [upd EXCEPT !.stored = TRUE] BY <1>3 DEF Wifi!Noted
  <2> QED BY <1>0, <1>3, <2>1 DEF Updaters
<1>4. CASE m.k = "store_error"
  <2>1. u = [upd EXCEPT !.error = TRUE] BY <1>4 DEF Wifi!Noted
  <2> QED BY <1>0, <1>4, <2>1 DEF Updaters
<1>5. CASE m.k = "wifi_start" /\ m.from = Wifi!Target
  <2>1. u = [upd EXCEPT !.started = TRUE] BY <1>5 DEF Wifi!Noted
  <2> QED BY <1>0, <1>5, <2>1 DEF Updaters
<1>6. CASE m.k = "done" /\ m.from = Wifi!Target
  <2>1. u = [upd EXCEPT !.done = TRUE] BY <1>6 DEF Wifi!Noted
  <2> QED BY <1>0, <1>6, <2>1 DEF Updaters
<1>7. CASE /\ m.k \notin {"ready", "ack", "stored", "store_error"}
           /\ ~(m.k = "wifi_start" /\ m.from = Wifi!Target)
           /\ ~(m.k = "done" /\ m.from = Wifi!Target)
  <2>1. u = upd BY <1>7 DEF Wifi!Noted
  <2> QED BY <1>0, <1>7, <2>1 DEF Updaters
<1> QED BY <1>1, <1>2, <1>3, <1>4, <1>5, <1>6, <1>7

LEMMA HandleTyped == ASSUME WifiTyped, Wifi!Handle PROVE WifiTyped'
<1>1. usb' \in Cables /\ Head(usb.back) \in Messages
  BY TakesMessage DEF Wifi!Handle
<1>2. upd' \in Updaters /\ upd'.pc = upd.pc /\ upd'.run = upd.run
  BY <1>1, Notes DEF Wifi!Handle, WifiTyped
<1> QED BY <1>1, <1>2 DEF WifiTyped, Wifi!Handle

LEMMA StreamHandle == ASSUME WifiTyped, Stream, usb.up, Wifi!Handle PROVE Stream'
<1> DEFINE m == Head(usb.back)
<1>1. /\ usb.back # <<>> /\ usb'.out = usb.out /\ usb'.up /\ usb'.back = Tail(usb.back)
      /\ m \in Messages /\ UNCHANGED <<cancel, gw>>
  BY TakesMessage DEF Wifi!Handle
<1>2. usb.back \in Seq(Messages) BY DEF WifiTyped, Cables
<1>3. m \in Flying(usb.back) /\ Flying(usb'.back) \subseteq Flying(usb.back)
  BY <1>1, <1>2, SeqTail
<1>4. \A E : Only(usb.back, E) => Only(usb'.back, E) /\ m.k \in FromNodes \cup E
  BY <1>3 DEF Only
<1>5. CASE upd.pc \in Wifi!Ended
  <2>1. upd' = upd BY <1>5 DEF Wifi!Handle, Wifi!Running
  <2>2. Settled \/ Cancelled
    BY <1>5 DEF Stream, Opened, Begun, Refused, Filling, Closing, Stored, AtReady, Wifi!Ended
  <2>3. Settled => Settled' BY <1>1, <1>4, <2>1 DEF Settled
  <2>4. Cancelled => Cancelled'
    BY <1>1, <2>1 DEF Cancelled, Opens, Datas, Closes
  <2> QED BY <1>1, <2>2, <2>3, <2>4 DEF Stream
<1>6. CASE upd.pc \notin Wifi!Ended
  <2>1. /\ upd'.pc = upd.pc /\ upd'.run = upd.run /\ upd'.sent = upd.sent
        /\ upd'.acked = IF m.k = "ack" THEN m.len ELSE upd.acked
        /\ upd'.ready = (upd.ready \/ m.k = "ready")
        /\ upd'.stored = (upd.stored \/ m.k = "stored")
        /\ upd'.error = (upd.error \/ m.k = "store_error")
    <3>1. upd' = Wifi!Noted(m) BY <1>6 DEF Wifi!Handle, Wifi!Running
    <3> QED BY <1>1, <3>1, Notes
  <2>2. \A kind, E : Once(usb.back, kind, E)
          => \/ m.k = kind /\ Only(usb'.back, {})
             \/ m.k \in FromNodes \cup E /\ Once(usb'.back, kind, E)
    BY <1>1, <1>2, OnceTail
  <2> HIDE DEF m
  <2>3. CASE Settled
    <3>1. m.k \in FromNodes /\ Only(usb'.back, {}) BY <1>4, <2>3 DEF Settled
    <3>2. Settled' BY <1>1, <2>1, <2>3, <3>1 DEF Settled, FromNodes
    <3> QED BY <1>1, <3>2 DEF Stream
  <2>4. CASE Opened
    <3>1. m.k \in FromNodes /\ Only(usb'.back, {}) BY <1>4, <2>4 DEF Opened
    <3>2. Opened' BY <1>1, <2>1, <2>4, <3>1 DEF Opened, AtReady, Opens, FromNodes
    <3> QED BY <1>1, <3>2 DEF Stream
  <2>5. CASE Begun
    <3>1. CASE upd.ready
      <4>1. m.k \in FromNodes /\ Only(usb'.back, {}) BY <1>4, <2>5, <3>1 DEF Begun
      <4>2. Begun' BY <1>1, <2>1, <2>5, <3>1, <4>1 DEF Begun, AtReady, FromNodes
      <4> QED BY <1>1, <4>2 DEF Stream
    <3>2. CASE ~upd.ready
      <4>1. \/ m.k = "ready" /\ Only(usb'.back, {})
            \/ m.k \in FromNodes /\ Once(usb'.back, "ready", {})
        BY <2>2, <2>5, <3>2 DEF Begun
      <4>2. Begun' BY <1>1, <2>1, <2>5, <3>2, <4>1 DEF Begun, AtReady, FromNodes
      <4> QED BY <1>1, <4>2 DEF Stream
    <3> QED BY <3>1, <3>2
  <2>6. CASE Refused
    <3>1. CASE upd.error
      <4>1. m.k \in FromNodes /\ Only(usb'.back, {}) BY <1>4, <2>6, <3>1 DEF Refused
      <4>2. Refused' BY <1>1, <2>1, <2>6, <3>1, <4>1 DEF Refused, AtReady, FromNodes
      <4> QED BY <1>1, <4>2 DEF Stream
    <3>2. CASE ~upd.error
      <4>1. \/ m.k = "store_error" /\ Only(usb'.back, {})
            \/ m.k \in FromNodes /\ Once(usb'.back, "store_error", {})
        BY <2>2, <2>6, <3>2 DEF Refused
      <4>2. Refused' BY <1>1, <2>1, <2>6, <3>2, <4>1 DEF Refused, AtReady, FromNodes
      <4> QED BY <1>1, <4>2 DEF Stream
    <3> QED BY <3>1, <3>2
  <2>7. CASE Filling
    <3>1. m.k \in FromNodes \cup {"ack"} /\ Only(usb'.back, {"ack"})
      BY <1>4, <2>7 DEF Filling, Acked
    <3>2. Datas(upd.sent)' BY <1>1, <2>1, <2>7 DEF Filling, Datas
    <3>3. upd'.acked <= gw.len BY <1>3, <2>1, <2>7 DEF Filling, Acked
    <3>4. PICK h \in 0..gw.len : /\ h % AckEvery = 0 /\ gw.len < h + AckEvery
                                 /\ Newest(usb.back, upd.acked, h)
      BY <2>7 DEF Filling, Acked
    <3>5. Newest(usb'.back, upd'.acked, h)
      BY <1>1, <1>2, <2>1, <3>4, NewestTail DEF m
    <3>6. Acked' BY <1>1, <1>3, <2>7, <3>1, <3>3, <3>4, <3>5 DEF Filling, Acked
    <3>7. Filling' BY <1>1, <2>1, <2>7, <3>1, <3>2, <3>6 DEF Filling, FromNodes
    <3> QED BY <1>1, <3>7 DEF Stream
  <2>8. CASE Closing
    <3>1. m.k \in FromNodes \cup {"ack"} /\ Only(usb'.back, {"ack"})
      BY <1>4, <2>8 DEF Closing
    <3>2. (Datas(Lines) \/ Closes(Lines))' BY <1>1, <2>8 DEF Closing, Datas, Closes
    <3>3. Closing' BY <1>1, <2>1, <2>8, <3>1, <3>2 DEF Closing, FromNodes
    <3> QED BY <1>1, <3>3 DEF Stream
  <2>9. CASE Stored
    <3>1. CASE upd.stored
      <4>1. m.k \in FromNodes /\ Only(usb'.back, {}) BY <1>4, <2>9, <3>1 DEF Stored
      <4>2. Stored' BY <1>1, <2>1, <2>9, <3>1, <4>1 DEF Stored, FromNodes
      <4> QED BY <1>1, <4>2 DEF Stream
    <3>2. CASE ~upd.stored
      <4>1. \/ m.k = "stored" /\ Only(usb'.back, {})
            \/ m.k \in FromNodes \cup {"ack"} /\ Once(usb'.back, "stored", {"ack"})
        BY <2>2, <2>9, <3>2 DEF Stored
      <4>2. Stored' BY <1>1, <2>1, <2>9, <3>2, <4>1 DEF Stored, FromNodes
      <4> QED BY <1>1, <4>2 DEF Stream
    <3> QED BY <3>1, <3>2
  <2> QED BY <1>6, <2>3, <2>4, <2>5, <2>6, <2>7, <2>8, <2>9
      DEF Stream, Cancelled, Wifi!Ended
<1> QED BY <1>5, <1>6

\* What the gateway's next line is, where the stream stands.
LEMMA NextLine ==
  ASSUME WifiTyped, Stream, usb.out # <<>>
  PROVE  LET m == Head(usb.out)
         IN  /\ usb.up /\ m \in Outgoing /\ Tail(usb.out) \in Seq(Outgoing)
             /\ m.k = "begin" => /\ Tail(usb.out) = <<>>
                                 /\ (Opened /\ m.of = upd.run) \/ Cancelled
             /\ m.k = "data" => \/ Filling /\ Datas(upd.sent)
                                \/ Closing
                                \/ Cancelled /\ \E n \in 0..Lines : Datas(n) \/ Closes(n)
             /\ m.k = "end" => /\ Tail(usb.out) = <<>>
                               /\ (Closing /\ gw.len = Lines) \/ Cancelled
             /\ m.k = "wifi" => \/ Settled /\ All(Tail(usb.out), "wifi")
                                \/ /\ Opened /\ UpToLast(Tail(usb.out), "wifi", "begin")
                                   /\ Tail(usb.out)[Len(Tail(usb.out))] = usb.out[Len(usb.out)]
                                \/ /\ Cancelled
                                   /\ \/ All(Tail(usb.out), "wifi")
                                      \/ UpToLast(Tail(usb.out), "wifi", "begin")
<1> DEFINE m == Head(usb.out)
           t == Tail(usb.out)
<1>1. usb.up BY DEF Stream, Unplugged
<1>2. usb.out \in Seq(Outgoing) BY DEF WifiTyped, Cables
<1>3. m \in Outgoing /\ t \in Seq(Outgoing) /\ m \in Flying(usb.out)
      /\ Flying(t) \subseteq Flying(usb.out)
  BY <1>2, SeqTail
<1>4. \A kind : All(usb.out, kind) => m.k = kind /\ All(t, kind) BY <1>3 DEF All
<1>5. \A kind, last : UpToLast(usb.out, kind, last)
        => \/ Len(usb.out) = 1 /\ m.k = last /\ t = <<>> /\ m = usb.out[Len(usb.out)]
           \/ m.k = kind /\ UpToLast(t, kind, last) /\ t[Len(t)] = usb.out[Len(usb.out)]
  BY <1>2, LastTail
<1> HIDE DEF m, t
<1>6. CASE Settled
  <2>1. m.k = "wifi" /\ All(t, "wifi") BY <1>4, <1>6 DEF Settled
  <2> QED BY <1>1, <1>3, <1>6, <2>1 DEF m, t
<1>7. CASE Opened
  <2>1. \/ m.k = "begin" /\ t = <<>> /\ m = usb.out[Len(usb.out)]
        \/ /\ m.k = "wifi" /\ UpToLast(t, "wifi", "begin")
           /\ t[Len(t)] = usb.out[Len(usb.out)]
    BY <1>5, <1>7 DEF Opened, Opens
  <2>2. usb.out[Len(usb.out)].of = upd.run BY <1>7 DEF Opened
  <2> QED BY <1>1, <1>3, <1>7, <2>1, <2>2 DEF m, t
<1>8. CASE Filling
  <2>1. m.k = "data" /\ Datas(upd.sent) BY <1>4, <1>8 DEF Filling, Datas
  <2> QED BY <1>1, <1>3, <1>8, <2>1 DEF m, t
<1>9. CASE Closing
  <2>1. CASE Datas(Lines)
    <3>1. m.k = "data" BY <1>4, <2>1 DEF Datas
    <3> QED BY <1>1, <1>3, <1>9, <3>1 DEF m, t
  <2>2. CASE Closes(Lines)
    <3>1. \/ m.k = "end" /\ t = <<>> /\ Len(usb.out) = 1
          \/ m.k = "data"
      BY <1>5, <2>2 DEF Closes
    <3>2. Len(usb.out) = 1 => gw.len = Lines
      BY <2>2, WifiNumbers DEF Closes, WifiTyped
    <3> QED BY <1>1, <1>3, <1>9, <3>1, <3>2 DEF m, t
  <2> QED BY <1>9, <2>1, <2>2 DEF Closing
<1>10. CASE Cancelled
  <2>1. CASE All(usb.out, "wifi")
    <3>1. m.k = "wifi" /\ All(t, "wifi") BY <1>4, <2>1
    <3> QED BY <1>1, <1>3, <1>10, <3>1 DEF m, t
  <2>2. CASE Opens
    <3>1. (m.k = "begin" /\ t = <<>>) \/ (m.k = "wifi" /\ UpToLast(t, "wifi", "begin"))
      BY <1>5, <2>2 DEF Opens
    <3> QED BY <1>1, <1>3, <1>10, <3>1 DEF m, t
  <2>3. CASE \E n \in 0..Lines : Datas(n) \/ Closes(n)
    <3>1. m.k = "data" \/ (m.k = "end" /\ t = <<>>)
      BY <1>4, <1>5, <2>3 DEF Datas, Closes
    <3> QED BY <1>1, <1>3, <1>10, <2>3, <3>1 DEF m, t
  <2> QED BY <1>10, <2>1, <2>2, <2>3 DEF Cancelled
<1> QED BY <1>1, <1>6, <1>7, <1>8, <1>9, <1>10 DEF Stream, Begun, Refused, Stored

\* A line is stored: the sum stays.
LEMMA DatasTaken ==
  ASSUME WifiTyped, usb.out # <<>>, NEW n \in 0..Lines, Datas(n) \/ Closes(n),
         Head(usb.out).k = "data", usb'.out = Tail(usb.out),
         gw' = [gw EXCEPT !.len = gw.len + 1]
  PROVE  /\ gw'.len = gw.len + 1 /\ gw'.of = gw.of /\ gw'.state = "filling" /\ gw'.len \in 0..Lines
         /\ (Datas(n) => Datas(n)') /\ (Closes(n) => Closes(n)')
<1>1. usb.out \in Seq(Outgoing) BY DEF WifiTyped, Cables
<1>2. Len(usb.out) \in Nat \ {0} /\ Len(usb'.out) = Len(usb.out) - 1
      /\ Flying(usb'.out) \subseteq Flying(usb.out)
  BY <1>1, SeqTail
<1>3. gw.state = "filling" BY DEF Datas, Closes
<1>4. gw.len \in Nat /\ gw'.len = gw.len + 1 /\ gw'.of = gw.of /\ gw'.state = "filling"
  BY <1>3, WifiNumbers DEF WifiTyped
<1>5. ASSUME Datas(n) PROVE Datas(n)' /\ gw'.len <= n
  <2>1. All(usb'.out, "data") BY <1>2, <1>5 DEF Datas, All
  <2>2. Len(usb'.out) + gw'.len = n /\ gw'.len <= n
    <3>1. Len(usb.out) + gw.len = n BY <1>5 DEF Datas
    <3>2. \A a, b, c \in Nat : a + b = c => (a - 1) + (b + 1) = c /\ (a > 0 => b + 1 <= c)
      OBVIOUS
    <3>3. n \in Nat /\ Len(usb.out) > 0 BY <1>2, WifiNumbers
    <3>4. Len(usb.out) - 1 + (gw.len + 1) = n /\ gw.len + 1 <= n
      BY <3>1, <3>2, <3>3, <1>2, <1>4
    <3> QED BY <3>4, <1>2, <1>4
  <2> QED BY <1>4, <2>1, <2>2 DEF Datas
<1>6. ASSUME Closes(n) PROVE Closes(n)' /\ gw'.len <= n
  <2>1. UpToLast(usb.out, "data", "end") BY <1>6 DEF Closes
  <2>2. UpToLast(usb'.out, "data", "end") BY <1>1, <2>1, LastTail
  <2>3. Len(usb'.out) - 1 + gw'.len = n /\ gw'.len <= n
    <3>1. Len(usb.out) - 1 + gw.len = n BY <1>6 DEF Closes
    <3>2. Len(usb'.out) \in Nat /\ Len(usb'.out) > 0 BY <2>2, <1>2 DEF UpToLast
    <3>3. \A x, y \in Nat : x > 0 => x - 1 + (y + 1) = (x + 1) - 1 + y /\ y + 1 <= (x + 1) - 1 + y
      OBVIOUS
    <3>4. Len(usb.out) = Len(usb'.out) + 1 BY <1>2
    <3> QED BY <3>1, <3>2, <3>3, <3>4, <1>4
  <2> QED BY <1>4, <2>2, <2>3 DEF Closes
<1>7. gw'.len <= n BY <1>5, <1>6
<1>8. gw'.len \in 0..Lines BY <1>4, <1>7, WifiNumbers
<1> QED BY <1>4, <1>5, <1>6, <1>8

LEMMA StreamStoreData ==
  ASSUME WifiTyped, Stream, Whole0, usb.out # <<>>, Wifi!StoreData(Head(usb.out)),
         UNCHANGED <<upd, cancel, air, board, resets>>
  PROVE  WifiTyped' /\ Stream' /\ Whole0'
<1> DEFINE ack == [k |-> "ack", len |-> gw'.len]
<1>0. /\ usb.up /\ Head(usb.out).k = "data"
      /\ \/ Filling /\ Datas(upd.sent)
         \/ Closing
         \/ Cancelled /\ \E n \in 0..Lines : Datas(n) \/ Closes(n)
  BY NextLine DEF Wifi!StoreData
<1>1. gw.state = "filling" BY <1>0 DEF Closing, Datas, Closes
<1>2. /\ gw' = [gw EXCEPT !.len = gw.len + 1]
      /\ \/ gw'.len % AckEvery = 0 /\ Wifi!Says(ack)
         \/ gw'.len % AckEvery # 0 /\ Wifi!Takes
  BY <1>1 DEF Wifi!StoreData, Wifi!Acked
<1>a. upd.sent \in 0..Lines /\ Lines \in 0..Lines /\ usb.back \in Seq(Messages)
  BY WifiNumbers DEF WifiTyped, Updaters, Cables
<1>b. PICK n \in 0..Lines : \/ Filling /\ Datas(n) /\ n = upd.sent
                            \/ Closing /\ (Datas(n) \/ Closes(n)) /\ n = Lines
                            \/ Cancelled /\ (Datas(n) \/ Closes(n))
  BY <1>0, <1>a DEF Closing
<1>3. usb'.out = Tail(usb.out) BY <1>2 DEF Wifi!Says, Wifi!Takes, WifiTyped, Cables
<1>4. /\ gw'.len = gw.len + 1 /\ gw'.of = gw.of /\ gw'.state = "filling"
      /\ gw'.len \in 0..Lines /\ (Datas(n) => Datas(n)') /\ (Closes(n) => Closes(n)')
  <2>1. Datas(n) \/ Closes(n) BY <1>b
  <2> QED BY <1>0, <1>2, <1>3, <2>1, DatasTaken
<1> HIDE DEF ack
<1>5. ack \in Messages /\ ack.k = "ack" /\ ack.len = gw'.len BY <1>4 DEF ack, Messages
<1>6. /\ usb' \in Cables /\ usb'.up = usb.up
      /\ \/ gw'.len % AckEvery = 0 /\ usb'.back = Append(usb.back, ack)
         \/ gw'.len % AckEvery # 0 /\ usb'.back = usb.back
  BY <1>2, <1>5, SaysLine, TakesLine
<1>7. WifiTyped'
  <2>1. gw' \in [of : 0..Len(Jobs), len : 0..Lines, state : {"none", "filling", "ready"}]
    BY <1>2, <1>4 DEF WifiTyped
  <2> QED BY <1>6, <2>1 DEF WifiTyped
<1>8. Whole0' BY <1>4 DEF Whole0
<1>9. Only(usb.back, {"ack"}) => Only(usb'.back, {"ack"})
  <2>1. Flying(Append(usb.back, ack)) = Flying(usb.back) \cup {ack}
    BY <1>a, <1>5, SeqAppend
  <2> QED BY <1>5, <1>6, <2>1 DEF Only
<1>10. CASE Filling /\ Datas(n) /\ n = upd.sent
  <2>1. Datas(upd.sent)' BY <1>4, <1>10 DEF Datas
  <2>2. gw.len \in Nat /\ upd.acked \in Nat /\ upd.acked <= gw.len /\ AckEvery \in Nat
        /\ AckEvery > 0 /\ Only(usb.back, {"ack"})
        /\ \A m \in Flying(usb.back) : m.k = "ack" => m.len <= gw.len
    BY <1>10, Room, WifiNumbers DEF Filling, Acked
  <2>3. PICK h \in 0..gw.len : /\ h % AckEvery = 0 /\ gw.len < h + AckEvery
                               /\ Newest(usb.back, upd.acked, h)
    BY <1>10 DEF Filling, Acked
  <2>4. CASE gw'.len % AckEvery = 0 /\ usb'.back = Append(usb.back, ack)
    <3>1. Flying(usb'.back) = Flying(usb.back) \cup {ack}
      BY <1>a, <1>5, <2>4, SeqAppend
    <3>2. Newest(usb'.back, upd.acked, gw'.len) BY <1>a, <1>5, <2>4, NewestMade
    <3>3. gw'.len \in 0..gw'.len /\ gw'.len < gw'.len + AckEvery BY <1>4, <2>2
    <3>4. ASSUME NEW m \in Flying(usb'.back), m.k = "ack" PROVE m.len <= gw'.len
      <4>1. CASE m = ack BY <4>1, <1>5, <1>4, <2>2
      <4>2. CASE m \in Flying(usb.back)
        <5>1. m \in Messages BY <1>a, <4>2 DEF Flying
        <5>2. m.len \in 0..Lines BY <5>1, <3>4 DEF Messages, Kinds, NodeMessages, FromNodes
        <5> QED BY <1>4, <2>2, <3>4, <4>2, <5>2, WifiNumbers
      <4> QED BY <3>1, <4>1, <4>2
    <3>5. upd'.acked <= gw'.len BY <1>4, <2>2
    <3> QED BY <1>6, <1>7, <1>8, <1>0, <1>4, <1>9, <1>10, <2>1, <2>2, <2>4, <3>2, <3>3, <3>4, <3>5
        DEF Stream, Filling, Acked
  <2>5. CASE gw'.len % AckEvery # 0 /\ usb'.back = usb.back
    <3>1. gw'.len # h + AckEvery
      <4>1. h \in Nat /\ h % AckEvery = 0 BY <2>2, <2>3
      <4>2. (h + AckEvery) % AckEvery = 0 BY <2>2, <4>1, Multiples
      <4> QED BY <2>5, <4>2
    <3>2. gw'.len < h + AckEvery /\ h \in 0..gw'.len BY <1>4, <2>2, <2>3, <3>1
    <3>3. ASSUME NEW m \in Flying(usb'.back), m.k = "ack" PROVE m.len <= gw'.len
      <4>1. m \in Messages /\ m \in Flying(usb.back) BY <1>a, <2>5, <3>3 DEF Flying
      <4>2. m.len \in 0..Lines BY <4>1, <3>3 DEF Messages, Kinds, NodeMessages, FromNodes
      <4> QED BY <1>4, <2>2, <3>3, <4>1, <4>2, WifiNumbers
    <3>4. upd'.acked <= gw'.len BY <1>4, <2>2
    <3>5. Acked' BY <2>2, <2>3, <2>5, <3>2, <3>3, <3>4 DEF Acked
    <3>6. Filling' BY <1>4, <1>10, <2>1, <3>5 DEF Filling
    <3> QED BY <1>0, <1>6, <1>7, <1>8, <3>6 DEF Stream
  <2> QED BY <1>6, <2>4, <2>5
<1>11. CASE Closing /\ (Datas(n) \/ Closes(n)) /\ n = Lines
  <2>1. (Datas(Lines) \/ Closes(Lines))' BY <1>4, <1>11
  <2>2. Closing' BY <1>4, <1>9, <1>11, <2>1 DEF Closing
  <2> QED BY <1>0, <1>6, <1>7, <1>8, <2>2 DEF Stream
<1>12. CASE Cancelled /\ (Datas(n) \/ Closes(n))
  <2>1. Cancelled' BY <1>4, <1>12 DEF Cancelled
  <2> QED BY <1>0, <1>6, <1>7, <1>8, <2>1 DEF Stream
<1> QED BY <1>b, <1>10, <1>11, <1>12

LEMMA StreamStoreEnd ==
  ASSUME WifiTyped, Stream, usb.out # <<>>, Wifi!StoreEnd(Head(usb.out)),
         UNCHANGED <<upd, cancel, air, board, resets>>
  PROVE  WifiTyped' /\ Stream' /\ Whole0'
<1>0. usb.up /\ Tail(usb.out) = <<>> /\ ((Closing /\ gw.len = Lines) \/ Cancelled)
  BY NextLine DEF Wifi!StoreEnd
<1> DEFINE stored == [k |-> "stored"]
           error == [k |-> "store_error"]
<1>1. stored \in Messages /\ stored.k = "stored" /\ error \in Messages
  BY DEF Messages, Kinds
<1>2. \/ /\ gw.len = Lines /\ gw.state # "none"
         /\ gw' = [gw EXCEPT !.state = "ready"] /\ Wifi!Says(stored)
      \/ ~(gw.state # "none" /\ gw.len = Lines) /\ gw' = Wifi!NoStore /\ Wifi!Says(error)
  BY DEF Wifi!StoreEnd, Wifi!Complete
<1> HIDE DEF stored, error
<1>3. /\ usb' \in Cables /\ usb'.up /\ usb'.out = <<>>
      /\ Wifi!Says(stored) => usb'.back = Append(usb.back, stored)
  BY <1>0, <1>1, <1>2, SaysLine
<1>4. /\ gw' \in [of : 0..Len(Jobs), len : 0..Lines, state : {"none", "filling", "ready"}]
      /\ \/ gw'.state = "ready" /\ gw'.len = Lines /\ gw'.of = gw.of /\ Wifi!Says(stored)
         \/ gw'.state = "none" /\ ~(gw.state # "none" /\ gw.len = Lines)
  BY <1>2, WifiNumbers DEF WifiTyped, Wifi!NoStore
<1>5. WifiTyped' BY <1>3, <1>4 DEF WifiTyped
<1>6. Whole0' BY <1>4 DEF Whole0
<1>7. CASE Closing /\ gw.len = Lines
  <2>1. gw.state = "filling" /\ usb.back \in Seq(Messages) /\ Only(usb.back, {"ack"})
    BY <1>7 DEF Closing, Datas, Closes, WifiTyped, Cables
  <2>2. gw'.state = "ready" /\ gw'.of = gw.of /\ usb'.back = Append(usb.back, stored)
    BY <1>3, <1>4, <1>7, <2>1
  <2>3. Once(Append(usb.back, stored), stored.k, {"ack"})
    BY <1>1, <2>1, OnceMade
  <2>4. Once(usb'.back, "stored", {"ack"}) BY <1>1, <2>2, <2>3
  <2>5. Stored' BY <1>3, <1>7, <2>2, <2>4 DEF Stored, Closing
  <2> QED BY <1>3, <1>5, <1>6, <2>5 DEF Stream
<1>8. CASE Cancelled
  <2>1. Cancelled' BY <1>3, <1>8, InEmpty DEF Cancelled
  <2> QED BY <1>3, <1>5, <1>6, <2>1 DEF Stream
<1> QED BY <1>0, <1>7, <1>8

LEMMA StreamStoreBegin ==
  ASSUME WifiTyped, Stream, usb.out # <<>>, Wifi!StoreBegin(Head(usb.out)),
         UNCHANGED <<upd, cancel, air, board, resets>>
  PROVE  WifiTyped' /\ Stream' /\ Whole0'
<1> DEFINE m == Head(usb.out)
           ready == [k |-> "ready"]
           error == [k |-> "store_error"]
<1>0. /\ usb.up /\ Tail(usb.out) = <<>> /\ m \in Outgoing
      /\ (Opened /\ m.of = upd.run) \/ Cancelled
  BY NextLine DEF Wifi!StoreBegin
<1>1. ready \in Messages /\ ready.k = "ready" /\ error \in Messages /\ error.k = "store_error"
  BY DEF Messages, Kinds
<1>2. \/ gw' = [of |-> m.of, len |-> 0, state |-> "filling"] /\ Wifi!Says(ready)
      \/ gw' = Wifi!NoStore /\ Wifi!Says(error)
  BY DEF Wifi!StoreBegin
<1>a. m.of \in 0..Len(Jobs) BY <1>0, WifiNumbers DEF Outgoing, Wifi!Runs
<1> HIDE DEF m, ready, error
<1>3. /\ usb' \in Cables /\ usb'.up /\ usb'.out = <<>>
      /\ Wifi!Says(ready) => usb'.back = Append(usb.back, ready)
      /\ Wifi!Says(error) => usb'.back = Append(usb.back, error)
  BY <1>0, <1>1, <1>2, SaysLine
<1>4. /\ gw' \in [of : 0..Len(Jobs), len : 0..Lines, state : {"none", "filling", "ready"}]
      /\ gw'.state # "ready"
  BY <1>2, <1>a, WifiNumbers DEF Wifi!NoStore
<1>5. WifiTyped' BY <1>3, <1>4 DEF WifiTyped
<1>6. Whole0' BY <1>4 DEF Whole0
<1>7. CASE Opened /\ m.of = upd.run
  <2>1. usb.back \in Seq(Messages) /\ Only(usb.back, {})
    BY <1>7 DEF Opened, WifiTyped, Cables
  <2>2. CASE gw' = [of |-> m.of, len |-> 0, state |-> "filling"] /\ Wifi!Says(ready)
    <3>1. Once(Append(usb.back, ready), ready.k, {}) BY <1>1, <2>1, OnceMade
    <3>2. Once(usb'.back, "ready", {}) BY <1>1, <1>3, <2>2, <3>1
    <3>3. Begun' BY <1>3, <1>7, <2>2, <3>2 DEF Begun, Opened, AtReady
    <3> QED BY <1>3, <1>5, <1>6, <3>3 DEF Stream
  <2>3. CASE gw' = Wifi!NoStore /\ Wifi!Says(error)
    <3>1. Once(Append(usb.back, error), error.k, {}) BY <1>1, <2>1, OnceMade
    <3>2. Once(usb'.back, "store_error", {}) BY <1>1, <1>3, <2>3, <3>1
    <3>3. Refused' BY <1>3, <1>7, <2>3, <3>2 DEF Refused, Opened, AtReady
    <3> QED BY <1>3, <1>5, <1>6, <3>3 DEF Stream
  <2> QED BY <1>2, <2>2, <2>3
<1>8. CASE Cancelled
  <2>1. Cancelled' BY <1>3, <1>8, InEmpty DEF Cancelled
  <2> QED BY <1>3, <1>5, <1>6, <2>1 DEF Stream
<1> QED BY <1>0, <1>7, <1>8

LEMMA StreamForward ==
  ASSUME WifiTyped, Stream, Whole0, usb.out # <<>>, Wifi!Forward(Head(usb.out)),
         air' \in {air, [air EXCEPT !.out = Append(@, Jobs[Head(usb.out).of])]},
         UNCHANGED <<upd, cancel, board, resets>>
  PROVE  WifiTyped' /\ Stream' /\ Whole0'
<1>1. /\ usb.up /\ gw' = gw /\ Head(usb.out) \in Outgoing
      /\ \/ Settled /\ All(Tail(usb.out), "wifi")
         \/ /\ Opened /\ UpToLast(Tail(usb.out), "wifi", "begin")
            /\ Tail(usb.out)[Len(Tail(usb.out))] = usb.out[Len(usb.out)]
         \/ /\ Cancelled
            /\ All(Tail(usb.out), "wifi") \/ UpToLast(Tail(usb.out), "wifi", "begin")
  BY NextLine DEF Wifi!Forward
<1>2. usb' \in Cables /\ usb'.up /\ usb'.out = Tail(usb.out) /\ usb'.back = usb.back
  BY <1>1, TakesLine DEF Wifi!Forward
<1>3. air' \in [out : Seq(Wifi!Nodes), back : Seq(NodeMessages)]
  <2>1. Jobs[Head(usb.out).of] \in Wifi!Nodes BY <1>1 DEF Outgoing, Wifi!Nodes
  <2> DEFINE n == Jobs[Head(usb.out).of]
  <2> HIDE DEF n
  <2>2. Append(air.out, n) \in Seq(Wifi!Nodes) BY <2>1 DEF WifiTyped, n
  <2>3. air' = air \/ air' = [air EXCEPT !.out = Append(air.out, n)] BY DEF n
  <2> QED BY <2>2, <2>3 DEF WifiTyped
<1>4. WifiTyped' /\ Whole0' BY <1>1, <1>2, <1>3 DEF WifiTyped, Whole0
<1>5. Settled /\ All(Tail(usb.out), "wifi") => Settled' BY <1>1, <1>2 DEF Settled, Late
<1>6. Opened /\ UpToLast(Tail(usb.out), "wifi", "begin")
        /\ Tail(usb.out)[Len(Tail(usb.out))] = usb.out[Len(usb.out)] => Opened'
  BY <1>2 DEF Opened, Opens, AtReady
<1>7. Cancelled /\ (All(Tail(usb.out), "wifi") \/ UpToLast(Tail(usb.out), "wifi", "begin"))
        => Cancelled'
  BY <1>2 DEF Cancelled, Opens
<1>8. Stream' BY <1>1, <1>2, <1>5, <1>6, <1>7 DEF Stream
<1> QED BY <1>4, <1>8

LEMMA StreamGateway ==
  ASSUME WifiTyped, Stream, Whole0, Wifi!Gateway
  PROVE  WifiTyped' /\ Stream' /\ Whole0'
BY StreamStoreBegin, StreamStoreData, StreamStoreEnd, StreamForward DEF Wifi!Gateway

\* Nothing of the stream moves, but a node may have said something.
LEMMA StreamStays ==
  ASSUME WifiTyped, Stream, usb.up, UNCHANGED <<upd, gw>>, cancel' = cancel \/ cancel',
         usb'.up, usb'.out = usb.out, NEW m \in NodeMessages,
         usb'.back = usb.back \/ usb'.back = Append(usb.back, m)
  PROVE  Stream'
<1>1. usb.back \in Seq(Messages) /\ m \in Messages /\ m.k \in FromNodes
  BY DEF WifiTyped, Cables, Messages, NodeMessages
<1>2. Flying(usb'.back) \subseteq Flying(usb.back) \cup {m}
  <2>1. Flying(Append(usb.back, m)) = Flying(usb.back) \cup {m} BY <1>1, SeqAppend
  <2> QED BY <2>1
<1>3. \A E : Only(usb.back, E) => Only(usb'.back, E) BY <1>1, <1>2 DEF Only
<1>4. \A kind, E : Once(usb.back, kind, E) => Once(usb'.back, kind, E)
  BY <1>1, OnceAppended
<1>5. \A last, h : Newest(usb.back, last, h) => Newest(usb'.back, last, h)
  BY <1>1, NewestAppended
<1>6. Settled => Settled' BY <1>3 DEF Settled
<1>7. Opened => Opened' BY <1>3 DEF Opened, AtReady, Opens
<1>8. Begun => Begun' BY <1>3, <1>4 DEF Begun, AtReady
<1>9. Refused => Refused' BY <1>3, <1>4 DEF Refused, AtReady
<1>10. Filling => Filling'
  <2>1. Acked => Acked' BY <1>1, <1>2, <1>3, <1>5 DEF Acked, FromNodes
  <2> QED BY <2>1 DEF Filling, Datas
<1>11. Closing => Closing' BY <1>3 DEF Closing, Datas, Closes
<1>12. Stored => Stored' BY <1>3, <1>4 DEF Stored
<1>13. Cancelled => Cancelled' BY DEF Cancelled, Opens, Datas, Closes
<1> QED BY <1>6, <1>7, <1>8, <1>9, <1>10, <1>11, <1>12, <1>13 DEF Stream

-----------------------------------------------------------------------------
(* Over Wi-Fi: what a node does *)

\* A node may have answered.
Said(n, kind) == \/ air' = air
                 \/ /\ air'.out = air.out
                    /\ air'.back = Append(air.back, [k |-> kind, from |-> n])
LEMMA Answered ==
  ASSUME WifiTyped, NEW n \in Wifi!Nodes, NEW kind \in FromNodes, air' \in Wifi!Replied(n, kind)
  PROVE  air' \in [out : Seq(Wifi!Nodes), back : Seq(NodeMessages)] /\ Said(n, kind)
<1> DEFINE m == [k |-> kind, from |-> n]
<1>1. m \in NodeMessages BY DEF NodeMessages
<1>2. air' = air \/ air' = [air EXCEPT !.back = Append(air.back, m)] BY DEF Wifi!Replied
<1> HIDE DEF m
<1>3. Append(air.back, m) \in Seq(NodeMessages) BY <1>1 DEF WifiTyped
<1> QED BY <1>2, <1>3 DEF WifiTyped, Said, m

LEMMA Hears ==
  ASSUME WifiTyped, Wifi!Hear
  PROVE  /\ air' \in [out : Seq(Wifi!Nodes), back : Seq(NodeMessages)] /\ air'.out = Tail(air.out)
         /\ air.out # <<>> /\ board' \in Boarded /\ UNCHANGED resets
         /\ LET n == Head(air.out)
            IN  /\ n \in Wifi!Nodes /\ \A k \in Wifi!Nodes \ {n} : board'[k] = board[k]
                /\ board'[n].fw = board[n].fw /\ board'[n].got = board[n].got
                /\ board'[n].at = board[n].at \/ board'[n].at = "asked"
                /\ \/ air'.back = air.back
                   \/ air'.back = Append(air.back, [k |-> "wifi_start", from |-> n])
<1> DEFINE n == Head(air.out)
           m == [k |-> "wifi_start", from |-> n]
           rest == [air EXCEPT !.out = Tail(air.out)]
<1>1. air.out # <<>> /\ UNCHANGED resets BY DEF Wifi!Hear
<1>a. air \in [out : Seq(Wifi!Nodes), back : Seq(NodeMessages)] BY DEF WifiTyped
<1>2. air.out \in Seq(Wifi!Nodes) /\ air.back \in Seq(NodeMessages) BY <1>a
<1>3. n \in Wifi!Nodes /\ Tail(air.out) \in Seq(Wifi!Nodes) BY <1>1, <1>2, SeqTail
<1>4. Append(air.back, m) \in Seq(NodeMessages)
  <2>1. m \in NodeMessages BY <1>3 DEF NodeMessages, FromNodes
  <2> HIDE DEF m
  <2> QED BY <1>2, <2>1
<1>5. rest.back = air.back BY <1>a
<1>6. \/ board' = [board EXCEPT ![n].at = "asked"]
         /\ (air' = rest \/ air' = [rest EXCEPT !.back = Append(rest.back, m)])
      \/ board' = board /\ air' = rest
  BY DEF Wifi!Hear
<1>7. rest \in [out : Seq(Wifi!Nodes), back : Seq(NodeMessages)] /\ rest.out = Tail(air.out)
  BY <1>a, <1>3
<1> HIDE DEF n, m, rest
<1>8. air' \in [out : Seq(Wifi!Nodes), back : Seq(NodeMessages)] /\ air'.out = Tail(air.out)
      /\ (air'.back = air.back \/ air'.back = Append(air.back, m))
  <2>1. CASE air' = rest BY <2>1, <1>5, <1>7
  <2>2. CASE air' = [rest EXCEPT !.back = Append(rest.back, m)]
    BY <2>2, <1>4, <1>5, <1>7
  <2> QED BY <1>6, <2>1, <2>2
<1>9. CASE board' = [board EXCEPT ![n].at = "asked"]
  <2>1. board \in Boarded BY DEF WifiTyped
  <2>2. /\ board' \in Boarded /\ \A k \in Wifi!Nodes \ {n} : board'[k] = board[k]
        /\ board'[n].fw = board[n].fw /\ board'[n].got = board[n].got /\ board'[n].at = "asked"
    BY <1>3, <1>9, <2>1 DEF Boarded, Seats, Places
  <2> QED BY <1>1, <1>3, <1>8, <2>2 DEF n, m
<1>10. CASE board' = board
  BY <1>1, <1>3, <1>8, <1>10 DEF WifiTyped, n, m
<1> QED BY <1>6, <1>9, <1>10

\* One node moves: it joins, fetches what is served, installs what it fetched,
\* or boots and says so.
LEMMA Moves ==
  ASSUME WifiTyped, NEW n \in Wifi!Nodes, Wifi!Node(n)
  PROVE  /\ board' \in Boarded /\ \A k \in Wifi!Nodes \ {n} : board'[k] = board[k]
         /\ UNCHANGED resets /\ air' \in [out : Seq(Wifi!Nodes), back : Seq(NodeMessages)]
         /\ board[n].at # "on"
         /\ \/ /\ UNCHANGED air
               /\ \/ board'[n].fw = board[n].fw /\ board'[n].got = board[n].got
                     /\ board'[n].at = "joining"
                  \/ board'[n].fw = board[n].fw /\ board'[n].got = 0 /\ board'[n].at = "on"
                  \/ board'[n].fw = board[n].fw /\ board'[n].got = gw.of
                     /\ board'[n].at = "loading" /\ gw.state = "ready"
                  \/ board[n].at = "loading" /\ board'[n].fw = board[n].got
                     /\ board'[n].got = 0 /\ board'[n].at = "booting"
            \/ /\ board[n].at = "booting" /\ Said(n, "done")
               /\ board'[n].fw = board[n].fw /\ board'[n].got = board[n].got
               /\ board'[n].at = "on"
<1>0. /\ board \in Boarded /\ board[n] \in Seats /\ gw.of \in 0..Len(Jobs)
      /\ 0 \in 0..Len(Jobs) /\ air \in [out : Seq(Wifi!Nodes), back : Seq(NodeMessages)]
  BY WifiNumbers DEF WifiTyped, Boarded, Seats
<1>b. ASSUME board' = Wifi!Back(n)
      PROVE  /\ board' \in Boarded /\ \A k \in Wifi!Nodes \ {n} : board'[k] = board[k]
             /\ board'[n].fw = board[n].fw /\ board'[n].got = 0 /\ board'[n].at = "on"
  BY <1>0, <1>b DEF Wifi!Back, Boarded, Seats, Places
<1>2. CASE Wifi!PollWifi(n)
  <2>1. board' = [board EXCEPT ![n].at = "joining", ![n].flag = TRUE]
        /\ board[n].at = "asked" /\ UNCHANGED <<air, resets>>
    BY <1>2 DEF Wifi!PollWifi
  <2>2. /\ board' \in Boarded /\ \A k \in Wifi!Nodes \ {n} : board'[k] = board[k]
        /\ board'[n].fw = board[n].fw /\ board'[n].got = board[n].got /\ board'[n].at = "joining"
    BY <1>0, <2>1 DEF Boarded, Seats, Places
  <2> QED BY <1>0, <2>1, <2>2
<1>3. CASE Wifi!Fetch(n)
  <2>1. board[n].at = "joining" /\ UNCHANGED <<air, resets>> BY <1>3 DEF Wifi!Fetch
  <2>2. CASE board' = Wifi!Back(n) BY <1>0, <1>b, <2>1, <2>2
  <2>3. CASE gw.state = "ready" /\ board' = [board EXCEPT ![n].at = "loading", ![n].got = gw.of]
    <3>1. /\ board' \in Boarded /\ \A k \in Wifi!Nodes \ {n} : board'[k] = board[k]
          /\ board'[n].fw = board[n].fw /\ board'[n].got = gw.of /\ board'[n].at = "loading"
      BY <1>0, <2>3 DEF Boarded, Seats, Places
    <3> QED BY <1>0, <2>1, <2>3, <3>1
  <2> QED BY <1>3, <2>2, <2>3 DEF Wifi!Fetch, Wifi!Served
<1>4. CASE Wifi!Loaded(n)
  <2>1. board[n].at = "loading" /\ UNCHANGED <<air, resets>> BY <1>4 DEF Wifi!Loaded
  <2>2. CASE board' = Wifi!Back(n) BY <1>0, <1>b, <2>1, <2>2
  <2>3. CASE board' = [board EXCEPT ![n].at = "booting", ![n].fw = board[n].got, ![n].got = 0]
    <3>1. /\ board' \in Boarded /\ \A k \in Wifi!Nodes \ {n} : board'[k] = board[k]
          /\ board'[n].fw = board[n].got /\ board'[n].got = 0 /\ board'[n].at = "booting"
      BY <1>0, <2>3 DEF Boarded, Seats, Places
    <3> QED BY <1>0, <2>1, <2>3, <3>1
  <2> QED BY <1>4, <2>2, <2>3 DEF Wifi!Loaded
<1>5. CASE Wifi!Boot(n)
  <2>1. board' = [board EXCEPT ![n].at = "on", ![n].flag = FALSE]
        /\ board[n].at = "booting" /\ UNCHANGED resets /\ air' \in Wifi!Replied(n, "done")
    BY <1>5 DEF Wifi!Boot
  <2>2. /\ board' \in Boarded /\ \A k \in Wifi!Nodes \ {n} : board'[k] = board[k]
        /\ board'[n].fw = board[n].fw /\ board'[n].got = board[n].got /\ board'[n].at = "on"
    BY <1>0, <2>1 DEF Boarded, Seats, Places
  <2>3. air' \in [out : Seq(Wifi!Nodes), back : Seq(NodeMessages)] /\ Said(n, "done")
    BY <2>1, Answered DEF FromNodes
  <2> QED BY <2>1, <2>2, <2>3
<1> QED BY <1>2, <1>3, <1>4, <1>5 DEF Wifi!Node

LEMMA Crashes ==
  ASSUME WifiTyped, NEW n \in Wifi!Nodes, Wifi!Reset(n)
  PROVE  /\ board' \in Boarded /\ resets' = resets + 1
         /\ air' \in [out : Seq(Wifi!Nodes), back : Seq(NodeMessages)]
<1>0. /\ board \in Boarded /\ board[n] \in Seats /\ 0 \in 0..Len(Jobs)
      /\ air \in [out : Seq(Wifi!Nodes), back : Seq(NodeMessages)]
  BY WifiNumbers DEF WifiTyped, Boarded, Seats
<1>3. board' \in Boarded BY <1>0 DEF Wifi!Reset, Wifi!Back, Boarded, Seats, Places
<1>4. air' \in Wifi!Replied(n, "done") \/ air' = air BY DEF Wifi!Reset
<1> QED BY <1>0, <1>3, <1>4, Answered DEF Wifi!Reset, FromNodes

LEMMA Relays ==
  ASSUME WifiTyped, Wifi!Relay
  PROVE  LET m == Head(air.back)
         IN  /\ m \in NodeMessages /\ air.back # <<>> /\ usb' \in Cables
             /\ air' \in [out : Seq(Wifi!Nodes), back : Seq(NodeMessages)]
             /\ air'.out = air.out /\ air'.back = Tail(air.back)
             /\ usb'.out = usb.out /\ usb'.up = usb.up
             /\ usb'.back = (IF usb.up THEN Append(usb.back, m) ELSE usb.back)
             /\ UNCHANGED <<upd, cancel, gw, board, resets>>
<1> DEFINE m == Head(air.back)
<1>1. air \in [out : Seq(Wifi!Nodes), back : Seq(NodeMessages)] /\ air.back # <<>>
      /\ usb \in Cables /\ UNCHANGED <<upd, cancel, gw, board, resets>>
  BY DEF WifiTyped, Wifi!Relay
<1>2. m \in NodeMessages /\ Tail(air.back) \in Seq(NodeMessages) BY <1>1, SeqTail
<1>3. air' = [air EXCEPT !.back = Tail(air.back)]
      /\ usb' = IF usb.up THEN [usb EXCEPT !.back = Append(usb.back, m)] ELSE usb
  BY DEF Wifi!Relay
<1> HIDE DEF m
<1>4. Append(usb.back, m) \in Seq(Messages) BY <1>1, <1>2 DEF Cables, Messages
<1>5. /\ air' \in [out : Seq(Wifi!Nodes), back : Seq(NodeMessages)]
      /\ air'.out = air.out /\ air'.back = Tail(air.back)
  BY <1>1, <1>2, <1>3
<1>6. /\ usb' \in Cables /\ usb'.out = usb.out /\ usb'.up = usb.up
      /\ usb'.back = (IF usb.up THEN Append(usb.back, m) ELSE usb.back)
  BY <1>1, <1>3, <1>4 DEF Cables
<1> QED BY <1>1, <1>2, <1>5, <1>6 DEF m

LEMMA OutsideTyped == ASSUME WifiTyped, Wifi!Outside PROVE WifiTyped'
<1>1. UNCHANGED <<upd, cancel, usb, gw>> BY DEF Wifi!Outside
<1>2. /\ board' \in Boarded /\ resets' \in Nat
      /\ air' \in [out : Seq(Wifi!Nodes), back : Seq(NodeMessages)]
  <2>0. resets \in Nat BY DEF WifiTyped
  <2>1. CASE Wifi!Hear BY <2>0, <2>1, Hears
  <2>2. ASSUME NEW n \in Wifi!Nodes, Wifi!Node(n)
        PROVE  /\ board' \in Boarded /\ resets' \in Nat
               /\ air' \in [out : Seq(Wifi!Nodes), back : Seq(NodeMessages)]
    <3>1. /\ board' \in Boarded /\ resets' = resets
          /\ air' \in [out : Seq(Wifi!Nodes), back : Seq(NodeMessages)]
      BY <2>2, Moves
    <3> QED BY <2>0, <3>1
  <2>3. ASSUME NEW n \in Wifi!Nodes, Wifi!Reset(n)
        PROVE  /\ board' \in Boarded /\ resets' \in Nat
               /\ air' \in [out : Seq(Wifi!Nodes), back : Seq(NodeMessages)]
    BY <2>0, <2>3, Crashes
  <2> QED BY <2>1, <2>2, <2>3 DEF Wifi!Outside
<1> QED BY <1>1, <1>2 DEF WifiTyped

LEMMA UnplugTyped ==
  ASSUME WifiTyped, Wifi!Unplug
  PROVE  /\ WifiTyped' /\ Stream' /\ Whole0' /\ usb'.out = <<>> /\ usb'.back = <<>>
         /\ UNCHANGED <<upd, cancel, air, board, resets>> /\ gw'.state = "none"
<1>1. /\ usb' = [out |-> <<>>, back |-> <<>>, up |-> FALSE] /\ gw' = Wifi!NoStore
      /\ UNCHANGED <<upd, cancel, air, board, resets>>
  BY DEF Wifi!Unplug
<1>2. usb' \in Cables /\ usb'.out = <<>> /\ usb'.back = <<>> /\ ~usb'.up
  BY <1>1 DEF Cables
<1>3. gw' \in [of : 0..Len(Jobs), len : 0..Lines, state : {"none", "filling", "ready"}]
      /\ gw'.state = "none"
  BY <1>1, WifiNumbers DEF Wifi!NoStore
<1> QED BY <1>1, <1>2, <1>3 DEF WifiTyped, Stream, Unplugged, Whole0

\* Without the cable nothing is said any more.
LEMMA StreamUnplugged ==
  ASSUME WifiTyped, Stream, ~usb.up, Wifi!Worker \/ Wifi!Cancel \/ Wifi!Relay \/ Wifi!Outside
  PROVE  Stream'
<1>1. Unplugged BY DEF Stream
<1>2. usb'.out = usb.out /\ usb'.back = usb.back /\ ~usb'.up
  <2>1. ASSUME NEW p \in {"failed", "ok", "stage", "start", "done"}, Wifi!Goto(p)
        PROVE  usb' = usb
    BY <2>1 DEF Wifi!Goto
  <2>2. CASE Wifi!StartJob BY <2>2, Began, Writes
  <2>3. CASE Wifi!StageLine BY <2>3 DEF Wifi!StageLine
  <2>4. ASSUME NEW kind \in {"end", "wifi"}, upd.pc # "idle", usb' = Wifi!Written(Wifi!Line(kind))
        PROVE  usb'.out = usb.out /\ usb'.back = usb.back /\ ~usb'.up
    <3>1. Wifi!Line(kind) \in Outgoing BY <2>4, WifiTarget DEF Outgoing, Wifi!Line
    <3> QED BY <2>4, <3>1, Writes
  <2>5. CASE Wifi!StageEnd \/ Wifi!Ask BY <2>4, <2>5 DEF Wifi!StageEnd, Wifi!Ask
  <2>6. CASE Wifi!GiveUp \/ Wifi!AwaitReady \/ Wifi!AwaitStored \/ Wifi!AwaitStart
             \/ Wifi!AwaitDone \/ Wifi!TimeOut
    BY <2>1, <2>6 DEF Wifi!GiveUp, Wifi!AwaitReady, Wifi!AwaitStored, Wifi!AwaitStart,
                      Wifi!AwaitDone, Wifi!TimeOut
  <2>7. CASE Wifi!Cancel \/ Wifi!Outside BY <2>7 DEF Wifi!Cancel, Wifi!Outside
  <2>8. CASE Wifi!Relay BY <2>8, Relays
  <2> QED BY <2>2, <2>3, <2>5, <2>6, <2>7, <2>8 DEF Wifi!Worker
<1>3. gw' = gw BY Relays DEF Wifi!Worker, Wifi!Cancel, Wifi!Outside
<1> QED BY <1>1, <1>2, <1>3 DEF Stream, Unplugged

Flow == WifiTyped /\ Stream /\ Whole0

LEMMA FlowStep == ASSUME Flow, [Wifi!Next]_wifi PROVE Flow'
<1>0. WifiTyped /\ Stream /\ Whole0 BY DEF Flow
<1>1. CASE Wifi!Worker
  <2>1. WifiTyped' BY <1>0, <1>1, WorkerTyped
  <2>2. Stream' BY <1>0, <1>1, StreamWorker, StreamUnplugged
  <2>3. Whole0' BY <1>0, <1>1 DEF Whole0, Wifi!Worker
  <2> QED BY <2>1, <2>2, <2>3 DEF Flow
<1>2. CASE Wifi!Cancel
  <2>1. cancel' = TRUE /\ UNCHANGED <<upd, usb, gw, air, board, resets>>
    BY <1>2 DEF Wifi!Cancel
  <2>2. WifiTyped' /\ Whole0' BY <1>0, <2>1 DEF WifiTyped, Whole0
  <2>3. CASE usb.up
    <3>2. Settled => Settled' BY <2>1 DEF Settled
    <3>3. Opened \/ Begun \/ Refused => (Opened \/ Begun \/ Refused)'
      BY <2>1 DEF Opened, Begun, Refused, AtReady, Opens
    <3>4. Filling \/ Closing \/ Stored => (Filling \/ Closing \/ Stored)'
      BY <2>1 DEF Filling, Closing, Stored, Datas, Closes, Acked
    <3>5. Cancelled => Cancelled' BY <2>1 DEF Cancelled, Opens, Datas, Closes
    <3> QED BY <1>0, <2>1, <2>2, <2>3, <3>2, <3>3, <3>4, <3>5 DEF Stream, Flow
  <2>4. CASE ~usb.up BY <1>0, <1>2, <2>2, <2>4, StreamUnplugged DEF Flow
  <2> QED BY <2>3, <2>4
<1>3. CASE Wifi!Handle
  <2>1. usb.back # <<>> /\ UNCHANGED gw BY <1>3 DEF Wifi!Handle
  <2>2. usb.up BY <1>0, <2>1 DEF Stream, Unplugged
  <2> QED BY <1>0, <1>3, <2>1, <2>2, HandleTyped, StreamHandle DEF Flow, Whole0
<1>4. CASE Wifi!Gateway BY <1>0, <1>4, StreamGateway DEF Flow
<1>5. CASE Wifi!Relay
  <2>1. WifiTyped' /\ Whole0' BY <1>0, <1>5, Relays DEF WifiTyped, Whole0
  <2>2. CASE usb.up
    <3>1. /\ Head(air.back) \in NodeMessages /\ usb'.up /\ usb'.out = usb.out
          /\ usb'.back = Append(usb.back, Head(air.back)) /\ UNCHANGED <<upd, cancel, gw>>
      BY <1>0, <1>5, <2>2, Relays
    <3> QED BY <1>0, <2>1, <2>2, <3>1, StreamStays DEF Flow
  <2>3. CASE ~usb.up BY <1>0, <1>5, <2>1, <2>3, StreamUnplugged DEF Flow
  <2> QED BY <2>2, <2>3
<1>6. CASE Wifi!Unplug BY <1>0, <1>6, UnplugTyped DEF Flow
<1>7. CASE Wifi!Outside \/ UNCHANGED wifi
  <2>1. UNCHANGED <<upd, cancel, usb, gw>> BY <1>7 DEF Wifi!Outside, wifi
  <2>2. WifiTyped'
    <3>1. CASE Wifi!Outside BY <1>0, <3>1, OutsideTyped
    <3>2. CASE UNCHANGED wifi BY <1>0, <3>2 DEF wifi, WifiTyped
    <3> QED BY <1>7, <3>1, <3>2
  <2>3. Whole0' BY <1>0, <2>1 DEF Whole0
  <2>4. Stream'
    BY <1>0, <2>1 DEF Stream, Unplugged, Settled, Opened, Begun, Refused, Filling, Closing,
                      Stored, Cancelled, AtReady, Opens, Datas, Closes, Acked
  <2> QED BY <2>2, <2>3, <2>4 DEF Flow
<1> QED BY <1>1, <1>2, <1>3, <1>4, <1>5, <1>6, <1>7 DEF Wifi!Next

LEMMA Staged0 == ASSUME Flow PROVE Wifi!StagingSound
<1>1. Wifi!TypeOK BY WifiTypes DEF Flow
<1>2. upd.pc = "stage" /\ usb.up => Filling
  BY DEF Flow, Stream, Settled, Opened, Begun, Refused, Closing, Stored, Cancelled, AtReady
<1>3. Wifi!NeverStalled BY <1>2, Unstalled DEF Flow, Wifi!NeverStalled
<1>4. Wifi!StoreWhole
  <2>1. gw.state = "ready" => gw.len = Lines BY DEF Flow, Whole0
  <2>2. upd.pc = "stage" /\ gw.state # "none" =>
          Cardinality({i \in DOMAIN usb.out : usb.out[i].k = "data"}) + gw.len = upd.sent
    <3> SUFFICES ASSUME upd.pc = "stage", gw.state # "none"
                 PROVE  Cardinality({i \in DOMAIN usb.out : usb.out[i].k = "data"}) + gw.len
                          = upd.sent
      OBVIOUS
    <3>1. Filling BY <1>2 DEF Flow, Stream, Unplugged, Wifi!NoStore
    <3>2. usb.out \in Seq(Outgoing) BY DEF Flow, WifiTyped, Cables
    <3>3. Len(usb.out) \in Nat /\ DOMAIN usb.out = 1..Len(usb.out) BY <3>2
    <3>4. {i \in DOMAIN usb.out : usb.out[i].k = "data"} = 1..Len(usb.out)
      BY <3>1, <3>3 DEF Filling, Datas, All, Flying
    <3>5. \A n \in Nat : Cardinality(1..n) = n
      <4> SUFFICES ASSUME NEW n \in Nat PROVE Cardinality(1..n) = n OBVIOUS
      <4>1. Cardinality(1..n) = IF 1 > n THEN 0 ELSE n - 1 + 1 BY FS_Interval
      <4> QED BY <4>1
    <3>6. Cardinality({i \in DOMAIN usb.out : usb.out[i].k = "data"}) = Len(usb.out)
      BY <3>3, <3>4, <3>5
    <3> QED BY <3>1, <3>6 DEF Filling, Datas
  <2>3. \A S : Wifi!Cardinality(S) = Cardinality(S) BY DEF Wifi!Cardinality, Cardinality
  <2> QED BY <2>1, <2>2, <2>3, Zenon DEF Wifi!StoreWhole
<1> QED BY <1>1, <1>3, <1>4 DEF Wifi!StagingSound

-----------------------------------------------------------------------------
(* Over Wi-Fi: the nodes of a batch, while none of them crashes *)

\* A node whose run is still to come was sent nothing and said nothing.
Untouched(n) ==
  /\ board[n].at = "on" /\ board[n].fw = 0 /\ board[n].got = 0
  /\ \A m \in Flying(usb.out) : m.k = "wifi" => Jobs[m.of] # n
  /\ n \notin Flying(air.out) /\ \A m \in Flying(air.back) : m.from # n
  /\ \A m \in Flying(usb.back) : m.k \in FromNodes => m.from # n

\* The node of run r is given image r only, and says "done" once it runs it.
Given(n, r) ==
  /\ board[n].fw \in {0, r} /\ board[n].got \in {0, r}
  /\ board[n].at = "loading" => board[n].got = r
  /\ board[n].at = "booting" \/ upd.done => board[n].fw = r
  /\ \A m \in Flying(air.back) : m.k = "done" /\ m.from = n => board[n].fw = r
  /\ \A m \in Flying(usb.back) : m.k = "done" /\ m.from = n => board[n].fw = r

Early == {"ready", "stage", "stored"}
Ahead(r) == r > upd.run \/ (r = upd.run /\ upd.pc \in Early)
Called(r) == r = upd.run /\ upd.pc \in Late
Boards == resets = 0 =>
  /\ \A r \in Wifi!Runs : Ahead(r) => Untouched(Jobs[r])
  /\ \A r \in Wifi!Runs : Called(r) => Given(Jobs[r], r)
  /\ upd.pc \in Early => ~upd.done
  /\ upd.pc = "ok" => upd.done

\* What is served while the updater waits for its node is the image of the run.
LEMMA ServesOwn == ASSUME Flow, upd.pc \in Late, gw.state = "ready" PROVE gw.of = upd.run
BY DEF Flow, Stream, Unplugged, Settled, Opened, Begun, Refused, Filling, Closing, Stored,
       Cancelled, AtReady, Late, Wifi!NoStore

LEMMA BoardsSound == ASSUME Flow, Boards PROVE Wifi!BootConfirmed
<1>1. upd.pc = "ok" => upd.run \in Wifi!Runs BY WifiTarget DEF Flow
<1> QED BY <1>1 DEF Boards, Called, Given, Late, Wifi!BootConfirmed, Wifi!Target

LEMMA BoardsStart == Wifi!Init => Boards
<1> SUFFICES ASSUME Wifi!Init PROVE Boards OBVIOUS
<1>1. upd.pc = "idle" /\ usb.out = <<>> /\ usb.back = <<>> /\ air.out = <<>> /\ air.back = <<>>
  BY DEF Wifi!Init, Wifi!Fresh
<1>2. \A r \in Wifi!Runs : Jobs[r] \in Wifi!Nodes BY DEF Wifi!Nodes
<1>3. \A n \in Wifi!Nodes : board[n] = [fw |-> 0, at |-> "on", flag |-> FALSE, got |-> 0]
  BY DEF Wifi!Init
<1> QED BY <1>1, <1>2, <1>3, InEmpty DEF Boards, Called, Untouched, Early, Late

\* The thread moves, and sends at most one line that calls no node ahead.
LEMMA BoardsWorker == ASSUME Flow, Boards, Wifi!Worker PROVE Boards'
<1>0. WifiTyped /\ upd \in Updaters BY DEF Flow, WifiTyped
<1>1. UNCHANGED <<cancel, gw, air, board, resets>> BY DEF Wifi!Worker
<1> SUFFICES ASSUME resets = 0 PROVE Boards' BY <1>1 DEF Boards
<1>2. /\ \A r \in Wifi!Runs : Ahead(r) => Untouched(Jobs[r])
      /\ \A r \in Wifi!Runs : Called(r) => Given(Jobs[r], r)
      /\ upd.pc \in Early => ~upd.done
      /\ upd.pc = "ok" => upd.done
  BY DEF Boards
<1>3. usb.out \in Seq(Outgoing) BY <1>0 DEF WifiTyped, Cables
<1>4. ASSUME NEW line \in Outgoing, usb' = Wifi!Written(line), NEW n, Untouched(n),
             line.k = "wifi" => Jobs[line.of] # n
      PROVE  Untouched(n)'
  <2>1. usb'.back = usb.back /\ (usb'.out = usb.out \/ usb'.out = Append(usb.out, line))
    BY <1>0, <1>4, Writes
  <2>2. Flying(Append(usb.out, line)) = Flying(usb.out) \cup {line}
    BY <1>3, <1>4, SeqAppend
  <2>3. Flying(usb'.out) \subseteq Flying(usb.out) \cup {line} BY <2>1, <2>2
  <2> QED BY <1>1, <1>4, <2>1, <2>3 DEF Untouched
<1>5. ASSUME usb' = usb, NEW n, Untouched(n) PROVE Untouched(n)'
  BY <1>1, <1>5 DEF Untouched
<1>6. CASE Wifi!StartJob
  <2> DEFINE line == [k |-> "begin", of |-> upd.run + 1]
  <2>1. /\ upd'.run = upd.run + 1 /\ upd'.run \in Wifi!Runs /\ upd'.pc \in {"ready", "failed"}
        /\ ~upd'.done /\ line \in Outgoing /\ usb' = Wifi!Written(line)
    BY <1>0, <1>6, Began
  <2>2. line.k = "begin" OBVIOUS
  <2> HIDE DEF line
  <2>3. ASSUME NEW r \in Wifi!Runs, Ahead(r)' PROVE Untouched(Jobs[r])'
    <3>1. Ahead(r)
      <4>1. r >= upd'.run BY <2>1, <2>3, WifiNumbers DEF Ahead, Wifi!Runs
      <4>2. upd.run \in Nat /\ r \in Nat BY <1>0, WifiNumbers DEF Updaters, Wifi!Runs
      <4> QED BY <2>1, <4>1, <4>2 DEF Ahead
    <3> DEFINE n == Jobs[r]
    <3>2. Untouched(n) BY <1>2, <3>1
    <3> HIDE DEF n
    <3>3. Untouched(n)' BY <1>4, <2>1, <2>2, <3>2
    <3> QED BY <3>3 DEF n
  <2> QED BY <2>1, <2>3 DEF Boards, Called, Early, Late
<1>7. ASSUME NEW p \in {"failed", "ok", "stage", "start", "done"}, Wifi!Goto(p),
             upd.pc # "idle", p = "stage" => upd.pc = "ready", p = "start" => upd.pc = "stored",
             p = "done" => upd.pc = "start", p = "ok" => upd.pc = "done" /\ upd.done
      PROVE  Boards'
  <2>1. usb' = usb /\ upd'.pc = p /\ upd'.run = upd.run /\ upd'.done = upd.done
    BY <1>0, <1>7, Gone
  <2>2. ASSUME NEW r \in Wifi!Runs, Ahead(r)' PROVE Untouched(Jobs[r])'
    <3>1. Ahead(r) BY <1>7, <2>1, <2>2 DEF Ahead, Early
    <3> QED BY <1>2, <1>5, <2>1, <3>1
  <2>3. ASSUME NEW r \in Wifi!Runs, Called(r)' PROVE Given(Jobs[r], r)'
    <3>1. CASE p = "start"
      <4>1. Ahead(r) /\ ~upd.done BY <1>2, <1>7, <2>1, <2>3, <3>1 DEF Ahead, Called, Early
      <4>2. Untouched(Jobs[r]) BY <1>2, <4>1
      <4> QED BY <1>1, <2>1, <4>1, <4>2 DEF Untouched, Given, FromNodes
    <3>2. CASE p # "start"
      <4>1. Called(r) BY <1>7, <2>1, <2>3, <3>2 DEF Called, Late
      <4>2. Given(Jobs[r], r) BY <1>2, <4>1
      <4> QED BY <1>1, <2>1, <4>2 DEF Given
    <3> QED BY <3>1, <3>2
  <2>4. /\ upd'.pc \in Early => ~upd'.done
        /\ upd'.pc = "ok" => upd'.done
    BY <1>2, <1>7, <2>1 DEF Early
  <2> QED BY <2>2, <2>3, <2>4 DEF Boards
<1>8. ASSUME NEW kind \in {"data", "end", "wifi"}, upd.pc \in {"stage", "start"},
             usb' = usb \/ usb' = Wifi!Written(Wifi!Line(kind)),
             upd'.run = upd.run, upd'.done = upd.done,
             upd'.pc = upd.pc \/ (upd.pc = "stage" /\ upd'.pc = "stored"),
             kind = "wifi" => upd.pc = "start"
      PROVE  Boards'
  <2>1. upd.run \in Wifi!Runs BY <1>0, <1>8, WifiTarget
  <2> DEFINE line == Wifi!Line(kind)
  <2>2. line \in Outgoing /\ line.k = kind /\ line.of = upd.run
    BY <2>1 DEF Outgoing, Wifi!Line
  <2> HIDE DEF line
  <2>3. ASSUME NEW r \in Wifi!Runs, Ahead(r)' PROVE Untouched(Jobs[r])'
    <3>1. Ahead(r) BY <1>8, <2>3 DEF Ahead, Early
    <3>2. Untouched(Jobs[r]) BY <1>2, <3>1
    <3>3. kind = "wifi" => Jobs[upd.run] # Jobs[r]
      <4>1. kind = "wifi" => r > upd.run BY <1>8, <3>1 DEF Ahead, Early
      <4>2. upd.run \in Nat /\ r \in Nat BY <1>0, WifiNumbers DEF Updaters, Wifi!Runs
      <4>3. kind = "wifi" => r # upd.run BY <4>1, <4>2
      <4> QED BY <2>1, <4>3, WifiNumbers
    <3>4. CASE usb' = usb BY <1>5, <3>2, <3>4
    <3>5. CASE usb' = Wifi!Written(line)
      <4> DEFINE n == Jobs[r]
      <4>1. Untouched(n) /\ (line.k = "wifi" => Jobs[line.of] # n) BY <2>2, <3>2, <3>3
      <4> HIDE DEF n
      <4>2. Untouched(n)' BY <1>4, <2>2, <3>5, <4>1
      <4> QED BY <4>2 DEF n
    <3> QED BY <1>8, <3>4, <3>5 DEF line
  <2>4. usb'.back = usb.back
    <3>1. usb' = usb \/ usb' = Wifi!Written(line) BY <1>8 DEF line
    <3> QED BY <1>0, <2>2, <3>1, Writes
  <2>5. ASSUME NEW r \in Wifi!Runs, Called(r)' PROVE Given(Jobs[r], r)'
    <3>1. Called(r) BY <1>8, <2>5 DEF Called, Late
    <3>2. Given(Jobs[r], r) BY <1>2, <3>1
    <3> QED BY <1>1, <1>8, <2>4, <3>2 DEF Given
  <2> QED BY <1>2, <1>8, <2>3, <2>5 DEF Boards, Early
<1>9. CASE Wifi!StageLine
  <2>1. /\ upd.pc = "stage"
        /\ \/ upd' = [upd EXCEPT !.sent = @ + 1] /\ usb' = Wifi!Written(Wifi!Line("data"))
           \/ upd' = [upd EXCEPT !.error = TRUE] /\ usb' = usb
    BY <1>9 DEF Wifi!StageLine
  <2>2. upd'.run = upd.run /\ upd'.done = upd.done /\ upd'.pc = upd.pc
    BY <1>0, <2>1 DEF Updaters
  <2> QED BY <1>8, <2>1, <2>2
<1>10. CASE Wifi!StageEnd
  <2>1. /\ upd.pc = "stage" /\ upd' = [upd EXCEPT !.pc = "stored", !.stored = FALSE]
        /\ usb' = Wifi!Written(Wifi!Line("end"))
    BY <1>10 DEF Wifi!StageEnd
  <2>2. upd'.run = upd.run /\ upd'.done = upd.done /\ upd'.pc = "stored"
    BY <1>0, <2>1 DEF Updaters
  <2> QED BY <1>8, <2>1, <2>2
<1>11. CASE Wifi!Ask
  <2>1. /\ upd.pc = "start" /\ upd' = [upd EXCEPT !.asks = @ + 1]
        /\ usb' = Wifi!Written(Wifi!Line("wifi"))
    BY <1>11 DEF Wifi!Ask
  <2>2. upd'.run = upd.run /\ upd'.done = upd.done /\ upd'.pc = upd.pc
    BY <1>0, <2>1 DEF Updaters
  <2> QED BY <1>8, <2>1, <2>2
<1>12. CASE Wifi!GiveUp \/ Wifi!TimeOut
  <2>1. Wifi!Goto("failed") /\ upd.pc # "idle"
    BY <1>12 DEF Wifi!GiveUp, Wifi!TimeOut, Wifi!Running, Wifi!Ended
  <2> QED BY <1>7, <2>1
<1>13. CASE Wifi!AwaitReady \/ Wifi!AwaitStored \/ Wifi!AwaitStart \/ Wifi!AwaitDone
  BY <1>7, <1>13 DEF Wifi!AwaitReady, Wifi!AwaitStored, Wifi!AwaitStart, Wifi!AwaitDone
<1> QED BY <1>6, <1>9, <1>10, <1>11, <1>12, <1>13 DEF Wifi!Worker

\* Nodes are told nothing and say nothing here: what keeps Boards.
LEMMA BoardsStay ==
  ASSUME Flow, Boards, upd'.pc = upd.pc, upd'.run = upd.run, resets' = resets, board' = board,
         \A m \in Flying(usb.out)' : m \in Flying(usb.out),
         \A k \in Flying(air.out)' : \/ k \in Flying(air.out)
                                     \/ \E m \in Flying(usb.out) : m.k = "wifi" /\ Jobs[m.of] = k,
         \A m \in Flying(air.back)' : m \in Flying(air.back),
         \A m \in Flying(usb.back)' : \/ m \in Flying(usb.back) \cup Flying(air.back)
                                      \/ m.k \notin FromNodes,
         upd'.done => \/ upd.done
                      \/ /\ upd.pc \notin Wifi!Ended
                         /\ \E m \in Flying(usb.back) : m.k = "done" /\ m.from = Wifi!Target,
         upd.done => upd'.done
  PROVE  Boards'
<1> SUFFICES ASSUME resets = 0 PROVE Boards' BY DEF Boards
<1>1. /\ \A r \in Wifi!Runs : Ahead(r) => Untouched(Jobs[r])
      /\ \A r \in Wifi!Runs : Called(r) => Given(Jobs[r], r)
      /\ upd.pc \in Early => ~upd.done
      /\ upd.pc = "ok" => upd.done
  BY DEF Boards
<1>2. ASSUME NEW r \in Wifi!Runs, Ahead(r)' PROVE Untouched(Jobs[r])'
  <2>1. Ahead(r) BY <1>2 DEF Ahead
  <2>2. Untouched(Jobs[r]) BY <1>1, <2>1
  <2> QED BY <2>2 DEF Untouched
<1>3. ASSUME NEW r \in Wifi!Runs, Called(r)' PROVE Given(Jobs[r], r)'
  <2>1. Called(r) BY <1>3 DEF Called
  <2>2. Given(Jobs[r], r) /\ Wifi!Target = Jobs[r] BY <1>1, <2>1 DEF Called, Wifi!Target
  <2>3. upd'.done => board[Jobs[r]].fw = r BY <2>2 DEF Given
  <2> QED BY <2>2, <2>3 DEF Given, FromNodes
<1>4. upd.pc \in Early => ~upd'.done
  <2> SUFFICES ASSUME upd.pc \in Early PROVE ~upd'.done OBVIOUS
  <2>1. upd.run \in Wifi!Runs /\ Ahead(upd.run)
    BY WifiTarget DEF Flow, Ahead, Early
  <2>2. Untouched(Wifi!Target) BY <1>1, <2>1 DEF Wifi!Target
  <2> QED BY <1>1, <2>2 DEF Untouched, FromNodes
<1> QED BY <1>1, <1>2, <1>3, <1>4 DEF Boards

LEMMA BoardsHandle == ASSUME Flow, Boards, Wifi!Handle PROVE Boards'
<1>0. WifiTyped BY DEF Flow
<1> DEFINE m == Head(usb.back)
<1>1. /\ usb.back # <<>> /\ usb' = [usb EXCEPT !.back = Tail(@)]
      /\ upd' = (IF Wifi!Running THEN Wifi!Noted(m) ELSE upd)
      /\ UNCHANGED <<cancel, gw, air, board, resets>>
  BY DEF Wifi!Handle
<1>2. usb'.out = usb.out /\ usb'.back = Tail(usb.back) /\ m \in Messages
  BY <1>0, <1>1, TakesMessage
<1>3. m \in Flying(usb.back) /\ Flying(usb'.back) \subseteq Flying(usb.back)
  <2>1. usb.back \in Seq(Messages) BY <1>0 DEF WifiTyped, Cables
  <2> QED BY <1>1, <1>2, <2>1, SeqTail
<1> HIDE DEF m
<1>4. /\ upd'.pc = upd.pc /\ upd'.run = upd.run
      /\ upd'.done = \/ upd.done
                     \/ upd.pc \notin Wifi!Ended /\ m.k = "done" /\ m.from = Wifi!Target
  <2>1. CASE Wifi!Running
    <3>1. LET u == Wifi!Noted(m)
          IN  /\ u.pc = upd.pc /\ u.run = upd.run
              /\ u.done = (upd.done \/ (m.k = "done" /\ m.from = Wifi!Target))
      BY <1>0, <1>2, Notes
    <3> QED BY <1>1, <2>1, <3>1 DEF Wifi!Running
  <2>2. CASE ~Wifi!Running
    <3>1. upd.done \in BOOLEAN BY <1>0 DEF WifiTyped, Updaters
    <3> QED BY <1>1, <2>2, <3>1 DEF Wifi!Running
  <2> QED BY <2>1, <2>2
<1> QED BY <1>1, <1>2, <1>3, <1>4, BoardsStay

\* What the gateway adds is no message of a node, and whom it calls was called
\* by the line it takes.
LEMMA BoardsGateway == ASSUME Flow, Boards, Wifi!Gateway PROVE Boards'
<1>0. WifiTyped /\ usb.out # <<>> /\ UNCHANGED <<upd, cancel, board, resets>>
  BY DEF Flow, Wifi!Gateway
<1>a. usb.out \in Seq(Outgoing) /\ usb.back \in Seq(Messages) BY <1>0 DEF WifiTyped, Cables
<1> DEFINE m == Head(usb.out)
<1>1. /\ m \in Flying(usb.out) /\ Flying(Tail(usb.out)) \subseteq Flying(usb.out)
      /\ m \in Outgoing
  BY <1>0, <1>a, SeqTail, TakesLine
<1>2. ASSUME NEW s \in Messages, Wifi!Says(s), s.k \notin FromNodes
      PROVE  /\ Flying(usb'.out) \subseteq Flying(usb.out)
             /\ \A x \in Flying(usb'.back) : x \in Flying(usb.back) \/ x.k \notin FromNodes
  <2>1. usb'.out = Tail(usb.out) /\ usb'.back = Append(usb.back, s)
    BY <1>0, <1>2, SaysLine
  <2>2. Flying(Append(usb.back, s)) = Flying(usb.back) \cup {s} BY <1>a, SeqAppend
  <2> QED BY <1>1, <1>2, <2>1, <2>2
<1>3. ASSUME Wifi!Takes
      PROVE  /\ Flying(usb'.out) \subseteq Flying(usb.out)
             /\ \A x \in Flying(usb'.back) : x \in Flying(usb.back) \/ x.k \notin FromNodes
  BY <1>0, <1>1, <1>3, TakesLine
<1>4. /\ Flying(usb'.out) \subseteq Flying(usb.out)
      /\ \A x \in Flying(usb'.back) : x \in Flying(usb.back) \/ x.k \notin FromNodes
  <2> DEFINE ready == [k |-> "ready"]
             stored == [k |-> "stored"]
             error == [k |-> "store_error"]
  <2>1. /\ ready \in Messages /\ stored \in Messages /\ error \in Messages
        /\ ready.k \notin FromNodes /\ stored.k \notin FromNodes /\ error.k \notin FromNodes
    BY DEF Messages, Kinds, FromNodes
  <2>2. CASE Wifi!StoreBegin(m)
    <3>1. Wifi!Says(ready) \/ Wifi!Says(error) BY <2>2 DEF Wifi!StoreBegin
    <3> HIDE DEF ready, stored, error
    <3> QED BY <1>2, <2>1, <3>1
  <2>3. CASE Wifi!StoreEnd(m)
    <3>1. Wifi!Says(stored) \/ Wifi!Says(error) BY <2>3 DEF Wifi!StoreEnd
    <3> HIDE DEF ready, stored, error
    <3> QED BY <1>2, <2>1, <3>1
  <2>4. CASE Wifi!StoreData(m)
    <3> DEFINE ack == [k |-> "ack", len |-> gw'.len]
    <3>1. Wifi!Takes \/ Wifi!Says(ack) BY <2>4 DEF Wifi!StoreData
    <3>2. ack \in Messages
      <4>1. gw'.len \in 0..Lines
        BY <1>0, <2>4, StreamGateway DEF Flow, WifiTyped
      <4> QED BY <4>1 DEF Messages
    <3>3. ack.k \notin FromNodes BY DEF FromNodes
    <3> HIDE DEF ack
    <3> QED BY <1>2, <1>3, <3>1, <3>2, <3>3
  <2>5. CASE Wifi!Forward(m) BY <1>3, <2>5 DEF Wifi!Forward
  <2> QED BY <2>2, <2>3, <2>4, <2>5 DEF Wifi!Gateway
<1>5. /\ Flying(air'.back) \subseteq Flying(air.back)
      /\ \A k \in Flying(air'.out) : \/ k \in Flying(air.out)
                                     \/ m.k = "wifi" /\ Jobs[m.of] = k
  <2>1. CASE air' = air BY <2>1
  <2>2. CASE m.k = "wifi" /\ air' = [air EXCEPT !.out = Append(@, Jobs[m.of])]
    <3> DEFINE n == Jobs[m.of]
    <3>1. n \in Wifi!Nodes BY <1>1 DEF Outgoing, Wifi!Nodes
    <3>2. air.out \in Seq(Wifi!Nodes) /\ air' = [air EXCEPT !.out = Append(air.out, n)]
      BY <1>0, <2>2 DEF WifiTyped
    <3> HIDE DEF n
    <3>3. air'.out = Append(air.out, n) /\ air'.back = air.back
      BY <1>0, <3>2 DEF WifiTyped
    <3>4. Flying(Append(air.out, n)) = Flying(air.out) \cup {n} BY <3>1, <3>2, SeqAppend
    <3> QED BY <2>2, <3>3, <3>4 DEF n
  <2> QED BY <2>1, <2>2 DEF Wifi!Gateway, Wifi!Forward
<1> HIDE DEF m
<1>6. /\ \A x \in Flying(usb'.out) : x \in Flying(usb.out)
      /\ \A x \in Flying(air'.back) : x \in Flying(air.back)
      /\ \A k \in Flying(air'.out) : \/ k \in Flying(air.out)
                                     \/ \E x \in Flying(usb.out) : x.k = "wifi" /\ Jobs[x.of] = k
      /\ \A x \in Flying(usb'.back) : \/ x \in Flying(usb.back) \cup Flying(air.back)
                                      \/ x.k \notin FromNodes
  BY <1>1, <1>4, <1>5
<1> QED BY <1>0, <1>6, BoardsStay

LEMMA BoardsRelay == ASSUME Flow, Boards, Wifi!Relay PROVE Boards'
<1>0. WifiTyped BY DEF Flow
<1> DEFINE m == Head(air.back)
<1>1. /\ m \in NodeMessages /\ air.back # <<>> /\ air'.out = air.out /\ air'.back = Tail(air.back)
      /\ usb'.out = usb.out /\ usb'.back \in {usb.back, Append(usb.back, m)}
      /\ UNCHANGED <<upd, cancel, gw, board, resets>>
  BY <1>0, Relays
<1>2. /\ usb.back \in Seq(Messages) /\ m \in Messages /\ air.back \in Seq(NodeMessages)
  BY <1>0, <1>1 DEF WifiTyped, Cables, Messages
<1>3. m \in Flying(air.back) /\ Flying(Tail(air.back)) \subseteq Flying(air.back)
  BY <1>1, <1>2, SeqTail
<1> HIDE DEF m
<1>4. Flying(Append(usb.back, m)) = Flying(usb.back) \cup {m} BY <1>2, SeqAppend
<1>5. \A x \in Flying(usb'.back) : x \in Flying(usb.back) \cup Flying(air.back)
  BY <1>1, <1>3, <1>4
<1> QED BY <1>1, <1>3, <1>5, BoardsStay

\* A node that was not called keeps still; one that was moves for its run only.
LEMMA BoardsOutside == ASSUME Flow, Boards, Wifi!Outside PROVE Boards'
<1>0. WifiTyped /\ resets \in Nat BY DEF Flow, WifiTyped
<1>1. UNCHANGED <<upd, cancel, usb, gw>> BY DEF Wifi!Outside
<1>a. air.out \in Seq(Wifi!Nodes) /\ air.back \in Seq(NodeMessages) BY <1>0 DEF WifiTyped
<1>2. ASSUME resets' = resets,
             \A r \in Wifi!Runs : Untouched(Jobs[r]) => Untouched(Jobs[r])',
             \A r \in Wifi!Runs : Called(r) /\ Given(Jobs[r], r) => Given(Jobs[r], r)'
      PROVE  Boards'
  BY <1>1, <1>2 DEF Boards, Ahead, Called
<1>3. \A r \in Wifi!Runs : Jobs[r] \in Wifi!Nodes BY DEF Wifi!Nodes
<1>4. ASSUME NEW k \in Wifi!Nodes, NEW kind \in FromNodes,
             air'.back \in {air.back, Append(air.back, [k |-> kind, from |-> k])}
      PROVE  \A x \in Flying(air'.back) : x \in Flying(air.back) \/ (x.from = k /\ x.k = kind)
  <2> DEFINE m == [k |-> kind, from |-> k]
  <2>1. m \in NodeMessages /\ m.from = k /\ m.k = kind BY DEF NodeMessages
  <2>2. air'.back \in {air.back, Append(air.back, m)} BY <1>4
  <2> HIDE DEF m
  <2>3. Flying(Append(air.back, m)) = Flying(air.back) \cup {m} BY <1>a, <2>1, SeqAppend
  <2> QED BY <2>1, <2>2, <2>3
<1>5. CASE Wifi!Hear
  <2> DEFINE k == Head(air.out)
  <2>1. /\ air'.out = Tail(air.out) /\ air.out # <<>> /\ UNCHANGED resets /\ k \in Wifi!Nodes
        /\ \A n \in Wifi!Nodes \ {k} : board'[n] = board[n]
        /\ board'[k].fw = board[k].fw /\ board'[k].got = board[k].got
        /\ board'[k].at \in {board[k].at, "asked"}
        /\ air'.back \in {air.back, Append(air.back, [k |-> "wifi_start", from |-> k])}
    BY <1>0, <1>5, Hears
  <2>2. k \in Flying(air.out) /\ Flying(air'.out) \subseteq Flying(air.out)
    BY <1>a, <2>1, SeqTail
  <2> HIDE DEF k
  <2>3. \A x \in Flying(air'.back) : x \in Flying(air.back) \/ (x.from = k /\ x.k = "wifi_start")
    BY <1>4, <2>1 DEF FromNodes
  <2>4. ASSUME NEW n \in Wifi!Nodes, Untouched(n) PROVE Untouched(n)'
    <3>1. n # k BY <2>2, <2>4 DEF Untouched
    <3> QED BY <1>1, <2>1, <2>2, <2>3, <2>4, <3>1 DEF Untouched
  <2>5. ASSUME NEW n \in Wifi!Nodes, NEW r, Given(n, r) PROVE Given(n, r)'
    <3>1. board'[n].fw = board[n].fw /\ board'[n].got = board[n].got
          /\ board'[n].at \in {board[n].at, "asked"}
      BY <2>1
    <3> QED BY <1>1, <2>3, <2>5, <3>1 DEF Given
  <2> QED BY <1>2, <1>3, <2>1, <2>4, <2>5
<1>6. ASSUME NEW k \in Wifi!Nodes, Wifi!Node(k) PROVE Boards'
  <2>1. /\ \A n \in Wifi!Nodes \ {k} : board'[n] = board[n]
        /\ UNCHANGED resets /\ board[k].at # "on"
        /\ \/ UNCHANGED air
           \/ board[k].at = "booting" /\ Said(k, "done")
    BY <1>0, <1>6, Moves
  <2>2. /\ Flying(air'.out) = Flying(air.out)
        /\ \A x \in Flying(air'.back) : \/ x \in Flying(air.back)
                                        \/ x.from = k /\ board[k].at = "booting"
    <3>1. CASE air' = air BY <3>1
    <3>2. CASE board[k].at = "booting" /\ Said(k, "done") /\ air' # air
      <4>1. air'.out = air.out /\ air'.back = Append(air.back, [k |-> "done", from |-> k])
        BY <3>2 DEF Said
      <4> QED BY <1>4, <3>2, <4>1 DEF FromNodes
    <3> QED BY <2>1, <3>1, <3>2
  <2>3. ASSUME NEW n \in Wifi!Nodes, Untouched(n) PROVE Untouched(n)'
    <3>1. n # k BY <2>1, <2>3 DEF Untouched
    <3> QED BY <1>1, <2>1, <2>2, <2>3, <3>1 DEF Untouched
  <2>4. ASSUME NEW r \in Wifi!Runs, Called(r), Given(Jobs[r], r) PROVE Given(Jobs[r], r)'
    <3> DEFINE n == Jobs[r]
    <3>1. n \in Wifi!Nodes /\ Given(n, r) BY <1>3, <2>4
    <3>2. gw.state = "ready" => gw.of = r BY <2>4, ServesOwn DEF Called
    <3>3. SUFFICES Given(n, r)' OBVIOUS
    <3> HIDE DEF n
    <3>4. CASE n # k BY <1>1, <2>1, <2>2, <3>1, <3>4 DEF Given
    <3>5. CASE n = k
      <4>1. \/ /\ UNCHANGED air
               /\ \/ board'[n].fw = board[n].fw /\ board'[n].got = board[n].got
                     /\ board'[n].at = "joining"
                  \/ board'[n].fw = board[n].fw /\ board'[n].got = 0 /\ board'[n].at = "on"
                  \/ board'[n].fw = board[n].fw /\ board'[n].got = gw.of
                     /\ board'[n].at = "loading" /\ gw.state = "ready"
                  \/ board[n].at = "loading" /\ board'[n].fw = board[n].got
                     /\ board'[n].got = 0 /\ board'[n].at = "booting"
            \/ /\ board[n].at = "booting"
               /\ board'[n].fw = board[n].fw /\ board'[n].got = board[n].got
               /\ board'[n].at = "on"
        BY <1>0, <1>6, <3>5, Moves
      <4>2. /\ board'[n].fw \in {0, r} /\ board'[n].got \in {0, r}
            /\ board'[n].at = "loading" => board'[n].got = r
            /\ board'[n].at = "booting" => board'[n].fw = r
            /\ board[n].fw = r => board'[n].fw = r
            /\ board[n].at = "booting" => board'[n].fw = r
        BY <3>1, <3>2, <4>1 DEF Given
      <4> QED BY <1>1, <2>2, <3>1, <3>5, <4>2 DEF Given
    <3> QED BY <3>4, <3>5
  <2> QED BY <1>2, <1>3, <2>1, <2>3, <2>4
<1>7. ASSUME NEW n \in Wifi!Nodes, Wifi!Reset(n) PROVE Boards'
  <2>1. resets' # 0 BY <1>0, <1>7 DEF Wifi!Reset
  <2> QED BY <2>1 DEF Boards
<1> QED BY <1>5, <1>6, <1>7 DEF Wifi!Outside

LEMMA BoardsStep == ASSUME Flow, Boards, [Wifi!Next]_wifi PROVE Boards'
<1>1. CASE Wifi!Cancel BY <1>1, BoardsStay DEF Wifi!Cancel
<1>2. CASE UNCHANGED wifi BY <1>2, BoardsStay DEF wifi
<1>3. CASE Wifi!Unplug
  <2>1. WifiTyped /\ usb'.out = <<>> /\ usb'.back = <<>>
        /\ UNCHANGED <<upd, cancel, air, board, resets>>
    BY <1>3, UnplugTyped DEF Flow
  <2>2. Flying(usb'.out) = {} /\ Flying(usb'.back) = {} BY <2>1, InEmpty
  <2> QED BY <2>1, <2>2, BoardsStay
<1> QED
  BY <1>1, <1>2, <1>3, BoardsWorker, BoardsHandle, BoardsGateway, BoardsRelay, BoardsOutside
  DEF Wifi!Next

-----------------------------------------------------------------------------
(* All three *)

UpdatesInv == OtaInv /\ Flow /\ Boards /\ AppInv

LEMMA UpdatesStart == UpdatesInit => UpdatesInv
BY OtaStarts, StreamStarts, BoardsStart, AppStarts DEF UpdatesInit, UpdatesInv, Flow

\* Whichever transport is in use, the others stand still.
LEMMA UpdatesStep ==
  ASSUME UpdatesInv, [UpdatesNext]_<<transport, vars, wifi, host>> PROVE UpdatesInv'
<1>1. OtaInv /\ Flow /\ Boards /\ AppInv BY DEF UpdatesInv
<1>2. [Next]_vars BY DEF UpdatesNext
<1>3. [Wifi!Next]_wifi BY DEF UpdatesNext
<1>4. [App!Next]_host BY DEF UpdatesNext
<1>5. OtaInv' BY <1>1, <1>2, OtaStep
<1>6. Flow' /\ Boards' BY <1>1, <1>3, FlowStep, BoardsStep
<1>7. AppInv' BY <1>1, <1>4, AppStep
<1> QED BY <1>5, <1>6, <1>7 DEF UpdatesInv

LEMMA UpdatesSafe == ASSUME UpdatesInv PROVE UpdateSound /\ BootedAsReported
<1>1. OtaInv /\ Flow /\ Boards /\ AppInv BY DEF UpdatesInv
<1>2. TransferSound /\ BootConfirmed BY <1>1, OtaSound
<1>3. Wifi!StagingSound /\ Wifi!BootConfirmed BY <1>1, Staged0, BoardsSound
<1>4. App!SwapSound /\ App!BootConfirmed BY <1>1, AppTypes DEF AppInv, App!SwapSound
<1> QED BY <1>2, <1>3, <1>4 DEF UpdateSound, BootedAsReported

\* No sender runs ahead of its receiver, over the radio or over USB: the window
\* of NodeOTAUpdater claims no chunk the node has yet to write, no line of an
\* image is lost in the gateway's buffer and its acknowledgements never dry up;
\* and what is installed on the PC is a whole program, or parked beside its place,
\* unless two things failed of one update.  For images, windows, batches and
\* numbers of faults of any size.
THEOREM UpdatesCorrect == UpdatesSpec => []UpdateSound
<1>1. UpdatesInit => UpdatesInv BY UpdatesStart
<1>2. UpdatesInv /\ [UpdatesNext]_<<transport, vars, wifi, host>> => UpdatesInv' BY UpdatesStep
<1>3. UpdatesInv => UpdateSound BY UpdatesSafe
<1> QED BY <1>1, <1>2, <1>3, PTL DEF UpdatesSpec

\* What is reported complete runs: the node of an ESP-NOW or Wi-Fi run, the new
\* program after its script, unless flash, power or a crash came in between.
THEOREM BootedCorrect == UpdatesSpec => []BootedAsReported
<1>1. UpdatesInit => UpdatesInv BY UpdatesStart
<1>2. UpdatesInv /\ [UpdatesNext]_<<transport, vars, wifi, host>> => UpdatesInv' BY UpdatesStep
<1>3. UpdatesInv => BootedAsReported BY UpdatesSafe
<1> QED BY <1>1, <1>2, <1>3, PTL DEF UpdatesSpec
=============================================================================

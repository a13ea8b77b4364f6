----------------------------- MODULE FileTools -----------------------------
(***************************************************************************)
(* The tools that change files (internal/tools: write, edit, apply_patch)  *)
(* and the path jail they work in (internal/policy, jailfile.go).  Calls   *)
(* of one engine, or of several with one policy, change the file w/d/f,    *)
(* where w is the workspace, while somebody else makes the directory w/d a *)
(* link to a directory out of w, the disk fills up, or the process dies.   *)
(*                                                                         *)
(* A path is the sequence of its names.  A file is two lines, one that is  *)
(* torn is one line.  The lines are told apart, not spelled out: a call    *)
(* writes lines that are its name.                                         *)
(*                                                                         *)
(* An operator whose comment starts with "Fault:" is a wrong version of    *)
(* the definition below it, used to see that a property notices.           *)
(***************************************************************************)
EXTENDS Integers, SequencesExt

CONSTANTS
    Calls,        \* the calls
    Tool,         \* [Calls -> {"write", "edit", "apply_patch"}]
    Line,         \* [Calls -> 1..2]: the line an edit or a patch is about
    Policies,     \* the policies a host may have set
    Kernels,      \* whether openat2 serves the opens, \subseteq BOOLEAN
    MaxSwaps,     \* bound: changes of what w/d is
    MaxFaults     \* bound: failures of the disk, and deaths of the process

\* Directories are named by sequences of names.
ASSUME PoliciesAssumption == \A p \in Policies : p.extra \cup p.extraRO \subseteq Seq(STRING)

\* The three tools that change files.
ASSUME ToolAssumption == \A c \in Calls : Tool[c] \in {"write", "edit", "apply_patch"}

\* The line of an edit is one of the two; no call has the name of an original line.
ASSUME LineAssumption == \A c \in Calls : Line[c] \in 1..2 /\ c \notin {"o1", "o2"}

VARIABLES
    policy,    \* [allowWrite, readOnly, extra, extraRO, writable]
    kernel,    \* openat2 is there
    link,      \* the directory w/d leads to, or Missing
    file,      \* by directory: [there, text]
    call,      \* by call: [pc, dir, text, handle, result]
    temps,     \* calls whose temporary file is in the directory of their handle
    inPlace,   \* calls that were refused a temporary file
    swaps, faults

vars == <<policy, kernel, link, file, call, temps, inPlace, swaps, faults>>

W == <<"w">>             \* the workspace
WD == <<"w", "d">>       \* a directory in it
E == <<"e">>             \* a directory a host may add to the jail
O == <<"e", "o">>        \* a directory in that one
Dirs == {WD, E, O}
Missing == <<>>
Original == <<"o1", "o2">>

Idle == [pc |-> "start", dir |-> Missing, text |-> Original, handle |-> Missing, result |-> ""]

Init ==
    /\ policy \in Policies /\ kernel \in Kernels
    /\ link \in Dirs \cup {Missing}
    /\ \E text \in {Original, <<"o1", "o1">>} :
          file = [x \in Dirs |-> [there |-> x = WD => link # Missing, text |-> text]]
    /\ call = [c \in Calls |-> Idle]
    /\ temps = {} /\ inPlace = {} /\ swaps = 0 /\ faults = 0

(***************************************************************************)
(* The jail: what a path may be used for                                   *)
(***************************************************************************)

\* Fault: a root that is listed twice is as its first entry says.
FirstWins(r) == (policy.readOnly /\ r \notin policy.writable) \/ r \in policy.extraRO \ ({W} \cup policy.extra)

\* A root is read-only if one of its entries is.
IsReadOnly(r) == (policy.readOnly /\ r \notin policy.writable) \/ r \in policy.extraRO

JailRoots == {W} \cup policy.extra \cup policy.extraRO

\* The root a path is beneath is the longest.
Beneath(path) ==
    {r \in JailRoots : /\ IsPrefix(r, path)
                       /\ \A q \in JailRoots : IsPrefix(q, path) => Len(q) <= Len(r)}

Permitted(path, write) == \E r \in Beneath(path) : write => ~IsReadOnly(r)

\* Where a path leads now, and what ResolvePathFor makes of the path of the
\* file: a directory that is not there yet is its own name.
Leads(dir) == IF dir = WD THEN link ELSE dir
Resolved(dir) == IF Leads(dir) = Missing THEN dir ELSE Leads(dir)

\* What an open of a resolved path reaches.  A path that leads elsewhere by
\* now leads out of its root, and is refused by the kernel; without openat2
\* the descriptor is checked.
Opened(dir, write) ==
    {x \in {Leads(dir)} \ {Missing} : (x = dir \/ ~kernel) /\ Permitted(x, write)}

(***************************************************************************)
(* What a tool makes of the text it has read                               *)
(***************************************************************************)

\* The places of the line an edit or a patch is about.
Places(c, text) == {i \in DOMAIN text : text[i] = Original[Line[c]]}

\* The old text of an edit must be there once.
Edited(c, text) == {ReplaceAt(text, i, c) : i \in {j \in Places(c, text) : Places(c, text) = {j}}}

\* The old text of a hunk must be where the hunk says.
Patched(c, text) == {ReplaceAt(text, i, c) : i \in Places(c, text) \cap {Line[c]}}

Texts(c, text) ==
    CASE Tool[c] = "write" -> {<<c, c>>}
      [] Tool[c] = "edit" -> Edited(c, text)
      [] Tool[c] = "apply_patch" -> Patched(c, text)

\* Only write makes a file that is not there.
Created(c) == {t \in {<<c, c>>} : Tool[c] = "write"}

At(c, pc) == call[c].pc = pc
Goes(c, pc) == call' = [call EXCEPT ![c].pc = pc]
Ends(c, result) == call' = [call EXCEPT ![c] = [Idle EXCEPT !.pc = "done", !.result = result]]
Same == UNCHANGED <<policy, kernel>>

(***************************************************************************)
(* Exec, first half: the policy of the tool and the file as it is          *)
(***************************************************************************)

\* AllowTool of the three tools.
Allowed == policy.allowWrite

Resolve(c) ==
    /\ At(c, "start")
    /\ IF Allowed /\ Permitted(Resolved(WD), FALSE)
       THEN call' = [call EXCEPT ![c].pc = "read", ![c].dir = Resolved(WD)]
       ELSE Ends(c, "error")
    /\ UNCHANGED <<link, file, temps, inPlace, swaps, faults>> /\ Same

Read(c) ==
    /\ At(c, "read")
    /\ LET dir == call[c].dir
           reached == {x \in Opened(dir, FALSE) : file[x].there}
           missing == Leads(dir) = Missing \/ \E x \in Opened(dir, FALSE) : ~file[x].there
           texts == IF missing THEN Created(c)
                    ELSE UNION {Texts(c, file[x].text) : x \in reached}
       IN \/ texts = {} /\ Ends(c, "error")
          \/ \E t \in texts : call' = [call EXCEPT ![c].pc = "target", ![c].text = t]
    /\ UNCHANGED <<link, file, temps, inPlace, swaps, faults>> /\ Same

(***************************************************************************)
(* WriteFileJailed                                                         *)
(***************************************************************************)

Target(c) ==
    /\ At(c, "target")
    /\ IF Permitted(Resolved(WD), TRUE)
       THEN call' = [call EXCEPT ![c].pc = "mkdir", ![c].dir = Resolved(WD)]
       ELSE Ends(c, "error")
    /\ UNCHANGED <<link, file, temps, inPlace, swaps, faults>> /\ Same

\* A directory that is missing is made; one that is a link by now must lead
\* to where files may be written.
MkdirAll(c) ==
    /\ At(c, "mkdir")
    /\ link' = IF Leads(call[c].dir) = Missing THEN WD ELSE link
    /\ IF Permitted(Leads(call[c].dir), TRUE) \/ link' # link THEN Goes(c, "parent") ELSE Ends(c, "error")
    /\ UNCHANGED <<file, temps, inPlace, swaps, faults>> /\ Same

\* Fault: the parent is taken as it is found.
Unverified(x) == TRUE

\* VerifyFDInJailFor of the parent.
Verified(x) == Permitted(x, TRUE)

\* The parent is pinned before anything is created in it.
OpenParent(c) ==
    /\ At(c, "parent")
    /\ LET x == Leads(call[c].dir)
       IN IF x # Missing /\ Verified(x)
          THEN call' = [call EXCEPT ![c].pc = "temp", ![c].handle = x]
          ELSE Ends(c, "error")
    /\ UNCHANGED <<link, file, temps, inPlace, swaps, faults>> /\ Same

CreateTemp(c) ==
    /\ At(c, "temp")
    /\ temps' = temps \cup {c} /\ Goes(c, "write")
    /\ UNCHANGED <<link, file, inPlace, swaps, faults>> /\ Same

\* A directory where none can be created: the file itself is written.
TempRefused(c) ==
    /\ At(c, "temp") /\ faults < MaxFaults
    /\ faults' = faults + 1 /\ inPlace' = inPlace \cup {c}
    /\ Goes(c, "again")
    /\ UNCHANGED <<link, file, temps, swaps>> /\ Same

\* Fault: a failed write is tried again in place.
FallBack(c) == Goes(c, "again") /\ temps' = temps \ {c}

\* The deferred removal.
Failed(c) == Ends(c, "error") /\ temps' = temps \ {c}

WriteTemp(c) ==
    /\ At(c, "write")
    /\ Goes(c, "sync")
    /\ UNCHANGED <<link, file, temps, inPlace, swaps, faults>> /\ Same

\* The write, the change of the mode, or the sync fails.
DiskFails(c) ==
    /\ call[c].pc \in {"write", "sync"} /\ faults < MaxFaults
    /\ faults' = faults + 1 /\ Failed(c)
    /\ UNCHANGED <<link, file, inPlace, swaps>> /\ Same

Whole(c) == [there |-> TRUE, text |-> call[c].text]

SyncAndRename(c) ==
    /\ At(c, "sync")
    /\ file' = [file EXCEPT ![call[c].handle] = Whole(c)]
    /\ temps' = temps \ {c} /\ Ends(c, "ok")
    /\ UNCHANGED <<link, inPlace, swaps, faults>> /\ Same

\* writeInPlaceJailed resolves the path once more.
Again(c) ==
    /\ At(c, "again")
    /\ LET dir == Resolved(call[c].dir)
       IN IF Permitted(dir, TRUE)
          THEN call' = [call EXCEPT ![c].pc = "open", ![c].dir = dir]
          ELSE Ends(c, "error")
    /\ UNCHANGED <<link, file, temps, inPlace, swaps, faults>> /\ Same

\* OpenJailedPathFor: the file is emptied once it is verified.
Truncate(c) ==
    /\ At(c, "open")
    /\ \/ Opened(call[c].dir, TRUE) = {} /\ Ends(c, "error") /\ UNCHANGED file
       \/ \E x \in Opened(call[c].dir, TRUE) :
             /\ file' = [file EXCEPT ![x] = [there |-> TRUE, text |-> <<c>>]]
             /\ call' = [call EXCEPT ![c].pc = "fill", ![c].handle = x]
    /\ UNCHANGED <<link, temps, inPlace, swaps, faults>> /\ Same

Fill(c) ==
    /\ At(c, "fill")
    /\ file' = [file EXCEPT ![call[c].handle] = Whole(c)]
    /\ Ends(c, "ok")
    /\ UNCHANGED <<link, temps, inPlace, swaps, faults>> /\ Same

FillFails(c) ==
    /\ At(c, "fill") /\ faults < MaxFaults
    /\ faults' = faults + 1 /\ Ends(c, "error")
    /\ UNCHANGED <<link, file, temps, inPlace, swaps>> /\ Same

(***************************************************************************)
(* What happens around the tools                                           *)
(***************************************************************************)

\* Somebody replaces the directory by a link, or the link by a directory.
Swap ==
    /\ swaps < MaxSwaps /\ link # Missing
    /\ swaps' = swaps + 1
    /\ \E x \in Dirs \ {link} : link' = x
    /\ UNCHANGED <<file, call, temps, inPlace, faults>> /\ Same

Working(c) == call[c].pc \notin {"start", "done", "dead"}

\* The process dies: its calls end where they are.
Crash ==
    /\ faults < MaxFaults /\ \E c \in Calls : Working(c)
    /\ faults' = faults + 1
    /\ call' = [c \in Calls |-> IF Working(c) THEN [Idle EXCEPT !.pc = "dead"] ELSE call[c]]
    /\ UNCHANGED <<link, file, temps, inPlace, swaps>> /\ Same

Step(c) ==
    \/ Resolve(c) \/ Read(c) \/ Target(c) \/ MkdirAll(c) \/ OpenParent(c)
    \/ CreateTemp(c) \/ TempRefused(c) \/ WriteTemp(c) \/ DiskFails(c) \/ SyncAndRename(c)
    \/ Again(c) \/ Truncate(c) \/ Fill(c) \/ FillFails(c)

Next == Swap \/ Crash \/ \E c \in Calls : Step(c)

Spec == Init /\ [][Next]_vars

(***************************************************************************)
(* What the tools owe                                                      *)
(***************************************************************************)

\* A change is all or nothing (WriteFileJailed: "The write is atomic where it
\* can be"): only a call that could not make a temporary file tears a file, or
\* leaves a line in one though it failed or died; and no call that has ended
\* leaves its temporary file behind, unless it died.
AllOrNothing ==
    /\ \A c \in temps : Working(c) \/ At(c, "dead")
    /\ \A x \in Dirs, c \in Calls \ inPlace :
        /\ file[x].text # <<c>>
        /\ call[c].result = "error" \/ At(c, "dead") => \A i \in DOMAIN file[x].text : file[x].text[i] # c

\* What the host has said of a directory: it may be changed if a root it is
\* in is writable, and every read-only one it is in is shorter than that.
Granted(x) ==
    LET entries == {W} \cup policy.extra
        closed == policy.extraRO \cup IF policy.readOnly THEN entries \ policy.writable ELSE {}
    IN \E r \in entries \ closed :
          IsPrefix(r, x) /\ \A q \in closed : IsPrefix(q, x) => Len(q) < Len(r)

\* No file changes that the host has not granted, however w/d moves while the
\* calls are at work (openJailed: "a symlink swap between resolve and open
\* cannot leak or write outside the jail").
OnlyGranted == [][\A x \in Dirs : ~(Allowed /\ Granted(x)) => file'[x] = file[x]]_vars
=============================================================================

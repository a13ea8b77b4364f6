--------------------------- MODULE FileToolsProofs ---------------------------
(***************************************************************************)
(* No file changes that the host has not granted, and a change is all or   *)
(* nothing: for any calls, policies, moves of the directory and failures.  *)
(*                                                                         *)
(* For the first, JailInv says what a call has made sure of when it comes  *)
(* to change a file: the directory it holds may be written (Pinned), and   *)
(* the host lets it write at all (AllowedToWork).  What is left is of the  *)
(* jail alone: the rule it decides by, the longest root, gives nothing the *)
(* host has not granted (JailGrants).  For the second, TextInv follows the *)
(* line of a call: through its own text, the files, and the texts of the   *)
(* calls that have read them.                                              *)
(*                                                                         *)
(* Engines and their extensions (SetupInv): whose generation it is, who    *)
(* counts it (Counted), and that every server running is in a slot or an   *)
(* orphan of a generation somebody will release (AllFound, SlotsKept).     *)
(* Background processes (ProcInv): an engine that is alone with its ids    *)
(* finds each of its processes in a pid file that a cleanup or a stop has  *)
(* before it (Recorded).  The configuration (ConfInv): what provider and   *)
(* environment make of the settings that are the user's depends on these   *)
(* alone (EffectiveDepends) and is the same the second time                *)
(* (EffectiveAgain), so the pass after the project's file moves nothing.   *)
(***************************************************************************)
EXTENDS ToolsMC, FiniteSetTheorems, SequenceTheorems, TLAPS

(* Names are strings; that these are is said for the provers.              *)
Names == STRING \cup {"w", "d", "e", "o"}

Holding == {"temp", "write", "sync", "fill"}
Resting == {"start", "done", "dead"}

Lines == Calls \cup {"o1", "o2"}
Handles == Dirs \cup {Missing}

Labels ==
    {"start", "read", "target", "mkdir", "parent", "temp", "write", "sync", "again", "open",
     "fill", "done", "dead"}
Results == {"", "ok", "error"}

CallType == [pc : Labels, dir : Handles, text : Seq(Lines), handle : Handles, result : Results]

TypeOK ==
    /\ policy \in Policies
    /\ link \in Handles
    /\ file = [x \in Dirs |-> file[x]]
    /\ \A x \in Dirs : file[x].text \in Seq(Lines)
    /\ call \in [Calls -> CallType]

Pinned == \A c \in Calls : call[c].pc \in Holding => Permitted(call[c].handle, TRUE)

AllowedToWork == \A c \in Calls : call[c].pc \notin Resting => Allowed

JailInv == TypeOK /\ Pinned /\ AllowedToWork

-----------------------------------------------------------------------------
(* The jail                                                                *)

(* Of two roots above a path the longer one is another.                    *)
LEMMA SamePrefix ==
    ASSUME NEW x \in Seq(Names), NEW q \in Seq(Names), NEW r \in Seq(Names),
           IsPrefix(q, x), IsPrefix(r, x), Len(q) = Len(r)
    PROVE  q = r
<1>1. SubSeq(q, 1, Len(q)) = SubSeq(r, 1, Len(r))
  BY DEF IsPrefix
<1>2. SubSeq(q, 1, Len(q)) = q /\ SubSeq(r, 1, Len(r)) = r
  BY SubSeqFull
<1>3. QED
  BY <1>1, <1>2

LEMMA RootsAreSeqs == ASSUME policy \in Policies PROVE JailRoots \subseteq Seq(Names)
<1>1. W \in Seq(Names)
  BY DEF W, Names
<1>2. Seq(STRING) \subseteq Seq(Names)
  BY DEF Names
<1>3. QED
  BY <1>1, <1>2, PoliciesAssumption DEF JailRoots

(* A path that may be written by the rule of the longest root is in a      *)
(* directory the host has granted (policy.go, the root that is read-only   *)
(* if one of its entries is).                                              *)
LEMMA JailGrants ==
    ASSUME policy \in Policies, NEW x \in Seq(Names), Permitted(x, TRUE)
    PROVE  Granted(x)
<1> DEFINE entries == {W} \cup policy.extra
           closed == policy.extraRO \cup IF policy.readOnly THEN entries \ policy.writable ELSE {}
<1>1. PICK r \in Beneath(x) : ~IsReadOnly(r)
  BY DEF Permitted
<1>2. /\ r \in JailRoots /\ IsPrefix(r, x)
      /\ \A q \in JailRoots : IsPrefix(q, x) => Len(q) <= Len(r)
  BY DEF Beneath
<1>3. r \in entries \ closed
  BY <1>1, <1>2 DEF IsReadOnly, JailRoots
<1>4. closed \subseteq JailRoots
  BY DEF JailRoots
<1>5. ASSUME NEW q \in closed, IsPrefix(q, x) PROVE Len(q) < Len(r)
  <2>1. q \in Seq(Names) /\ r \in Seq(Names)
    BY <1>2, <1>4, RootsAreSeqs
  <2>2. Len(q) \in Nat /\ Len(r) \in Nat
    BY <2>1, LenProperties
  <2>3. Len(q) <= Len(r)
    BY <1>2, <1>4, <1>5
  <2>4. q # r
    BY <1>3
  <2>5. Len(q) # Len(r)
    BY <1>2, <1>5, <2>1, <2>4, SamePrefix
  <2>6. QED
    BY <2>2, <2>3, <2>5
<1>6. QED
  BY <1>2, <1>3, <1>5 DEF Granted

-----------------------------------------------------------------------------
(* The calls                                                               *)

LEMMA JailInvInit == ASSUME Init PROVE JailInv
<1>1. TypeOK
  <2>1. Original \in Seq(Lines) /\ <<"o1", "o1">> \in Seq(Lines)
    BY DEF Original, Lines
  <2>2. Missing \in Handles /\ "start" \in Labels /\ "" \in Results
    BY DEF Handles, Labels, Results
  <2>3. Idle \in CallType
    BY <2>1, <2>2 DEF Idle, CallType
  <2>4. PICK text \in {Original, <<"o1", "o1">>} :
               file = [x \in Dirs |-> [there |-> x = WD => link # Missing, text |-> text]]
    BY DEF Init
  <2>5. \A x \in Dirs : file[x].text = text
    BY <2>4
  <2>6. file = [x \in Dirs |-> file[x]]
    BY <2>4, Zenon
  <2>7. QED
    BY <2>1, <2>3, <2>5, <2>6 DEF Init, TypeOK, Handles
<1>2. \A c \in Calls : call[c].pc = "start"
  BY DEF Init, Idle
<1>3. QED
  BY <1>1, <1>2 DEF JailInv, Pinned, AllowedToWork, Holding, Resting

(* A call goes on as r, which has made sure of what r is about to do.      *)
LEMMA OneCallMoves ==
    ASSUME JailInv, Same, NEW c \in Calls, NEW r \in CallType,
           call' = [call EXCEPT ![c] = r], TypeOK',
           r.pc \in Holding => Permitted(r.handle, TRUE),
           r.pc \notin Resting => Allowed
    PROVE  JailInv'
<1>1. ASSUME NEW d \in Calls PROVE call'[d] = IF d = c THEN r ELSE call[d]
  BY DEF JailInv, TypeOK
<1>2. policy' = policy
  BY DEF Same
<1>3. Pinned'
  <2>1. ASSUME NEW d \in Calls, call'[d].pc \in Holding PROVE Permitted(call'[d].handle, TRUE)
    BY <1>1, <2>1 DEF JailInv, Pinned
  <2>2. QED
    BY <1>2, <2>1 DEF Pinned, Holding, Permitted, Beneath, JailRoots, IsReadOnly
<1>4. AllowedToWork'
  BY <1>1, <1>2 DEF JailInv, AllowedToWork, Allowed, Resting
<1>5. QED
  BY <1>3, <1>4 DEF JailInv

(***************************************************************************)
(* The types                                                               *)
(***************************************************************************)

LEMMA TextsAreLines ==
    ASSUME NEW c \in Calls, NEW text \in Seq(Lines), NEW t \in Texts(c, text)
    PROVE  t \in Seq(Lines)
<1>1. <<c, c>> \in Seq(Lines)
  BY DEF Lines
<1>2. ASSUME NEW i \in DOMAIN text PROVE ReplaceAt(text, i, c) \in Seq(Lines)
  BY DEF ReplaceAt, Lines
<1>3. Edited(c, text) \subseteq Seq(Lines)
  BY <1>2 DEF Edited, Places
<1>4. Patched(c, text) \subseteq Seq(Lines)
  BY <1>2 DEF Patched, Places
<1>5. QED
  BY <1>1, <1>3, <1>4, ToolAssumption DEF Texts

(* What a call may become.                                                 *)
LEMMA EndsIsCall ==
    ASSUME TypeOK, NEW c \in Calls, NEW result \in Results, Ends(c, result)
    PROVE  /\ call' \in [Calls -> CallType]
           /\ \A d \in Calls : call'[d] = IF d = c THEN [Idle EXCEPT !.pc = "done", !.result = result]
                                                   ELSE call[d]
           /\ call'[c].pc = "done"
<1>1. Original \in Seq(Lines)
  BY DEF Original, Lines
<1>2. [Idle EXCEPT !.pc = "done", !.result = result] \in CallType
  BY <1>1 DEF Idle, CallType, Labels, Handles
<1>3. [Idle EXCEPT !.pc = "done", !.result = result].pc = "done"
  BY DEF Idle
<1>4. QED
  BY <1>2, <1>3 DEF Ends, TypeOK

(* A call that goes on with another directory, text or handle.             *)
Became(c, r) == call' = [call EXCEPT ![c] = r]

LEMMA BecameIsCall ==
    ASSUME TypeOK, NEW c \in Calls, NEW r \in CallType, Became(c, r)
    PROVE  /\ call' \in [Calls -> CallType]
           /\ \A d \in Calls : call'[d] = IF d = c THEN r ELSE call[d]
BY DEF TypeOK, Became

(* The ways to go on: with another directory, text, or handle.             *)
Moves(c, pc, dir) == call' = [call EXCEPT ![c].pc = pc, ![c].dir = dir]
Takes(c, pc, text) == call' = [call EXCEPT ![c].pc = pc, ![c].text = text]
Holds(c, pc, handle) == call' = [call EXCEPT ![c].pc = pc, ![c].handle = handle]

LEMMA GoesOn ==
    ASSUME TypeOK, NEW c \in Calls, NEW pc \in Labels, NEW dir \in Handles,
           NEW text \in Seq(Lines), NEW handle \in Handles
    PROVE  /\ Moves(c, pc, dir)
                => \E r \in CallType : Became(c, r) /\ r.pc = pc
           /\ Takes(c, pc, text)
                => \E r \in CallType : Became(c, r) /\ r.pc = pc
           /\ Holds(c, pc, handle)
                => \E r \in CallType : Became(c, r) /\ r.pc = pc /\ r.handle = handle
           /\ Goes(c, pc) => \E r \in CallType : Became(c, r) /\ r.pc = pc /\ r.handle = call[c].handle
<1>1. call[c] \in CallType
  BY DEF TypeOK
<1>2. ASSUME Moves(c, pc, dir)
      PROVE  \E r \in CallType : Became(c, r) /\ r.pc = pc
  <2>1. [call[c] EXCEPT !.pc = pc, !.dir = dir] \in CallType
    BY <1>1 DEF CallType
  <2>2. [call[c] EXCEPT !.pc = pc, !.dir = dir].pc = pc
    BY <1>1 DEF CallType
  <2>3. Became(c, [call[c] EXCEPT !.pc = pc, !.dir = dir])
    BY <1>2 DEF Became, Moves
  <2>4. QED
    BY <2>1, <2>2, <2>3
<1>3. ASSUME Takes(c, pc, text)
      PROVE  \E r \in CallType : Became(c, r) /\ r.pc = pc
  <2>1. [call[c] EXCEPT !.pc = pc, !.text = text] \in CallType
    BY <1>1 DEF CallType
  <2>2. [call[c] EXCEPT !.pc = pc, !.text = text].pc = pc
    BY <1>1 DEF CallType
  <2>3. Became(c, [call[c] EXCEPT !.pc = pc, !.text = text])
    BY <1>3 DEF Became, Takes
  <2>4. QED
    BY <2>1, <2>2, <2>3
<1>4. ASSUME Holds(c, pc, handle)
      PROVE  \E r \in CallType : Became(c, r) /\ r.pc = pc /\ r.handle = handle
  <2>1. [call[c] EXCEPT !.pc = pc, !.handle = handle] \in CallType
    BY <1>1 DEF CallType
  <2>2. [call[c] EXCEPT !.pc = pc, !.handle = handle].pc = pc /\ [call[c] EXCEPT !.pc = pc, !.handle = handle].handle = handle
    BY <1>1 DEF CallType
  <2>3. Became(c, [call[c] EXCEPT !.pc = pc, !.handle = handle])
    BY <1>4 DEF Became, Holds
  <2>4. QED
    BY <2>1, <2>2, <2>3
<1>5. ASSUME Goes(c, pc)
      PROVE  \E r \in CallType : Became(c, r) /\ r.pc = pc /\ r.handle = call[c].handle
  <2>1. [call[c] EXCEPT !.pc = pc] \in CallType
    BY <1>1 DEF CallType
  <2>2. [call[c] EXCEPT !.pc = pc].pc = pc /\ [call[c] EXCEPT !.pc = pc].handle = call[c].handle
    BY <1>1 DEF CallType
  <2>3. Became(c, [call[c] EXCEPT !.pc = pc])
    BY <1>5 DEF Became, Goes
  <2>4. QED
    BY <2>1, <2>2, <2>3
<1>6. QED
  BY <1>2, <1>3, <1>4, <1>5

LEMMA WholeIsFile ==
    ASSUME TypeOK, NEW x, NEW text \in Seq(Lines), NEW there,
           file' = [file EXCEPT ![x] = [there |-> there, text |-> text]]
    PROVE  /\ file' = [y \in Dirs |-> file'[y]]
           /\ \A y \in Dirs : file'[y].text \in Seq(Lines)
<1>1. ASSUME NEW y \in Dirs
      PROVE  file'[y] = IF y = x THEN [there |-> there, text |-> text] ELSE file[y]
  BY DEF TypeOK
<1>2. ASSUME NEW y \in Dirs PROVE file'[y].text \in Seq(Lines)
  BY <1>1 DEF TypeOK
<1>3. file' = [y \in Dirs |-> file'[y]]
  BY DEF TypeOK
<1>4. QED
  BY <1>2, <1>3

(* What Read takes.                                                        *)
LEMMA ReadTakesLines ==
    ASSUME TypeOK, NEW c \in Calls, Read(c)
    PROVE  Ends(c, "error") \/ \E t \in Seq(Lines) : Takes(c, "target", t)
<1>1. ASSUME NEW x \in Opened(call[c].dir, FALSE), NEW t \in Texts(c, file[x].text)
      PROVE  t \in Seq(Lines)
  <2>1. x \in Dirs
    BY DEF Opened, Leads, TypeOK, CallType, Handles, Dirs
  <2>2. QED
    BY <2>1, TextsAreLines DEF TypeOK
<1>2. Created(c) \subseteq Seq(Lines)
  <2>1. <<c, c>> \in Seq(Lines)
    BY DEF Lines
  <2>2. QED
    BY <2>1, Zenon DEF Created
<1> DEFINE reached == {x \in Opened(call[c].dir, FALSE) : file[x].there}
           missing == Leads(call[c].dir) = Missing \/ \E x \in Opened(call[c].dir, FALSE) : ~file[x].there
           texts == IF missing THEN Created(c)
                    ELSE UNION {Texts(c, file[x].text) : x \in reached}
<1>3. texts \subseteq Seq(Lines)
  BY <1>1, <1>2
<1>4. (texts = {} /\ Ends(c, "error")) \/ \E t \in texts : Takes(c, "target", t)
  BY Zenon DEF Read, Takes
<1>5. QED
  BY <1>3, <1>4

LEMMA StepKeepsTypes == ASSUME TypeOK, NEW c \in Calls, Step(c) PROVE TypeOK'
<1>1. call[c] \in CallType
  BY DEF TypeOK
<1>2. Leads(WD) \in Handles /\ Resolved(WD) \in Handles
  BY DEF TypeOK, Leads, Resolved, Handles, Dirs
<1>3. /\ Leads(call[c].dir) \in Handles /\ Resolved(call[c].dir) \in Handles
      /\ \A write : Opened(call[c].dir, write) \subseteq Dirs
  BY <1>1 DEF TypeOK, Leads, Resolved, Handles, Dirs, CallType, Opened
<1>4. ASSUME NEW result \in Results, Ends(c, result) PROVE call' \in [Calls -> CallType]
  BY <1>4, EndsIsCall
<1>5. ASSUME NEW pc \in Labels, Goes(c, pc) PROVE call' \in [Calls -> CallType]
  BY <1>1, <1>5 DEF TypeOK, Goes, CallType
<1>6. ASSUME NEW r \in CallType, Became(c, r) PROVE call' \in [Calls -> CallType]
  BY <1>6, BecameIsCall
<1>7. CASE Resolve(c)
  <2>1. "read" \in Labels /\ "error" \in Results
    BY DEF Labels, Results
  <2>2. CASE Moves(c, "read", Resolved(WD))
    <3>1. call' \in [Calls -> CallType]
      BY <1>1, <1>2, <1>6, <2>1, <2>2, GoesOn DEF CallType
    <3>2. QED
      BY <1>7, <3>1 DEF Resolve, Same, TypeOK
  <2>3. CASE Ends(c, "error")
    BY <1>4, <1>7, <2>1, <2>3 DEF Resolve, Same, TypeOK
  <2>4. QED
    BY <1>7, <2>2, <2>3 DEF Resolve, Moves
<1>8. CASE Read(c)
  <2>1. "target" \in Labels /\ "error" \in Results
    BY DEF Labels, Results
  <2>2. CASE Ends(c, "error")
    BY <1>4, <1>8, <2>1, <2>2 DEF Read, Same, TypeOK
  <2>3. ASSUME NEW t \in Seq(Lines), Takes(c, "target", t) PROVE TypeOK'
    <3>1. call' \in [Calls -> CallType]
      BY <1>1, <1>6, <2>1, <2>3, GoesOn DEF CallType
    <3>2. QED
      BY <1>8, <3>1 DEF Read, Same, TypeOK
  <2>4. QED
    BY <1>8, <2>2, <2>3, ReadTakesLines
<1>9. CASE Target(c)
  <2>1. "mkdir" \in Labels /\ "error" \in Results
    BY DEF Labels, Results
  <2>2. CASE Moves(c, "mkdir", Resolved(WD))
    <3>1. call' \in [Calls -> CallType]
      BY <1>1, <1>2, <1>6, <2>1, <2>2, GoesOn DEF CallType
    <3>2. QED
      BY <1>9, <3>1 DEF Target, Same, TypeOK
  <2>3. CASE Ends(c, "error")
    BY <1>4, <1>9, <2>1, <2>3 DEF Target, Same, TypeOK
  <2>4. QED
    BY <1>9, <2>2, <2>3 DEF Target, Moves
<1>10. CASE MkdirAll(c)
  BY <1>1, <1>4, <1>5, <1>10 DEF MkdirAll, Same, TypeOK, Handles, Dirs, Labels, Results
<1>11. CASE OpenParent(c)
  <2>1. "temp" \in Labels /\ "error" \in Results
    BY DEF Labels, Results
  <2>2. CASE Holds(c, "temp", Leads(call[c].dir))
    <3>1. call' \in [Calls -> CallType]
      BY <1>1, <1>3, <1>6, <2>1, <2>2, GoesOn DEF CallType
    <3>2. QED
      BY <1>11, <3>1 DEF OpenParent, Same, TypeOK
  <2>3. CASE Ends(c, "error")
    BY <1>4, <1>11, <2>1, <2>3 DEF OpenParent, Same, TypeOK
  <2>4. QED
    BY <1>11, <2>2, <2>3 DEF OpenParent, Holds
<1>12. CASE CreateTemp(c)
  BY <1>5, <1>12 DEF CreateTemp, Same, TypeOK, Labels
<1>13. CASE TempRefused(c)
  BY <1>5, <1>13 DEF TempRefused, Same, TypeOK, Labels
<1>14. CASE WriteTemp(c)
  BY <1>5, <1>14 DEF WriteTemp, Same, TypeOK, Labels
<1>15. CASE DiskFails(c)
  BY <1>4, <1>15 DEF DiskFails, Failed, Same, TypeOK, Results
<1>16. CASE Again(c)
  <2>1. "open" \in Labels /\ "error" \in Results
    BY DEF Labels, Results
  <2>2. CASE Moves(c, "open", Resolved(call[c].dir))
    <3>1. call' \in [Calls -> CallType]
      BY <1>1, <1>3, <1>6, <2>1, <2>2, GoesOn DEF CallType
    <3>2. QED
      BY <1>16, <3>1 DEF Again, Same, TypeOK
  <2>3. CASE Ends(c, "error")
    BY <1>4, <1>16, <2>1, <2>3 DEF Again, Same, TypeOK
  <2>4. QED
    BY <1>16, <2>2, <2>3 DEF Again, Moves
<1>17. CASE FillFails(c)
  BY <1>4, <1>17 DEF FillFails, Same, TypeOK, Results
<1>18. ASSUME Fill(c) \/ SyncAndRename(c) PROVE TypeOK'
  <2>1. call[c].text \in Seq(Lines) /\ "ok" \in Results
    BY <1>1 DEF CallType, Results
  <2>2. /\ file' = [y \in Dirs |-> file'[y]]
        /\ \A y \in Dirs : file'[y].text \in Seq(Lines)
    BY <1>18, <2>1, WholeIsFile DEF Fill, SyncAndRename, Whole
  <2>3. call' \in [Calls -> CallType]
    BY <1>4, <1>18, <2>1 DEF Fill, SyncAndRename
  <2>4. QED
    BY <1>18, <2>2, <2>3 DEF Fill, SyncAndRename, Same, TypeOK
<1>19. CASE Truncate(c)
  <2>1. "fill" \in Labels /\ "error" \in Results /\ <<c>> \in Seq(Lines)
    BY DEF Labels, Results, Lines
  <2>2. CASE UNCHANGED file /\ Ends(c, "error")
    BY <1>4, <1>19, <2>1, <2>2 DEF Truncate, Same, TypeOK
  <2>3. ASSUME NEW x \in Opened(call[c].dir, TRUE),
               file' = [file EXCEPT ![x] = [there |-> TRUE, text |-> <<c>>]],
               Holds(c, "fill", x)
        PROVE  TypeOK'
    <3>1. x \in Handles
      BY <1>3 DEF Handles
    <3>2. call' \in [Calls -> CallType]
      BY <1>1, <1>6, <2>1, <2>3, <3>1, GoesOn DEF CallType
    <3>3. /\ file' = [y \in Dirs |-> file'[y]]
          /\ \A y \in Dirs : file'[y].text \in Seq(Lines)
      BY <2>1, <2>3, WholeIsFile
    <3>4. QED
      BY <1>19, <3>2, <3>3 DEF Truncate, Same, TypeOK
  <2>4. QED
    BY <1>19, <2>2, <2>3 DEF Truncate, Holds
<1>20. QED
  BY <1>7, <1>8, <1>9, <1>10, <1>11, <1>12, <1>13, <1>14, <1>15, <1>16, <1>17, <1>18, <1>19
     DEF Step

(***************************************************************************)
(* What a call has made sure of                                            *)
(***************************************************************************)

(* A call that goes on was allowed to work.                                *)
LEMMA BecomeKeeps ==
    ASSUME JailInv, Same, TypeOK', NEW c \in Calls, call[c].pc \notin Resting \/ Allowed,
           NEW r \in CallType, Became(c, r), r.pc \in Holding => Permitted(r.handle, TRUE)
    PROVE  JailInv'
<1>1. Allowed
  BY DEF JailInv, AllowedToWork
<1>2. QED
  BY <1>1, OneCallMoves DEF Became

(* A call that ends holds nothing.                                         *)
LEMMA EndKeeps ==
    ASSUME JailInv, Same, TypeOK', NEW c \in Calls, NEW result \in Results, Ends(c, result)
    PROVE  JailInv'
<1>1. TypeOK
  BY DEF JailInv
<1>2. /\ \A d \in Calls : d # c => call'[d] = call[d]
      /\ call'[c].pc = "done"
  BY <1>1, EndsIsCall
<1>3. Pinned'
  BY <1>2 DEF JailInv, Same, Pinned, Holding, Permitted, Beneath, JailRoots, IsReadOnly
<1>4. AllowedToWork'
  BY <1>2 DEF JailInv, Same, AllowedToWork, Allowed, Resting
<1>5. QED
  BY <1>3, <1>4 DEF JailInv

LEMMA StepKeeps == ASSUME JailInv, NEW c \in Calls, Step(c) PROVE JailInv'
<1>1. TypeOK /\ TypeOK'
  BY StepKeepsTypes DEF JailInv
<1>2. Same
  BY DEF Step, Resolve, Read, Target, MkdirAll, OpenParent, CreateTemp, TempRefused, WriteTemp,
         DiskFails, SyncAndRename, Again, Truncate, Fill, FillFails
<1>3. /\ call[c] \in CallType
      /\ Resolved(WD) \in Handles /\ Resolved(call[c].dir) \in Handles
      /\ Leads(call[c].dir) \in Handles /\ Opened(call[c].dir, TRUE) \subseteq Handles
  BY <1>1 DEF TypeOK, CallType, Resolved, Leads, Opened, Handles, Dirs
<1>4. {"error", "ok"} \subseteq Results
  BY DEF Results
<1>5. ASSUME NEW result \in {"error", "ok"}, Ends(c, result) PROVE JailInv'
  BY <1>1, <1>2, <1>4, <1>5, EndKeeps
<1>6. ASSUME NEW pc \in {"read", "mkdir", "open"}, NEW dir \in Handles, Moves(c, pc, dir),
             call[c].pc \notin Resting \/ Allowed
      PROVE  JailInv'
  <2>1. pc \in Labels /\ pc \notin Holding
    BY DEF Labels, Holding
  <2>2. PICK r \in CallType : Became(c, r) /\ r.pc = pc
    BY <1>1, <1>3, <1>6, <2>1, GoesOn DEF CallType
  <2>3. QED
    BY <1>1, <1>2, <1>6, <2>1, <2>2, BecomeKeeps
<1>7. ASSUME NEW t \in Seq(Lines), Takes(c, "target", t), call[c].pc \notin Resting
      PROVE  JailInv'
  <2>1. "target" \in Labels /\ "target" \notin Holding
    BY DEF Labels, Holding
  <2>2. PICK r \in CallType : Became(c, r) /\ r.pc = "target"
    BY <1>1, <1>3, <1>7, <2>1, GoesOn DEF CallType
  <2>3. QED
    BY <1>1, <1>2, <1>7, <2>1, <2>2, BecomeKeeps
<1>8. ASSUME NEW pc \in Labels, Goes(c, pc), call[c].pc \notin Resting,
             pc \in Holding => call[c].pc \in Holding
      PROVE  JailInv'
  <2>1. PICK r \in CallType : Became(c, r) /\ r.pc = pc /\ r.handle = call[c].handle
    BY <1>1, <1>3, <1>8, GoesOn DEF CallType
  <2>2. r.pc \in Holding => Permitted(r.handle, TRUE)
    BY <1>8, <2>1 DEF JailInv, Pinned
  <2>3. QED
    BY <1>1, <1>2, <1>8, <2>1, <2>2, BecomeKeeps
<1>9. ASSUME NEW pc \in Labels, NEW x \in Handles, Holds(c, pc, x), Permitted(x, TRUE),
             call[c].pc \notin Resting
      PROVE  JailInv'
  <2>1. PICK r \in CallType : Became(c, r) /\ r.pc = pc /\ r.handle = x
    BY <1>1, <1>3, <1>9, GoesOn DEF CallType
  <2>2. QED
    BY <1>1, <1>2, <1>9, <2>1, BecomeKeeps
<1>10. CASE Resolve(c)
  <2>1. (Allowed /\ Moves(c, "read", Resolved(WD))) \/ Ends(c, "error")
    BY <1>10 DEF Resolve, Moves
  <2>2. QED
    BY <1>3, <1>5, <1>6, <2>1
<1>11. CASE Read(c)
  <2>1. call[c].pc \notin Resting
    BY <1>11 DEF Read, At, Resting
  <2>2. Ends(c, "error") \/ \E t \in Seq(Lines) : Takes(c, "target", t)
    BY <1>1, <1>11, ReadTakesLines
  <2>3. QED
    BY <1>5, <1>7, <2>1, <2>2
<1>12. CASE Target(c)
  <2>1. /\ call[c].pc \notin Resting
        /\ Moves(c, "mkdir", Resolved(WD)) \/ Ends(c, "error")
    BY <1>12 DEF Target, At, Resting, Moves
  <2>2. QED
    BY <1>3, <1>5, <1>6, <2>1
<1>13. CASE MkdirAll(c)
  <2>1. /\ call[c].pc \notin Resting /\ "parent" \in Labels /\ "parent" \notin Holding
        /\ Goes(c, "parent") \/ Ends(c, "error")
    BY <1>13 DEF MkdirAll, At, Resting, Labels, Holding
  <2>2. QED
    BY <1>5, <1>8, <2>1
<1>14. CASE OpenParent(c)
  <2>1. /\ call[c].pc \notin Resting /\ "temp" \in Labels
        /\ \/ Holds(c, "temp", Leads(call[c].dir)) /\ Permitted(Leads(call[c].dir), TRUE)
           \/ Ends(c, "error")
    BY <1>14 DEF OpenParent, At, Resting, Labels, Holds, Verified
  <2>2. QED
    BY <1>3, <1>5, <1>9, <2>1
<1>15. CASE CreateTemp(c)
  <2>1. /\ call[c].pc \notin Resting /\ call[c].pc \in Holding /\ "write" \in Labels
        /\ Goes(c, "write")
    BY <1>15 DEF CreateTemp, At, Resting, Labels, Holding
  <2>2. QED
    BY <1>8, <2>1
<1>16. CASE TempRefused(c)
  <2>1. /\ call[c].pc \notin Resting /\ "again" \in Labels /\ "again" \notin Holding
        /\ Goes(c, "again")
    BY <1>16 DEF TempRefused, At, Resting, Labels, Holding
  <2>2. QED
    BY <1>8, <2>1
<1>17. CASE WriteTemp(c)
  <2>1. /\ call[c].pc \notin Resting /\ call[c].pc \in Holding /\ "sync" \in Labels
        /\ Goes(c, "sync")
    BY <1>17 DEF WriteTemp, At, Resting, Labels, Holding
  <2>2. QED
    BY <1>8, <2>1
<1>18. ASSUME DiskFails(c) \/ FillFails(c) \/ Fill(c) \/ SyncAndRename(c) PROVE JailInv'
  BY <1>5, <1>18 DEF DiskFails, Failed, FillFails, Fill, SyncAndRename
<1>19. CASE Again(c)
  <2>1. /\ call[c].pc \notin Resting
        /\ Moves(c, "open", Resolved(call[c].dir)) \/ Ends(c, "error")
    BY <1>19 DEF Again, At, Resting, Moves
  <2>2. QED
    BY <1>3, <1>5, <1>6, <2>1
<1>20. CASE Truncate(c)
  <2>1. call[c].pc \notin Resting /\ "fill" \in Labels
    BY <1>20 DEF Truncate, At, Resting, Labels
  <2>2. ASSUME NEW x \in Opened(call[c].dir, TRUE) PROVE Permitted(x, TRUE)
    BY DEF Opened
  <2>3. Ends(c, "error") \/ \E x \in Opened(call[c].dir, TRUE) : Holds(c, "fill", x)
    BY <1>20 DEF Truncate, Holds
  <2>4. QED
    BY <1>3, <1>5, <1>9, <2>1, <2>2, <2>3
<1>21. QED
  BY <1>10, <1>11, <1>12, <1>13, <1>14, <1>15, <1>16, <1>17, <1>18, <1>19, <1>20 DEF Step

LEMMA JailInvNext == ASSUME JailInv, [Next]_vars PROVE JailInv'
<1>1. ASSUME UNCHANGED vars PROVE JailInv'
  BY <1>1 DEF vars, JailInv, TypeOK, Pinned, AllowedToWork, Allowed, Permitted, Beneath,
              JailRoots, IsReadOnly
<1>2. CASE Swap
  <2>1. link' \in Handles /\ UNCHANGED <<policy, file, call>>
    BY <1>2 DEF Swap, Same, Handles
  <2>2. QED
    BY <2>1 DEF JailInv, TypeOK, Pinned, AllowedToWork, Allowed, Permitted, Beneath,
                JailRoots, IsReadOnly
<1>3. CASE Crash
  <2> DEFINE r == [Idle EXCEPT !.pc = "dead"]
  <2>1. r \in CallType /\ r.pc = "dead"
    <3>1. Original \in Seq(Lines)
      BY DEF Original, Lines
    <3>2. QED
      BY <3>1 DEF Idle, CallType, Labels, Handles, Results
  <2> HIDE DEF r
  <2>2. call' = [c \in Calls |-> IF Working(c) THEN r ELSE call[c]]
    BY <1>3 DEF Crash, r
  <2>3. call' \in [Calls -> CallType] /\ UNCHANGED <<policy, file, link>>
    BY <1>3, <2>1, <2>2 DEF Crash, Same, JailInv, TypeOK
  <2>4. TypeOK'
    BY <2>3 DEF JailInv, TypeOK
  <2>5. \A c \in Calls : call'[c] = call[c] \/ call'[c].pc = "dead"
    BY <2>1, <2>2
  <2>6. Pinned' /\ AllowedToWork'
    BY <2>3, <2>5 DEF JailInv, Pinned, AllowedToWork, Allowed, Permitted, Beneath, JailRoots,
                      IsReadOnly, Holding, Resting
  <2>7. QED
    BY <2>4, <2>6 DEF JailInv
<1>4. QED
  BY <1>1, <1>2, <1>3, StepKeeps DEF Next

-----------------------------------------------------------------------------
(***************************************************************************)
(* Only granted directories change                                         *)
(***************************************************************************)

LEMMA ChangesAreGranted ==
    ASSUME JailInv, Next, NEW x \in Dirs, ~(Allowed /\ Granted(x))
    PROVE  file'[x] = file[x]
<1>1. SUFFICES ASSUME NEW c \in Calls, Step(c) PROVE file'[x] = file[x]
  <2>1. Swap \/ Crash => file' = file
    BY DEF Swap, Crash
  <2>2. QED
    BY <1>1, <2>1 DEF Next
<1>2. x \in Seq(Names)
  <2>1. WD \in Seq(Names)
    BY DEF WD, Names
  <2>2. E \in Seq(Names)
    BY DEF E, Names
  <2>3. O \in Seq(Names)
    BY DEF O, Names
  <2>4. QED
    BY <2>1, <2>2, <2>3 DEF Dirs
<1>3. SUFFICES ASSUME NEW y, Allowed, Permitted(y, TRUE), NEW new, file' = [file EXCEPT ![y] = new]
               PROVE  file'[x] = file[x]
  <2>1. CASE SyncAndRename(c) \/ Fill(c)
    <3>1. Allowed /\ Permitted(call[c].handle, TRUE)
      BY <2>1 DEF SyncAndRename, Fill, At, JailInv, Pinned, AllowedToWork, Holding, Resting
    <3>2. QED
      BY <2>1, <3>1 DEF SyncAndRename, Fill
  <2>2. CASE Truncate(c) /\ ~UNCHANGED file
    <3>1. Allowed
      BY <2>2 DEF Truncate, At, JailInv, AllowedToWork, Resting
    <3>2. PICK y \in Opened(call[c].dir, TRUE) :
                 file' = [file EXCEPT ![y] = [there |-> TRUE, text |-> <<c>>]]
      BY <2>2 DEF Truncate
    <3>3. Permitted(y, TRUE)
      BY DEF Opened
    <3>4. QED
      BY <3>1, <3>2, <3>3
  <2>3. CASE UNCHANGED file
    BY <2>3
  <2>4. QED
    BY <1>1, <2>1, <2>2, <2>3 DEF Step, Resolve, Read, Target, MkdirAll, OpenParent, CreateTemp,
       TempRefused, WriteTemp, DiskFails, Again, FillFails
<1>4. CASE y = x
  <2>1. Granted(x)
    BY <1>2, <1>3, <1>4, JailGrants DEF JailInv, TypeOK
  <2>2. QED
    BY <1>3, <2>1
<1>5. CASE y # x
  BY <1>3, <1>5 DEF JailInv, TypeOK
<1>6. QED
  BY <1>4, <1>5

(* The jail holds for any calls, policies, moves of the directory and      *)
(* failures of the disk: no file changes that the host has not granted     *)
(* (openJailed, VerifyFDInJailFor, WriteFileJailed).                       *)
THEOREM OnlyGrantedHolds == Spec => OnlyGranted
<1>1. Init => JailInv
  BY JailInvInit
<1>2. JailInv /\ [Next]_vars => JailInv'
  BY JailInvNext
<1>3. JailInv /\ [Next]_vars
        => [\A x \in Dirs : ~(Allowed /\ Granted(x)) => file'[x] = file[x]]_vars
  BY ChangesAreGranted
<1>4. QED
  BY <1>1, <1>2, <1>3, PTL DEF Spec, OnlyGranted
-----------------------------------------------------------------------------
(***************************************************************************)
(* A change is all or nothing                                              *)
(***************************************************************************)

Mentions(c, text) == \E i \in DOMAIN text : text[i] = c
Succeeded(c) == At(c, "done") /\ call[c].result = "ok"

(* A line of a call that writes by a rename gets into a file, and by a     *)
(* file into the text of another call, only when the call has succeeded;   *)
(* only a file that is written in place is ever one line.                  *)
TextInv ==
    /\ \A c \in Calls \ inPlace :
        /\ \A x \in Dirs : Mentions(c, file[x].text) => Succeeded(c)
        /\ \A d \in Calls \ {c} : Mentions(c, call[d].text) => Succeeded(c)
    /\ \A x \in Dirs : Len(file[x].text) = 2 \/ \E e \in inPlace : file[x].text = <<e>>
    /\ \A d \in Calls : Len(call[d].text) = 2
    /\ \A c \in Calls : call[c].pc \in {"again", "open", "fill"} => c \in inPlace
    /\ \A c \in temps : c \in Calls /\ call[c].pc \in {"write", "sync", "dead"}
    /\ inPlace \subseteq Calls

LEMMA OriginalLines ==
    /\ Original \in Seq(Lines) /\ Len(Original) = 2
    /\ \A c \in Calls : ~Mentions(c, Original)
    /\ \A c \in Calls : Original[Line[c]] \notin Calls
BY LineAssumption DEF Original, Lines, Mentions

(* What a call makes of a text it has read mentions nobody new but itself, *)
(* and a torn text has no place for it.                                    *)
LEMMA TextsKeep ==
    ASSUME NEW c \in Calls, NEW text \in Seq(Lines), NEW t \in Texts(c, text),
           Len(text) = 2 \/ \E e \in Calls : text = <<e>>
    PROVE  /\ Len(t) = 2
           /\ \A b \in Calls \ {c} : Mentions(b, t) => Mentions(b, text)
<1>1. CASE t = <<c, c>>
  BY <1>1 DEF Mentions
<1>2. CASE t # <<c, c>>
  <2>1. PICK i \in Places(c, text) : t = ReplaceAt(text, i, c)
    BY <1>2, ToolAssumption DEF Texts, Edited, Patched
  <2>2. i \in DOMAIN text /\ text[i] \notin Calls
    BY <2>1, OriginalLines DEF Places
  <2>3. Len(text) = 2
    BY <2>2
  <2>4. Len(t) = 2 /\ DOMAIN t = DOMAIN text /\ \A j \in DOMAIN text : t[j] = IF j = i THEN c ELSE text[j]
    BY <2>1, <2>2, <2>3 DEF ReplaceAt
  <2>5. QED
    BY <2>4 DEF Mentions
<1>3. QED
  BY <1>1, <1>2

(* What a step of a call does to the texts.                                *)
Careful(c) ==
    /\ \A d \in Calls \ {c} : call'[d] = call[d]
    /\ call[c].pc \notin {"done", "dead"}
    /\ Len(call'[c].text) = 2
    /\ \A b \in Calls \ {c} : Mentions(b, call'[c].text)
         => Mentions(b, call[c].text) \/ \E x \in Dirs : Mentions(b, file[x].text)
    /\ inPlace \subseteq inPlace' /\ inPlace' \subseteq Calls
    /\ \A x \in Dirs :
        \/ file'[x].text = file[x].text
        \/ file'[x].text = call[c].text /\ call'[c].pc = "done" /\ call'[c].result = "ok"
        \/ c \in inPlace /\ file'[x].text = <<c>>
    /\ call'[c].pc \in {"again", "open", "fill"} => c \in inPlace'
    /\ temps' \ {c} \subseteq temps
    /\ c \in temps' => call'[c].pc \in {"write", "sync"}

(* The ways a call goes on, and what they leave of its text.               *)
LEMMA Goings ==
    ASSUME TypeOK, NEW c \in Calls, Len(call[c].text) = 2
    PROVE  /\ \A pc : Goes(c, pc) \/ (\E dir : Moves(c, pc, dir)) \/ (\E handle : Holds(c, pc, handle))
                => /\ \A d \in Calls \ {c} : call'[d] = call[d]
                   /\ call'[c].pc = pc /\ call'[c].text = call[c].text
           /\ \A result : Ends(c, result)
                => /\ \A d \in Calls \ {c} : call'[d] = call[d]
                   /\ call'[c].pc = "done" /\ call'[c].text = Original /\ call'[c].result = result
           /\ \A pc, t : Takes(c, pc, t)
                => /\ \A d \in Calls \ {c} : call'[d] = call[d]
                   /\ call'[c].pc = pc /\ call'[c].text = t
<1>1. call \in [Calls -> CallType] /\ call[c] \in CallType
  BY DEF TypeOK
<1>2. ASSUME NEW pc, Goes(c, pc) \/ (\E dir : Moves(c, pc, dir)) \/ (\E handle : Holds(c, pc, handle))
      PROVE  /\ \A d \in Calls \ {c} : call'[d] = call[d]
             /\ call'[c].pc = pc /\ call'[c].text = call[c].text
  <2>1. CASE Goes(c, pc)
    BY <1>1, <2>1 DEF Goes, CallType
  <2>2. CASE \E dir : Moves(c, pc, dir)
    BY <1>1, <2>2 DEF Moves, CallType
  <2>3. CASE \E handle : Holds(c, pc, handle)
    BY <1>1, <2>3 DEF Holds, CallType
  <2>4. QED
    BY <1>2, <2>1, <2>2, <2>3
<1>3. ASSUME NEW result, Ends(c, result)
      PROVE  /\ \A d \in Calls \ {c} : call'[d] = call[d]
             /\ call'[c].pc = "done" /\ call'[c].text = Original /\ call'[c].result = result
  BY <1>1, <1>3 DEF Ends, Idle
<1>4. ASSUME NEW pc, NEW t, Takes(c, pc, t)
      PROVE  /\ \A d \in Calls \ {c} : call'[d] = call[d]
             /\ call'[c].pc = pc /\ call'[c].text = t
  BY <1>1, <1>4 DEF Takes, CallType
<1>5. QED
  BY <1>2, <1>3, <1>4

(* A step that leaves the files alone.                                     *)
LEMMA QuietStep ==
    ASSUME TypeOK, TextInv, NEW c \in Calls, call[c].pc \notin {"done", "dead", "write", "sync"},
           UNCHANGED <<file, temps, inPlace>>
    PROVE  /\ \A pc : /\ pc \in {"again", "open", "fill"} => c \in inPlace
                     /\ \/ Goes(c, pc)
                           \/ \E dir : Moves(c, pc, dir)
                           \/ \E handle : Holds(c, pc, handle)
                     => Careful(c)
           /\ \A result : Ends(c, result) => Careful(c)
<1>1. Len(call[c].text) = 2 /\ c \notin temps /\ inPlace \subseteq Calls
  BY DEF TextInv
<1>2. ASSUME NEW pc, pc \in {"again", "open", "fill"} => c \in inPlace,
             Goes(c, pc) \/ (\E dir : Moves(c, pc, dir)) \/ (\E handle : Holds(c, pc, handle))
      PROVE  Careful(c)
  <2>1. /\ \A d \in Calls \ {c} : call'[d] = call[d]
        /\ call'[c].pc = pc /\ call'[c].text = call[c].text
    BY <1>1, <1>2, Goings
  <2>2. QED
    BY <1>1, <1>2, <2>1 DEF Careful
<1>3. ASSUME NEW result, Ends(c, result) PROVE Careful(c)
  <2>1. /\ \A d \in Calls \ {c} : call'[d] = call[d]
        /\ call'[c].pc = "done" /\ call'[c].text = Original
    BY <1>1, <1>3, Goings
  <2>2. QED
    BY <1>1, <2>1, OriginalLines DEF Careful
<1>4. QED
  BY <1>2, <1>3

LEMMA StepIsCareful == ASSUME TypeOK, TextInv, NEW c \in Calls, Step(c) PROVE Careful(c)
<1>1. Len(call[c].text) = 2 /\ call[c] \in CallType
  BY DEF TextInv, TypeOK
<1>2. CASE Resolve(c)
  <2>1. Moves(c, "read", Resolved(WD)) \/ Ends(c, "error")
    BY <1>2 DEF Resolve, Moves
  <2>2. (\E dir : Moves(c, "read", dir)) \/ Ends(c, "error")
    BY <2>1
  <2>3. call[c].pc \notin {"done", "dead", "write", "sync"} /\ UNCHANGED <<file, temps, inPlace>>
    BY <1>2 DEF Resolve, At
  <2>4. QED
    BY <2>2, <2>3, QuietStep
<1>3. CASE Read(c)
  <2>1. /\ call[c].pc = "read" /\ UNCHANGED <<file, temps, inPlace>>
    BY <1>3 DEF Read, At
  <2>2. CASE Ends(c, "error")
    BY <2>1, <2>2, QuietStep
  <2>3. ASSUME NEW t, Takes(c, "target", t), Len(t) = 2,
               \A b \in Calls \ {c} : Mentions(b, t) => \E x \in Dirs : Mentions(b, file[x].text)
        PROVE  Careful(c)
    <3>1. c \notin temps
      BY <2>1 DEF TextInv
    <3>2. QED
      BY <1>1, <2>1, <2>3, <3>1, Goings DEF Careful, TextInv
  <2>4. ASSUME NEW t \in Created(c)
        PROVE  Len(t) = 2 /\ \A b \in Calls \ {c} : ~Mentions(b, t)
    BY DEF Created, Mentions
  <2>5. ASSUME NEW x \in Opened(call[c].dir, FALSE), NEW t \in Texts(c, file[x].text)
        PROVE  Len(t) = 2 /\ \A b \in Calls \ {c} : Mentions(b, t) => \E y \in Dirs : Mentions(b, file[y].text)
    <3>1. x \in Dirs
      BY DEF Opened, Leads, TypeOK, Handles, Dirs, CallType
    <3>2. /\ file[x].text \in Seq(Lines)
          /\ Len(file[x].text) = 2 \/ \E e \in Calls : file[x].text = <<e>>
      BY <3>1 DEF TypeOK, TextInv
    <3>3. QED
      BY <3>1, <3>2, TextsKeep
  <2> DEFINE reached == {x \in Opened(call[c].dir, FALSE) : file[x].there}
             missing == Leads(call[c].dir) = Missing \/ \E x \in Opened(call[c].dir, FALSE) : ~file[x].there
             texts == IF missing THEN Created(c)
                      ELSE UNION {Texts(c, file[x].text) : x \in reached}
  <2>6. (texts = {} /\ Ends(c, "error")) \/ \E t \in texts : Takes(c, "target", t)
    BY <1>3, Zenon DEF Read, Takes
  <2>7. \A t \in texts : \/ t \in Created(c)
                         \/ \E x \in Opened(call[c].dir, FALSE) : t \in Texts(c, file[x].text)
    OBVIOUS
  <2>8. QED
    BY <2>2, <2>3, <2>4, <2>5, <2>6, <2>7
<1>4. CASE Target(c)
  <2>1. Moves(c, "mkdir", Resolved(WD)) \/ Ends(c, "error")
    BY <1>4 DEF Target, Moves
  <2>2. (\E dir : Moves(c, "mkdir", dir)) \/ Ends(c, "error")
    BY <2>1
  <2>3. call[c].pc \notin {"done", "dead", "write", "sync"} /\ UNCHANGED <<file, temps, inPlace>>
    BY <1>4 DEF Target, At
  <2>4. QED
    BY <2>2, <2>3, QuietStep
<1>5. CASE MkdirAll(c)
  <2>1. Goes(c, "parent") \/ Ends(c, "error")
    BY <1>5 DEF MkdirAll
  <2>2. QED
    BY <1>5, <2>1, QuietStep DEF MkdirAll, At
<1>6. CASE OpenParent(c)
  <2>1. Holds(c, "temp", Leads(call[c].dir)) \/ Ends(c, "error")
    BY <1>6 DEF OpenParent, Holds
  <2>2. (\E handle : Holds(c, "temp", handle)) \/ Ends(c, "error")
    BY <2>1
  <2>3. call[c].pc \notin {"done", "dead", "write", "sync"} /\ UNCHANGED <<file, temps, inPlace>>
    BY <1>6 DEF OpenParent, At
  <2>4. QED
    BY <2>2, <2>3, QuietStep
<1>7. CASE CreateTemp(c)
  <2>1. call[c].pc = "temp" /\ Goes(c, "write") /\ temps' = temps \cup {c} /\ UNCHANGED <<file, inPlace>>
    BY <1>7 DEF CreateTemp, At
  <2>2. QED
    BY <1>1, <2>1, Goings DEF Careful, TextInv
<1>8. CASE TempRefused(c)
  <2>1. /\ call[c].pc = "temp" /\ Goes(c, "again") /\ inPlace' = inPlace \cup {c} /\ UNCHANGED <<file, temps>>
        /\ c \notin temps
    BY <1>8 DEF TempRefused, At, TextInv
  <2>2. QED
    BY <1>1, <2>1, Goings DEF Careful, TextInv
<1>9. CASE WriteTemp(c)
  <2>1. call[c].pc = "write" /\ Goes(c, "sync") /\ UNCHANGED <<file, inPlace, temps>>
    BY <1>9 DEF WriteTemp, At
  <2>2. QED
    BY <1>1, <2>1, Goings DEF Careful, TextInv
<1>10. CASE DiskFails(c)
  <2>1. /\ call[c].pc \in {"write", "sync"} /\ Ends(c, "error") /\ temps' = temps \ {c}
        /\ UNCHANGED <<file, inPlace>>
    BY <1>10 DEF DiskFails, Failed
  <2>2. QED
    BY <1>1, <2>1, Goings, OriginalLines DEF Careful, TextInv
<1>11. CASE SyncAndRename(c)
  <2>1. /\ call[c].pc = "sync" /\ Ends(c, "ok") /\ temps' = temps \ {c} /\ UNCHANGED inPlace
        /\ file' = [file EXCEPT ![call[c].handle] = Whole(c)]
    BY <1>11 DEF SyncAndRename, At
  <2>2. \A x \in Dirs : file'[x].text \in {file[x].text, call[c].text}
    BY <2>1 DEF TypeOK, Whole
  <2>3. QED
    BY <1>1, <2>1, <2>2, Goings, OriginalLines DEF Careful, TextInv
<1>12. CASE Again(c)
  <2>1. Moves(c, "open", Resolved(call[c].dir)) \/ Ends(c, "error")
    BY <1>12 DEF Again, Moves
  <2>2. c \in inPlace
    BY <1>12 DEF Again, At, TextInv
  <2>3. QED
    BY <1>12, <2>1, <2>2, QuietStep DEF Again, At
<1>13. CASE Truncate(c)
  <2>1. c \in inPlace /\ call[c].pc = "open" /\ c \notin temps /\ UNCHANGED <<temps, inPlace>>
    BY <1>13 DEF Truncate, At, TextInv
  <2>2. CASE Ends(c, "error") /\ UNCHANGED file
    BY <2>1, <2>2, QuietStep
  <2>3. ASSUME NEW x \in Opened(call[c].dir, TRUE), Holds(c, "fill", x),
               file' = [file EXCEPT ![x] = [there |-> TRUE, text |-> <<c>>]]
        PROVE  Careful(c)
    <3>1. \A y \in Dirs : file'[y].text \in {file[y].text, <<c>>}
      BY <2>3 DEF TypeOK
    <3>2. QED
      BY <1>1, <2>1, <2>3, <3>1, Goings DEF Careful, TextInv
  <2>4. QED
    BY <1>13, <2>2, <2>3 DEF Truncate, Holds
<1>14. CASE Fill(c)
  <2>1. /\ call[c].pc = "fill" /\ Ends(c, "ok") /\ c \notin temps /\ UNCHANGED <<temps, inPlace>>
        /\ file' = [file EXCEPT ![call[c].handle] = Whole(c)]
    BY <1>14 DEF Fill, At, TextInv
  <2>2. \A x \in Dirs : file'[x].text \in {file[x].text, call[c].text}
    BY <2>1 DEF TypeOK, Whole
  <2>3. QED
    BY <1>1, <2>1, <2>2, Goings, OriginalLines DEF Careful, TextInv
<1>15. CASE FillFails(c)
  BY <1>15, QuietStep DEF FillFails, At
<1>16. QED
  BY <1>2, <1>3, <1>4, <1>5, <1>6, <1>7, <1>8, <1>9, <1>10, <1>11, <1>12, <1>13, <1>14, <1>15
     DEF Step

LEMMA CarefulKeeps == ASSUME TypeOK, TextInv, NEW c \in Calls, Careful(c) PROVE TextInv'
<1>1. ASSUME NEW b \in Calls, Succeeded(b) PROVE Succeeded(b)'
  BY <1>1 DEF Careful, Succeeded, At
<1>2. ASSUME NEW b \in Calls \ inPlace' PROVE b \in Calls \ inPlace
  BY DEF Careful
<1>3. ASSUME NEW b \in Calls \ inPlace', NEW x \in Dirs, Mentions(b, file'[x].text)
      PROVE  Succeeded(b)'
  <2>1. CASE file'[x].text = file[x].text
    BY <1>1, <1>2, <1>3, <2>1 DEF TextInv
  <2>2. CASE file'[x].text = call[c].text /\ call'[c].pc = "done" /\ call'[c].result = "ok"
    <3>1. CASE b = c
      BY <2>2, <3>1 DEF Succeeded, At
    <3>2. CASE b # c
      BY <1>1, <1>2, <1>3, <2>2, <3>2 DEF TextInv
    <3>3. QED
      BY <3>1, <3>2
  <2>3. CASE c \in inPlace /\ file'[x].text = <<c>>
    <3>1. b = c
      BY <1>3, <2>3 DEF Mentions
    <3>2. QED
      BY <1>2, <2>3, <3>1
  <2>4. QED
    BY <2>1, <2>2, <2>3 DEF Careful
<1>4. ASSUME NEW b \in Calls \ inPlace', NEW d \in Calls \ {b}, Mentions(b, call'[d].text)
      PROVE  Succeeded(b)'
  <2>1. CASE d # c
    BY <1>1, <1>2, <1>4, <2>1 DEF TextInv, Careful
  <2>2. CASE d = c
    <3>1. Mentions(b, call[c].text) \/ \E x \in Dirs : Mentions(b, file[x].text)
      BY <1>4, <2>2 DEF Careful
    <3>2. QED
      BY <1>1, <1>2, <2>2, <3>1 DEF TextInv
  <2>3. QED
    BY <2>1, <2>2
<1>5. \A x \in Dirs : Len(file'[x].text) = 2 \/ \E e \in inPlace' : file'[x].text = <<e>>
  BY DEF TextInv, Careful
<1>6. \A d \in Calls : Len(call'[d].text) = 2
  BY DEF TextInv, Careful
<1>7. \A d \in Calls : call'[d].pc \in {"again", "open", "fill"} => d \in inPlace'
  BY DEF TextInv, Careful
<1>8. \A d \in temps' : d \in Calls /\ call'[d].pc \in {"write", "sync", "dead"}
  BY DEF TextInv, Careful
<1>9. inPlace' \subseteq Calls
  BY DEF Careful
<1>10. QED
  BY <1>3, <1>4, <1>5, <1>6, <1>7, <1>8, <1>9 DEF TextInv

LEMMA TextInvInit == ASSUME Init PROVE TextInv
<1>1. PICK text \in {Original, <<"o1", "o1">>} :
             file = [x \in Dirs |-> [there |-> x = WD => link # Missing, text |-> text]]
  BY DEF Init
<1>2. \A x \in Dirs : file[x].text = text
  BY <1>1
<1>3. Len(text) = 2 /\ \A c \in Calls : ~Mentions(c, text)
  BY LineAssumption DEF Original, Mentions
<1>4. \A c \in Calls : call[c].text = Original /\ call[c].pc = "start"
  BY DEF Init, Idle
<1>5. inPlace = {} /\ temps = {}
  BY DEF Init
<1>6. QED
  BY <1>2, <1>3, <1>4, <1>5, OriginalLines DEF TextInv

LEMMA TextInvNext == ASSUME TypeOK, TextInv, [Next]_vars PROVE TextInv'
<1>1. CASE UNCHANGED <<file, call, temps, inPlace>>
  BY <1>1 DEF TextInv, Mentions, Succeeded, At
<1>2. CASE Crash
  <2>1. /\ UNCHANGED <<file, temps, inPlace>>
        /\ \A c \in Calls : call'[c] = IF Working(c) THEN [Idle EXCEPT !.pc = "dead"] ELSE call[c]
    BY <1>2 DEF Crash
  <2>2. \A c \in Calls : \/ call'[c] = call[c]
                         \/ call'[c].pc = "dead" /\ call'[c].text = Original /\ call[c].pc # "done"
    BY <2>1 DEF Idle, Working
  <2>3. \A c \in Calls : Succeeded(c) => Succeeded(c)'
    BY <2>2 DEF Succeeded, At
  <2>4. \A b, d \in Calls : Mentions(b, call'[d].text) => Mentions(b, call[d].text)
    BY <2>2, OriginalLines DEF Mentions
  <2>5. \A c \in Calls \ inPlace :
           /\ \A x \in Dirs : Mentions(c, file[x].text) => Succeeded(c)'
           /\ \A d \in Calls \ {c} : Mentions(c, call'[d].text) => Succeeded(c)'
    BY <2>3, <2>4 DEF TextInv
  <2>6. \A d \in Calls : Len(call'[d].text) = 2
    BY <2>2, OriginalLines DEF TextInv
  <2>7. /\ \A c \in Calls : call'[c].pc \in {"again", "open", "fill"} => c \in inPlace
        /\ \A c \in temps : c \in Calls /\ call'[c].pc \in {"write", "sync", "dead"}
    BY <2>2 DEF TextInv
  <2>8. QED
    BY <2>1, <2>5, <2>6, <2>7 DEF TextInv
<1>3. ASSUME NEW c \in Calls, Step(c) PROVE TextInv'
  BY <1>3, StepIsCareful, CarefulKeeps
<1>4. QED
  BY <1>1, <1>2, <1>3 DEF Next, vars, Swap

(* However calls, failures of the disk, deaths of the process and moves of *)
(* the directory interleave: a call that could make a temporary file tears *)
(* no file and, when it fails or dies, leaves nothing in one (the rename   *)
(* of WriteFileJailed); one that has returned leaves no temporary file.    *)
THEOREM AllOrNothingHolds == Spec => []AllOrNothing
<1>1. Init => TypeOK /\ TextInv
  BY JailInvInit, TextInvInit DEF JailInv
<1>2. TypeOK /\ TextInv /\ [Next]_vars => TextInv'
  BY TextInvNext
<1>3. JailInv /\ [Next]_vars => JailInv'
  BY JailInvNext
<1>4. Init => JailInv
  BY JailInvInit
<1>5. JailInv => TypeOK
  BY DEF JailInv
<1>6. TypeOK /\ TextInv => AllOrNothing
  <2>1. SUFFICES ASSUME TypeOK, TextInv PROVE AllOrNothing
    OBVIOUS
  <2>2. \A c \in temps : Working(c) \/ At(c, "dead")
    BY <2>1 DEF TextInv, Working, At
  <2>3. ASSUME NEW x \in Dirs, NEW c \in Calls \ inPlace PROVE file[x].text # <<c>>
    <3>1. \A e : <<e>> = <<c>> => e = c
      OBVIOUS
    <3>2. Len(<<c>>) = 1
      OBVIOUS
    <3>3. QED
      BY <2>1, <2>3, <3>1, <3>2 DEF TextInv
  <2>4. ASSUME NEW x \in Dirs, NEW c \in Calls \ inPlace,
               call[c].result = "error" \/ At(c, "dead"), NEW i \in DOMAIN file[x].text
        PROVE  file[x].text[i] # c
    <3>1. ~Succeeded(c)
      BY <2>4 DEF Succeeded, At
    <3>2. QED
      BY <2>1, <2>4, <3>1 DEF TextInv, Mentions
  <2>5. QED
    BY <2>2, <2>3, <2>4 DEF AllOrNothing
<1>7. QED
  BY <1>1, <1>2, <1>3, <1>4, <1>5, <1>6, PTL DEF Spec

-----------------------------------------------------------------------------
(* Engines and their extensions: the invariant                             *)

Trs == Nat \X Int
SlotType == [gen : Nat, tr : Trs]
ServerType == [name : STRING, prompt : BOOLEAN]
ToolNames == STRING \cup {"proc"}
ToolType == [name : ToolNames, gen : Nat, tr : Trs]
Builtin == [pack |-> "acp", name |-> ""]
Sources == {Builtin, X!CmdHook} \cup {X!Prompt(n) : n \in STRING}
HookType == [source : Sources, gen : Nat]
SetupLabels == {"hooked", "mcp", "building"}
EngineLabels == SetupLabels \cup {"new", "open", "dropped", "closed", "failed"}
ToolSets == SUBSET ToolType
HookSets == SUBSET HookType
EngineType == [pc : EngineLabels, cfg : Configs, gen : Nat, tools : ToolSets, hooks : HookSets]

SetupTypes ==
    /\ gen \in Nat /\ owner \in Engines \cup {X!NoEngine} /\ failed \in BOOLEAN
    /\ todo \in Seq(ServerType) /\ registered \subseteq STRING
    /\ tools = [n \in DOMAIN tools |-> tools[n]] /\ DOMAIN tools \subseteq ToolNames
    /\ \A n \in DOMAIN tools : tools[n] \in SlotType
    /\ hooks \subseteq HookType
    /\ refs \in [X!Gens -> Nat]
    /\ slots = [n \in DOMAIN slots |-> slots[n]] /\ \A n \in DOMAIN slots : slots[n] \in SlotType
    /\ orphans \in [X!Gens -> SUBSET Trs]
    /\ open \subseteq Trs
    /\ eng \in [Engines -> EngineType]

\* A setup has a generation of its own.
Numbered == {e \in Engines : eng[e].gen # 0}
Numbering ==
    /\ gen = Cardinality(Numbered)
    /\ \A e \in Engines :
          /\ eng[e].gen \in 0 .. gen
          /\ eng[e].gen = 0 <=> eng[e].pc = "new" \/ eng[e].cfg.skip
          /\ eng[e].cfg.skip => eng[e].pc \in {"new", "open", "closed"}
    /\ \A e, f \in Engines : eng[e].gen = eng[f].gen /\ eng[e].gen # 0 => e = f

\* One setup at a time.
Owning ==
    \A e \in Engines :
        /\ owner = e => eng[e].gen = gen /\ eng[e].pc \in SetupLabels \cup {"dropped"}
        /\ eng[e].pc \in SetupLabels => owner = e

\* A generation is counted while an engine has it, and one whose servers may
\* still run has an engine that will release it.
Has(e, g, pcs) == eng[e].gen = g /\ eng[e].pc \in pcs
Counted ==
    \A g \in X!Gens : refs[g] \in {0, 1} /\ (refs[g] = 1 <=> \E e \in Engines : Has(e, g, {"building", "open"}))
Kept(g) == \E e \in Engines : Has(e, g, {"mcp", "building", "open", "dropped"})

SlotsKept ==
    \A n \in DOMAIN slots :
        slots[n].gen \in X!Gens /\ slots[n].tr[1] = slots[n].gen /\ Kept(slots[n].gen)
OrphansKept == \A g \in X!Gens : \A tr \in orphans[g] : tr[1] = g /\ Kept(g)
AllFound ==
    \A tr \in open : (\E n \in DOMAIN slots : slots[n].tr = tr) \/ (\E g \in X!Gens : tr \in orphans[g])

\* What the running setup has registered so far works.
Works(t, g) == t.gen = g => t.tr \in open /\ t.tr[1] = g
SettingUp ==
    /\ \A n \in DOMAIN tools : tools[n].gen <= gen
    /\ \A e \in Engines :
          /\ eng[e].pc = "hooked" =>
                /\ \A n \in DOMAIN slots : slots[n].gen # gen
                /\ \A n \in DOMAIN tools : tools[n].gen # gen
          /\ eng[e].pc \in {"mcp", "building"} /\ ~failed => \A n \in DOMAIN tools : Works(tools[n], gen)
          /\ eng[e].pc = "mcp" =>
                /\ \A n \in DOMAIN slots : slots[n].gen = gen <=> n \in registered
                /\ \A i \in 1 .. Len(todo) : todo[i].name \notin registered
                /\ \A i, j \in 1 .. Len(todo) : todo[i].name = todo[j].name => i = j
          /\ eng[e].pc = "building" => ~failed

OneHook(hs) == \A h, k \in hs : h.source = k.source => h = k
Mine(e, g) == g \in {0, eng[e].gen}
Captured ==
    /\ OneHook(hooks)
    /\ \A e \in Engines : OneHook(eng[e].hooks)
    /\ \A e \in Engines :
          eng[e].pc = "open" =>
             /\ \A t \in eng[e].tools : Works(t, eng[e].gen)
             /\ ~eng[e].cfg.host /\ ~eng[e].cfg.skip =>
                   /\ \A t \in eng[e].tools : Mine(e, t.gen)
                   /\ \A h \in eng[e].hooks : Mine(e, h.gen)

SetupInv ==
    /\ SetupTypes /\ Numbering /\ Owning /\ Counted /\ SlotsKept /\ OrphansKept /\ AllFound
    /\ SettingUp /\ Captured

-----------------------------------------------------------------------------
(* Engines and their extensions                                            *)

(* What steps of an engine find.                                           *)
LEMMA EngineFacts ==
    ASSUME SetupInv, NEW e \in Engines
    PROVE  /\ eng[e] \in EngineType /\ eng = [f \in Engines |-> eng[f]]
           /\ eng[e].pc \in SetupLabels \cup {"dropped"} => eng[e].gen \in X!Gens /\ ~eng[e].cfg.skip
           /\ eng[e].pc = "open" /\ ~eng[e].cfg.skip => eng[e].gen \in X!Gens
           /\ owner = e => eng[e].gen = gen
           /\ \A f \in Engines : eng[f].gen # 0 => eng[f].gen \in X!Gens
<1>1. eng[e] \in EngineType /\ eng = [f \in Engines |-> eng[f]]
  BY DEF SetupInv, SetupTypes
<1>2. /\ gen \in Nat /\ Cardinality(Engines) \in Nat /\ gen <= Cardinality(Engines)
  <2>1. Numbered \subseteq Engines
    BY DEF Numbered
  <2>2. gen = Cardinality(Numbered)
    BY DEF SetupInv, Numbering
  <2>3. IsFiniteSet(Engines)
    BY SetupAssumption
  <2>4. QED
    BY <2>1, <2>2, <2>3, FS_Subset, FS_CardinalityType
<1>3. \A f \in Engines : eng[f].gen \in 0 .. gen /\ (eng[f].gen # 0 => eng[f].gen \in X!Gens)
  <2>1. \A f \in Engines : eng[f].gen \in 0 .. gen
    BY DEF SetupInv, Numbering
  <2>2. X!Gens = 1 .. Cardinality(Engines)
    BY Zenon DEF X!Gens, X!Cardinality, Cardinality
  <2>3. \A n \in 0 .. gen : n # 0 => n \in X!Gens
    BY <1>2, <2>2
  <2>4. QED
    BY <2>1, <2>3
<1>4. QED
  BY <1>1, <1>3 DEF SetupInv, Numbering, Owning, SetupLabels

LEMMA EngineChanges ==
    ASSUME NEW r \in EngineType, NEW p \in EngineLabels
    PROVE  /\ [r EXCEPT !.pc = p] \in EngineType
           /\ \A g \in Nat : [[r EXCEPT !.pc = p] EXCEPT !.gen = g] \in EngineType
           /\ \A ts \in ToolSets, hs \in HookSets :
                 [[[r EXCEPT !.pc = p] EXCEPT !.tools = ts] EXCEPT !.hooks = hs] \in EngineType
BY DEF EngineType

LEMMA SetupStarts == ASSUME X!Init PROVE SetupInv
<1>0. /\ gen = 0 /\ owner = X!NoEngine /\ failed = FALSE /\ todo = <<>> /\ registered = {}
      /\ tools = [n \in {"proc"} |-> X!Static]
      /\ hooks = {[source |-> Builtin, gen |-> 0]}
      /\ refs = [g \in X!Gens |-> 0] /\ slots = <<>> /\ orphans = [g \in X!Gens |-> {}] /\ open = {}
  BY Zenon DEF X!Init, Builtin
<1> PICK c \in [Engines -> Configs] :
        eng = [e \in Engines |-> [pc |-> "new", cfg |-> c[e], gen |-> 0, tools |-> {}, hooks |-> {}]]
  BY Zenon DEF X!Init
<1>1. \A e \in Engines : /\ eng[e].pc = "new" /\ eng[e].gen = 0 /\ eng[e].tools = {} /\ eng[e].hooks = {}
                         /\ eng[e] \in EngineType
  BY DEF EngineType, EngineLabels, ToolSets, HookSets
<1>2. SetupTypes
  <2>1. todo \in Seq(ServerType)
    BY <1>0
  <2>2. tools = [n \in DOMAIN tools |-> tools[n]] /\ DOMAIN tools \subseteq ToolNames
        /\ \A n \in DOMAIN tools : tools[n] \in SlotType
    BY <1>0 DEF X!Static, SlotType, Trs, ToolNames
  <2>3. hooks \subseteq HookType
    <3>1. [source |-> Builtin, gen |-> 0] \in HookType
      BY DEF HookType, Sources
    <3>2. QED
      BY <1>0, <3>1
  <2>4. refs \in [X!Gens -> Nat] /\ orphans \in [X!Gens -> SUBSET Trs] /\ open \subseteq Trs
    BY <1>0
  <2>5. slots = [n \in DOMAIN slots |-> slots[n]] /\ \A n \in DOMAIN slots : slots[n] \in SlotType
    <3>1. DOMAIN slots = {}
      BY <1>0
    <3>2. QED
      BY <1>0, <3>1
  <2>6. eng \in [Engines -> EngineType]
    BY <1>1
  <2>7. QED
    BY <1>0, <2>1, <2>2, <2>3, <2>4, <2>5, <2>6 DEF SetupTypes
<1>3. Numbering
  <2>1. Numbered = {}
    BY <1>1 DEF Numbered
  <2>2. Cardinality(Numbered) = 0
    BY <2>1, FS_EmptySet
  <2>3. \A e \in Engines : eng[e].gen \in 0 .. gen
    BY <1>0, <1>1
  <2>4. QED
    BY <1>0, <1>1, <2>2, <2>3 DEF Numbering
<1>4. Owning
  BY <1>0, <1>1, SetupAssumption DEF Owning, SetupLabels, X!NoEngine
<1>5. Counted /\ OrphansKept
  <2>1. \A g \in X!Gens : refs[g] = 0 /\ orphans[g] = {}
    BY <1>0
  <2>2. \A g \in X!Gens : \A e \in Engines : ~Has(e, g, {"building", "open"})
    BY <1>1 DEF Has
  <2>3. QED
    BY <2>1, <2>2 DEF Counted, OrphansKept
<1>6. SlotsKept /\ AllFound
  <2>1. DOMAIN slots = {}
    BY <1>0
  <2>2. QED
    BY <1>0, <2>1 DEF SlotsKept, AllFound
<1>7. SettingUp
  <2>1. \A n \in DOMAIN tools : tools[n].gen <= gen
    BY <1>0 DEF X!Static
  <2>2. QED
    BY <1>1, <2>1 DEF SettingUp
<1>8. Captured
  BY <1>0, <1>1 DEF Captured, OneHook
<1>9. QED
  BY <1>2, <1>3, <1>4, <1>5, <1>6, <1>7, <1>8 DEF SetupInv

LEMMA BeginKeeps == ASSUME SetupInv, NEW e \in Engines, X!Begin(e) PROVE SetupInv'
<1>1. /\ eng[e] \in EngineType /\ eng[e].pc = "new" /\ ~eng[e].cfg.skip /\ eng[e].gen = 0
      /\ owner = X!NoEngine /\ gen \in Nat
  BY EngineFacts DEF X!Begin, X!At, SetupInv, SetupTypes, Numbering
<1>2. /\ gen' = gen + 1 /\ owner' = e /\ eng' = [eng EXCEPT ![e].pc = "hooked", ![e].gen = gen + 1]
      /\ UNCHANGED <<todo, registered, tools, refs, slots, orphans, open, toggles>>
  BY DEF X!Begin
<1>3. /\ eng' \in [Engines -> EngineType] /\ eng'[e].pc = "hooked" /\ eng'[e].gen = gen + 1
      /\ eng'[e].cfg = eng[e].cfg /\ eng'[e].hooks = eng[e].hooks
      /\ \A f \in Engines \ {e} : eng'[f] = eng[f]
  <2>1. eng \in [Engines -> EngineType]
    BY DEF SetupInv, SetupTypes
  <2>2. [[eng[e] EXCEPT !.pc = "hooked"] EXCEPT !.gen = gen + 1] \in EngineType
    <3>1. "hooked" \in EngineLabels /\ gen + 1 \in Nat /\ eng[e] \in EngineType
      BY <1>1 DEF EngineLabels, SetupLabels
    <3>2. QED
      BY Zenon, <3>1, EngineChanges
  <2>3. QED
    BY <1>1, <1>2, <2>1, <2>2 DEF EngineType
<1>4. /\ hooks' \subseteq HookType /\ OneHook(hooks') /\ failed' \in BOOLEAN
  <2>1. hooks \subseteq HookType /\ OneHook(hooks) /\ \A h \in HookType : h = [source |-> h.source, gen |-> h.gen]
    BY DEF SetupInv, SetupTypes, Captured, HookType
  <2>2. X!HookEntry(X!CmdHook, gen + 1) \in HookType /\ X!HookEntry(X!CmdHook, gen + 1).source = X!CmdHook
    BY <1>1 DEF HookType, X!HookEntry, Sources
  <2>3. failed' \in BOOLEAN
    BY DEF X!Begin
  <2>4. \/ hooks' = {h \in hooks : h.source \notin {X!CmdHook}}
        \/ hooks' = {h \in hooks : h.source \notin {X!CmdHook}} \cup {X!HookEntry(X!CmdHook, gen + 1)}
    BY DEF X!Begin, X!ClearHookSource
  <2>5. QED
    BY <2>1, <2>2, <2>3, <2>4 DEF OneHook
<1>5. SetupTypes'
  BY <1>1, <1>2, <1>3, <1>4 DEF SetupInv, SetupTypes
<1>6. Numbering'
  <2>1. Numbered' = Numbered \cup {e} /\ e \notin Numbered
    BY <1>1, <1>3 DEF Numbered
  <2>2. IsFiniteSet(Numbered)
    <3>1. Numbered \subseteq Engines
      BY DEF Numbered
    <3>2. QED
      BY <3>1, SetupAssumption, FS_Subset
  <2>3. Cardinality(Numbered') = gen + 1
    BY <2>1, <2>2, FS_AddElement DEF SetupInv, Numbering
  <2>4. \A f \in Engines : eng[f].gen \in 0 .. gen
    BY DEF SetupInv, Numbering
  <2>5. \A f \in Engines \ {e} : eng'[f].gen # gen + 1 /\ eng'[f].gen \in 0 .. gen + 1
    BY <1>1, <1>3, <2>4
  <2>6. \A f \in Engines :
          /\ eng'[f].gen \in 0 .. gen + 1
          /\ eng'[f].gen = 0 <=> eng'[f].pc = "new" \/ eng'[f].cfg.skip
          /\ eng'[f].cfg.skip => eng'[f].pc \in {"new", "open", "closed"}
    BY <1>1, <1>3, <2>5 DEF SetupInv, Numbering
  <2>7. \A f, g \in Engines : eng'[f].gen = eng'[g].gen /\ eng'[f].gen # 0 => f = g
    BY <1>1, <1>3, <2>5 DEF SetupInv, Numbering
  <2>8. QED
    BY <1>2, <2>3, <2>6, <2>7 DEF Numbering
<1>7. Owning'
  BY <1>1, <1>2, <1>3, SetupAssumption DEF SetupInv, Owning, SetupLabels
<1>8. \A g, pcs : \A f \in Engines : "new" \notin pcs /\ "hooked" \notin pcs => (Has(f, g, pcs)' <=> Has(f, g, pcs))
  BY <1>1, <1>3 DEF Has
<1>9. Counted' /\ OrphansKept' /\ SlotsKept' /\ AllFound'
  <2>1. Counted'
    BY <1>2, <1>8 DEF SetupInv, Counted, X!Gens
  <2>2. \A g : Kept(g) => Kept(g)'
    BY <1>8 DEF Kept
  <2>3. QED
    BY <1>2, <2>1, <2>2 DEF SetupInv, OrphansKept, SlotsKept, AllFound, X!Gens
<1>10. SettingUp'
  <2>1. \A n \in DOMAIN slots : slots[n].gen \in 0 .. gen
    <3>1. \A f \in Engines : eng[f].gen \in 0 .. gen
      BY DEF SetupInv, Numbering
    <3>2. QED
      BY <3>1 DEF SetupInv, SlotsKept, Kept, Has
  <2>2. \A n \in DOMAIN tools : tools[n].gen <= gen /\ tools[n].gen \in Nat
    BY DEF SetupInv, SettingUp, SetupTypes, SlotType
  <2>3. \A f \in Engines \ {e} : eng'[f].pc \notin SetupLabels
    BY <1>1, <1>3, SetupAssumption DEF SetupInv, Owning
  <2>4. /\ \A n \in DOMAIN tools : tools[n].gen <= gen + 1 /\ tools[n].gen # gen + 1
        /\ \A n \in DOMAIN slots : slots[n].gen # gen + 1
    BY <1>1, <2>1, <2>2
  <2>5. QED
    BY <1>2, <1>3, <2>3, <2>4 DEF SettingUp, SetupLabels
<1>11. Captured'
  BY <1>1, <1>2, <1>3, <1>4 DEF SetupInv, Captured, Works, Mine
<1>12. QED
  BY <1>5, <1>6, <1>7, <1>9, <1>10, <1>11 DEF SetupInv

(* An engine goes on to another label.                                     *)
LEMMA GotoFacts ==
    ASSUME SetupInv, NEW e \in Engines, NEW p \in EngineLabels, X!Goto(e, p)
    PROVE  /\ eng' \in [Engines -> EngineType] /\ eng'[e].pc = p
           /\ \A f \in Engines :
                 /\ eng'[f].gen = eng[f].gen /\ eng'[f].cfg = eng[f].cfg
                 /\ eng'[f].tools = eng[f].tools /\ eng'[f].hooks = eng[f].hooks
                 /\ f # e => eng'[f].pc = eng[f].pc
<1>1. eng \in [Engines -> EngineType] /\ eng' = [eng EXCEPT ![e].pc = p]
  BY DEF SetupInv, SetupTypes, X!Goto
<1>2. [eng[e] EXCEPT !.pc = p] \in EngineType
  BY <1>1, EngineChanges
<1>3. eng' \in [Engines -> EngineType] /\ eng'[e] = [eng[e] EXCEPT !.pc = p]
      /\ \A f \in Engines : f # e => eng'[f] = eng[f]
  BY <1>1, <1>2
<1>4. QED
  BY <1>1, <1>3 DEF EngineType

LEMMA NumberingKept ==
    ASSUME SetupInv, NEW e \in Engines, gen' = gen,
           \A f \in Engines : eng'[f].gen = eng[f].gen /\ eng'[f].cfg = eng[f].cfg,
           \A f \in Engines : f # e => eng'[f].pc = eng[f].pc,
           eng[e].pc = "new" => eng[e].cfg.skip, eng'[e].pc # "new",
           eng[e].cfg.skip => eng'[e].pc \in {"open", "closed"}
    PROVE  Numbering'
<1>1. Numbered' = Numbered
  BY DEF Numbered
<1>2. gen' = Cardinality(Numbered')
  BY <1>1 DEF SetupInv, Numbering
<1>3. \A f \in Engines : eng'[f].gen \in 0 .. gen
  BY DEF SetupInv, Numbering
<1>4. \A f \in Engines : eng'[f].gen = 0 <=> eng'[f].pc = "new" \/ eng'[f].cfg.skip
  BY DEF SetupInv, Numbering
<1>5. \A f \in Engines : eng'[f].cfg.skip => eng'[f].pc \in {"new", "open", "closed"}
  BY DEF SetupInv, Numbering
<1>6. \A f, g \in Engines : eng'[f].gen = eng'[g].gen /\ eng'[f].gen # 0 => f = g
  BY DEF SetupInv, Numbering
<1>7. QED
  BY <1>2, <1>3, <1>4, <1>5, <1>6 DEF Numbering

(* The same counts of engines, the same keepers or more.                   *)
LEMMA HoldersKept ==
    ASSUME SetupInv, NEW e \in Engines,
           \A f \in Engines : eng'[f].gen = eng[f].gen,
           \A f \in Engines : f # e => eng'[f].pc = eng[f].pc
    PROVE  /\ (eng[e].pc \in {"building", "open"} <=> eng'[e].pc \in {"building", "open"}) /\ refs' = refs => Counted'
           /\ (eng[e].pc \in {"mcp", "building", "open", "dropped"}
                 => eng'[e].pc \in {"mcp", "building", "open", "dropped"}) =>
                 /\ \A g : Kept(g) => Kept(g)'
                 /\ UNCHANGED <<slots, orphans, open>> => SlotsKept' /\ OrphansKept' /\ AllFound'
<1>1. ASSUME eng[e].pc \in {"building", "open"} <=> eng'[e].pc \in {"building", "open"}, refs' = refs PROVE Counted'
  <2>1. \A g, f : f \in Engines => (Has(f, g, {"building", "open"})' <=> Has(f, g, {"building", "open"}))
    BY <1>1 DEF Has
  <2>2. QED
    BY <1>1, <2>1 DEF SetupInv, Counted, X!Gens
<1>2. ASSUME eng[e].pc \in {"mcp", "building", "open", "dropped"}
               => eng'[e].pc \in {"mcp", "building", "open", "dropped"}
      PROVE  \A g : Kept(g) => Kept(g)'
  BY <1>2 DEF Kept, Has
<1>3. ASSUME \A g : Kept(g) => Kept(g)', UNCHANGED <<slots, orphans, open>>
      PROVE  SlotsKept' /\ OrphansKept' /\ AllFound'
  BY <1>3 DEF SetupInv, SlotsKept, OrphansKept, AllFound, X!Gens
<1>4. QED
  BY <1>1, <1>2, <1>3

(* Taking hooks away leaves one of each source.                            *)
LEMMA FewerHooks ==
    ASSUME SetupInv, hooks' \subseteq hooks
    PROVE  OneHook(hooks') /\ hooks' \subseteq HookType
BY DEF SetupInv, SetupTypes, Captured, OneHook

(* What engines have captured, when none of them changes it and nothing of *)
(* an open one is closed.                                                  *)
LEMMA CaptureKept ==
    ASSUME SetupInv, OneHook(hooks'),
           \A f \in Engines : /\ eng'[f].gen = eng[f].gen /\ eng'[f].cfg = eng[f].cfg
                              /\ eng'[f].tools = eng[f].tools /\ eng'[f].hooks = eng[f].hooks
                              /\ eng'[f].pc = "open" => eng[f].pc = "open",
           \A f \in Engines : \A tr \in open : eng[f].pc = "open" /\ tr[1] = eng[f].gen => tr \in open'
    PROVE  Captured'
<1>1. \A f \in Engines : OneHook(eng'[f].hooks)
  BY DEF SetupInv, Captured
<1>2. ASSUME NEW f \in Engines, eng'[f].pc = "open" 
      PROVE  \A t \in eng'[f].tools : t.gen = eng'[f].gen => t.tr \in open' /\ t.tr[1] = eng'[f].gen
  <2>1. eng[f].pc = "open" /\ \A t \in eng[f].tools : t.gen = eng[f].gen => t.tr \in open /\ t.tr[1] = eng[f].gen
    BY <1>2 DEF SetupInv, Captured, Works
  <2>2. QED
    BY <2>1
<1>3. ASSUME NEW f \in Engines, eng'[f].pc = "open", ~eng'[f].cfg.host /\ ~eng'[f].cfg.skip
      PROVE  /\ \A t \in eng'[f].tools : t.gen \in {0, eng'[f].gen}
             /\ \A h \in eng'[f].hooks : h.gen \in {0, eng'[f].gen}
  BY <1>3 DEF SetupInv, Captured, Mine
<1>4. QED
  BY <1>1, <1>2, <1>3 DEF Captured, Works, Mine

LEMMA McpBeginKeeps == ASSUME SetupInv, NEW e \in Engines, X!McpBegin(e) PROVE SetupInv'
<1>1. /\ eng[e].pc = "hooked" /\ owner = e /\ X!Goto(e, "mcp") /\ registered' = {}
      /\ hooks' \subseteq hooks
      /\ \/ todo' = eng[e].cfg.servers /\ failed' = failed
         \/ failed' = TRUE /\ todo' = <<>>
      /\ UNCHANGED <<gen, owner, tools, refs, slots, orphans, open>>
  BY DEF X!McpBegin, X!At, X!ClearHookSource
<1>2. /\ eng' \in [Engines -> EngineType] /\ eng'[e].pc = "mcp"
      /\ \A f \in Engines :
            /\ eng'[f].gen = eng[f].gen /\ eng'[f].cfg = eng[f].cfg
            /\ eng'[f].tools = eng[f].tools /\ eng'[f].hooks = eng[f].hooks
            /\ f # e => eng'[f].pc = eng[f].pc
  BY <1>1, GotoFacts DEF EngineLabels, SetupLabels
<1>3. ~eng[e].cfg.skip /\ eng[e].cfg \in Configs
  BY <1>1, EngineFacts DEF SetupLabels, EngineType
<1>4. /\ todo' \in Seq(ServerType)
      /\ \A i, j \in 1 .. Len(todo') : todo'[i].name = todo'[j].name => i = j
  <2>1. /\ eng[e].cfg.servers \in Seq(ServerType)
        /\ \A i, j \in 1 .. Len(eng[e].cfg.servers) :
              eng[e].cfg.servers[i].name = eng[e].cfg.servers[j].name => i = j
    BY <1>3, SetupAssumption DEF ServerType
  <2>2. CASE todo' = <<>>
    BY <2>2
  <2>3. QED
    BY <1>1, <2>1, <2>2
<1>5. failed' \in BOOLEAN
  BY <1>1 DEF SetupInv, SetupTypes
<1>6. OneHook(hooks') /\ hooks' \subseteq HookType
  BY <1>1, FewerHooks
<1>7. SetupTypes'
  BY <1>1, <1>2, <1>4, <1>5, <1>6 DEF SetupInv, SetupTypes, X!Gens
<1>8. Numbering'
  BY <1>1, <1>2, <1>3, NumberingKept
<1>9. Owning'
  BY <1>1, <1>2 DEF SetupInv, Owning, SetupLabels
<1>10. Counted' /\ SlotsKept' /\ OrphansKept' /\ AllFound'
  BY <1>1, <1>2, HoldersKept
<1>11. SettingUp'
  <2>1. \A f \in Engines : eng'[f].pc \in SetupLabels => f = e
    BY <1>1, <1>2 DEF SetupInv, Owning
  <2>2. /\ \A n \in DOMAIN slots : slots[n].gen # gen
        /\ \A n \in DOMAIN tools : tools[n].gen # gen /\ tools[n].gen <= gen
    BY <1>1 DEF SetupInv, SettingUp
  <2>3. QED
    BY <1>1, <1>2, <1>4, <2>1, <2>2 DEF SettingUp, SetupLabels, Works
<1>12. Captured'
  BY <1>1, <1>2, <1>6, CaptureKept
<1>13. QED
  BY <1>7, <1>8, <1>9, <1>10, <1>11, <1>12 DEF SetupInv

LEMMA SkipServerKeeps == ASSUME SetupInv, NEW e \in Engines, X!SkipServer(e) PROVE SetupInv'
<1>1. /\ todo # <<>> /\ todo' = Tail(todo)
      /\ UNCHANGED <<gen, owner, failed, registered, tools, hooks, refs, slots, orphans, open, eng>>
  BY DEF X!SkipServer, X!shared
<1>2. todo \in Seq(ServerType)
  BY DEF SetupInv, SetupTypes
<1>3. /\ todo' \in Seq(ServerType) /\ Len(todo') = Len(todo) - 1 /\ Len(todo) \in Nat
      /\ \A i \in 1 .. Len(todo') : todo'[i] = todo[i + 1]
  BY <1>1, <1>2
<1>4. SetupTypes'
  BY <1>1, <1>3 DEF SetupInv, SetupTypes, X!Gens
<1>5. SettingUp'
  <2>1. ASSUME NEW f \in Engines, eng[f].pc = "mcp"
        PROVE  /\ \A i \in 1 .. Len(todo') : todo'[i].name \notin registered
               /\ \A i, j \in 1 .. Len(todo') : todo'[i].name = todo'[j].name => i = j
    <3>1. /\ \A i \in 1 .. Len(todo) : todo[i].name \notin registered
          /\ \A i, j \in 1 .. Len(todo) : todo[i].name = todo[j].name => i = j
      BY <2>1 DEF SetupInv, SettingUp
    <3>2. \A i \in 1 .. Len(todo') : i + 1 \in 1 .. Len(todo)
      BY <1>3
    <3>3. \A i \in 1 .. Len(todo') : todo'[i].name \notin registered
      BY <1>3, <3>1, <3>2
    <3>4. ASSUME NEW i \in 1 .. Len(todo'), NEW j \in 1 .. Len(todo'), todo'[i].name = todo'[j].name PROVE i = j
      <4>1. todo[i + 1].name = todo[j + 1].name
        BY <1>3, <3>4
      <4>2. i + 1 = j + 1
        BY <3>1, <3>2, <4>1
      <4>3. QED
        BY <4>2, <1>3
    <3>5. QED
      BY <3>3, <3>4
  <2>2. QED
    BY <1>1, <2>1 DEF SetupInv, SettingUp, Works
<1>6. Numbering' /\ Owning' /\ Counted' /\ SlotsKept' /\ OrphansKept' /\ AllFound' /\ Captured'
  BY <1>1 DEF SetupInv, Numbering, Numbered, Owning, Counted, Has, SlotsKept, Kept, OrphansKept, AllFound,
              Captured, Works, Mine, X!Gens
<1>7. QED
  BY <1>4, <1>5, <1>6 DEF SetupInv

(* A hook that replaces those of its source is the only one.               *)
LEMMA HookReplaced ==
    ASSUME SetupInv, NEW src \in Sources, NEW g \in Nat,
           \/ hooks' = X!ClearHookSource(hooks, {src})
           \/ hooks' = X!ClearHookSource(hooks, {src}) \cup {X!HookEntry(src, g)}
    PROVE  OneHook(hooks') /\ hooks' \subseteq HookType
<1>1. hooks \subseteq HookType /\ OneHook(hooks)
  BY DEF SetupInv, SetupTypes, Captured
<1>2. X!HookEntry(src, g) \in HookType /\ X!HookEntry(src, g).source = src
  BY DEF HookType, X!HookEntry
<1>3. \A h \in X!ClearHookSource(hooks, {src}) : h \in hooks /\ h.source # src
  BY DEF X!ClearHookSource
<1>4. QED
  BY <1>1, <1>2, <1>3 DEF OneHook

LEMMA RegisterKeeps == ASSUME SetupInv, NEW e \in Engines, X!Register(e) PROVE SetupInv'
<1> DEFINE s == Head(todo)
           tr == <<gen, Len(eng[e].cfg.servers) - Len(todo) + 1>>
           new == [gen |-> gen, tr |-> tr]
           old == slots[s.name]
           replaces == s.name \in DOMAIN slots
<1>1. /\ eng[e].pc = "mcp" /\ owner = e /\ todo # <<>> /\ todo' = Tail(todo)
      /\ open' = (IF replaces THEN open \ X!Retired(old) ELSE open) \cup {tr}
      /\ orphans' = IF replaces THEN X!Orphaned(old) ELSE orphans
      /\ slots' = X!With(slots, s.name, new)
      /\ \/ hooks' = X!ClearHookSource(hooks, {X!Prompt(s.name)})
         \/ hooks' = X!ClearHookSource(hooks, {X!Prompt(s.name)}) \cup {X!HookEntry(X!Prompt(s.name), gen)}
      /\ tools' = IF s.name \in registered THEN tools ELSE X!With(tools, s.name, X!ToolEntry(tr, gen))
      /\ registered' = registered \cup {s.name}
      /\ UNCHANGED <<gen, owner, failed, refs, eng>>
  BY DEF X!Register, X!At
<1>2. todo \in Seq(ServerType)
  BY DEF SetupInv, SetupTypes
<1>3. /\ todo' \in Seq(ServerType) /\ Len(todo') = Len(todo) - 1 /\ Len(todo) \in Nat /\ 1 \in 1 .. Len(todo)
      /\ \A i \in 1 .. Len(todo') : todo'[i] = todo[i + 1] /\ i + 1 \in 1 .. Len(todo)
      /\ s = todo[1] /\ s \in ServerType
  BY <1>1, <1>2
<1>4. /\ gen \in Nat /\ gen \in X!Gens /\ eng[e].gen = gen /\ tr \in Trs /\ tr[1] = gen /\ new \in SlotType
      /\ new.gen = gen /\ new.tr = tr
  <2>1. gen \in Nat /\ gen \in X!Gens /\ eng[e].gen = gen
    BY <1>1, EngineFacts DEF SetupInv, SetupTypes, SetupLabels
  <2>2. Len(eng[e].cfg.servers) \in Nat
    <3>1. eng[e].cfg \in Configs
      BY EngineFacts DEF EngineType
    <3>2. QED
      BY <3>1, SetupAssumption
  <2>3. QED
    BY <1>3, <2>1, <2>2 DEF Trs, SlotType
<1>5. /\ s.name \in STRING
      /\ \A i \in 1 .. Len(todo) : todo[i].name \notin registered
      /\ \A i, j \in 1 .. Len(todo) : todo[i].name = todo[j].name => i = j
      /\ \A n \in DOMAIN slots : slots[n].gen = gen <=> n \in registered
      /\ s.name \notin registered
  BY <1>1, <1>3 DEF SetupInv, SettingUp, ServerType
<1>6. replaces => /\ old \in SlotType /\ old.gen \in X!Gens /\ old.gen # gen /\ old.tr[1] = old.gen
                  /\ refs[old.gen] \in {0, 1} /\ (X!InUse(old.gen) <=> refs[old.gen] = 1)
                  /\ (refs[old.gen] = 1 <=> \E f \in Engines : Has(f, old.gen, {"building", "open"}))
  <2>1. \A g \in X!Gens : refs[g] \in {0, 1} /\ (X!InUse(g) <=> refs[g] = 1)
                          /\ (refs[g] = 1 <=> \E f \in Engines : Has(f, g, {"building", "open"}))
    BY DEF SetupInv, Counted, X!InUse
  <2>2. replaces => old \in SlotType /\ old.gen \in X!Gens /\ old.tr[1] = old.gen /\ old.gen # gen
    BY <1>5 DEF SetupInv, SetupTypes, SlotsKept
  <2>3. QED
    BY <2>1, <2>2
<1> HIDE DEF s, tr, new
<1>7. /\ DOMAIN slots' = DOMAIN slots \cup {s.name} /\ slots'[s.name] = new
      /\ slots' = [n \in DOMAIN slots' |-> slots'[n]]
      /\ \A n \in DOMAIN slots : n # s.name => slots'[n] = slots[n]
  BY <1>1 DEF X!With
<1>8. /\ tr \in open' /\ open' \subseteq open \cup {tr}
      /\ \A x \in open : x \in open' \/ (replaces /\ x = old.tr /\ refs[old.gen] = 0)
      /\ \A x \in open' : x = tr \/ (replaces /\ refs[old.gen] = 0 => x # old.tr)
  BY <1>1, <1>6 DEF X!Retired
<1>9. /\ orphans' \in [X!Gens -> SUBSET Trs]
      /\ \A g \in X!Gens : orphans[g] \subseteq orphans'[g]
      /\ \A g \in X!Gens : \A x \in orphans'[g] : x \in orphans[g] \/ (replaces /\ g = old.gen /\ x = old.tr /\ refs[g] = 1)
      /\ replaces /\ refs[old.gen] = 1 => old.tr \in orphans'[old.gen]
  <2>1. orphans \in [X!Gens -> SUBSET Trs]
    BY DEF SetupInv, SetupTypes
  <2>2. CASE replaces /\ refs[old.gen] = 1
    <3>1. orphans' = [orphans EXCEPT ![old.gen] = @ \cup {old.tr}] /\ old.tr \in Trs
      BY <1>1, <1>6, <2>2 DEF X!Orphaned, SlotType
    <3>2. QED
      BY <1>6, <2>1, <2>2, <3>1
  <2>3. CASE ~(replaces /\ refs[old.gen] = 1)
    <3>1. orphans' = orphans
      BY <1>1, <1>6, <2>3 DEF X!Orphaned
    <3>2. QED
      BY <1>6, <2>1, <2>3, <3>1
  <2>4. QED
    BY <2>2, <2>3
<1>10. /\ DOMAIN tools' = DOMAIN tools \cup {s.name} /\ tools' = [n \in DOMAIN tools' |-> tools'[n]]
       /\ tools'[s.name] \in SlotType /\ tools'[s.name].gen = gen /\ tools'[s.name].tr = tr
       /\ \A n \in DOMAIN tools : n # s.name => tools'[n] = tools[n]
  <2>1. X!ToolEntry(tr, gen) = [gen |-> gen, tr |-> tr]
    BY DEF X!ToolEntry
  <2>2. X!ToolEntry(tr, gen) \in SlotType /\ X!ToolEntry(tr, gen).gen = gen /\ X!ToolEntry(tr, gen).tr = tr
    BY <1>4, <2>1 DEF SlotType
  <2>3. QED
    BY <1>1, <1>5, <2>2 DEF X!With
<1>11. OneHook(hooks') /\ hooks' \subseteq HookType
  <2>1. X!Prompt(s.name) \in Sources
    BY <1>5 DEF Sources
  <2>2. QED
    BY <1>1, <1>4, <2>1, HookReplaced
<1>12. SetupTypes'
  <2>1. DOMAIN tools' \subseteq ToolNames /\ (\A n \in DOMAIN tools' : tools'[n] \in SlotType)
    BY <1>5, <1>10 DEF SetupInv, SetupTypes, ToolNames
  <2>2. \A n \in DOMAIN slots' : slots'[n] \in SlotType
    BY <1>4, <1>7 DEF SetupInv, SetupTypes
  <2>3. open' \subseteq Trs /\ registered' \subseteq STRING
    BY <1>1, <1>4, <1>5, <1>8 DEF SetupInv, SetupTypes
  <2>4. QED
    BY <1>1, <1>3, <1>7, <1>9, <1>10, <1>11, <2>1, <2>2, <2>3 DEF SetupInv, SetupTypes, X!Gens
<1>13. Numbering' /\ Owning' /\ Counted'
  BY <1>1 DEF SetupInv, Numbering, Numbered, Owning, Counted, Has, X!Gens
<1>14. \A g : Kept(g)' <=> Kept(g)
  BY <1>1 DEF Kept, Has
<1>15. SlotsKept'
  <2>1. Kept(gen)
    BY <1>1, <1>4 DEF Kept, Has
  <2>2. QED
    BY <1>4, <1>7, <1>14, <2>1 DEF SetupInv, SlotsKept, X!Gens
<1>16. OrphansKept'
  <2>1. replaces => Kept(old.gen)
    BY DEF SetupInv, SlotsKept
  <2>2. QED
    BY <1>6, <1>9, <1>14, <2>1 DEF SetupInv, OrphansKept, X!Gens
<1>17. AllFound'
  <2>1. ASSUME NEW x \in open'
        PROVE  (\E n \in DOMAIN slots' : slots'[n].tr = x) \/ (\E g \in X!Gens : x \in orphans'[g])
    <3>1. CASE x = tr
      BY <1>4, <1>7, <3>1
    <3>2. CASE x # tr
      <4>1. (\E n \in DOMAIN slots : slots[n].tr = x) \/ (\E g \in X!Gens : x \in orphans[g])
        BY <1>8, <3>2 DEF SetupInv, AllFound
      <4>2. CASE \E g \in X!Gens : x \in orphans[g]
        BY <1>9, <4>2
      <4>3. ASSUME NEW n \in DOMAIN slots, slots[n].tr = x
            PROVE  (\E m \in DOMAIN slots' : slots'[m].tr = x) \/ (\E g \in X!Gens : x \in orphans'[g])
        <5>1. CASE n # s.name
          BY <1>7, <4>3, <5>1
        <5>2. CASE n = s.name
          BY <1>6, <1>8, <1>9, <3>2, <4>3, <5>2
        <5>3. QED
          BY <5>1, <5>2
      <4>4. QED
        BY <4>1, <4>2, <4>3
    <3>3. QED
      BY <3>1, <3>2
  <2>2. QED
    BY <2>1 DEF AllFound, X!Gens
<1>18. SettingUp'
  <2>1. \A f \in Engines : eng[f].pc \in SetupLabels => f = e
    BY <1>1 DEF SetupInv, Owning
  <2>2. \A n \in DOMAIN tools' : tools'[n].gen <= gen
    BY <1>4, <1>10 DEF SetupInv, SettingUp
  <2>3. ~failed' => \A n \in DOMAIN tools' : tools'[n].gen = gen => tools'[n].tr \in open' /\ tools'[n].tr[1] = gen
    <3>1. ~failed => \A n \in DOMAIN tools : tools[n].gen = gen => tools[n].tr \in open /\ tools[n].tr[1] = gen
      BY <1>1 DEF SetupInv, SettingUp, Works
    <3>2. \A x \in open : x[1] = gen => x \in open'
      BY <1>6, <1>8
    <3>3. QED
      BY <1>1, <1>4, <1>8, <1>10, <3>1, <3>2
  <2>4. \A n \in DOMAIN slots' : slots'[n].gen = gen <=> n \in registered'
    BY <1>1, <1>4, <1>5, <1>7
  <2>5. \A i \in 1 .. Len(todo') : todo'[i].name \notin registered'
    <3>1. ASSUME NEW i \in 1 .. Len(todo') PROVE todo'[i].name \notin registered /\ todo'[i].name # s.name
      <4>1. i + 1 # 1
        BY <1>3
      <4>2. QED
        BY <1>3, <1>5, <4>1
    <3>2. QED
      BY <1>1, <3>1
  <2>6. ASSUME NEW i \in 1 .. Len(todo'), NEW j \in 1 .. Len(todo'), todo'[i].name = todo'[j].name PROVE i = j
    <3>1. i + 1 = j + 1
      BY <1>3, <1>5, <2>6
    <3>2. QED
      BY <1>3, <3>1
  <2>7. QED
    BY <1>1, <2>1, <2>2, <2>3, <2>4, <2>5, <2>6 DEF SettingUp, SetupLabels, Works
<1>19. Captured'
  <2>1. ASSUME NEW f \in Engines, NEW x \in open, eng[f].pc = "open", x[1] = eng[f].gen PROVE x \in open'
    <3>1. replaces /\ x = old.tr => refs[old.gen] = 1
      BY <1>6, <2>1 DEF Has
    <3>2. QED
      BY <1>6, <1>8, <3>1
  <2>2. QED
    BY <1>1, <1>11, <2>1, CaptureKept
<1>20. QED
  BY <1>12, <1>13, <1>15, <1>16, <1>17, <1>18, <1>19 DEF SetupInv

LEMMA ServerFailsKeeps == ASSUME SetupInv, NEW e \in Engines, X!ServerFails(e) PROVE SetupInv'
<1> DEFINE names == registered \cap DOMAIN slots
<1>1. /\ eng[e].pc = "mcp" /\ owner = e /\ todo' = <<>> /\ failed' = TRUE
      /\ open' = open \ {slots[n].tr : n \in names} /\ slots' = X!Without(slots, names)
      /\ hooks' \subseteq hooks
      /\ UNCHANGED <<gen, owner, registered, tools, refs, orphans, eng>>
  BY DEF X!ServerFails, X!At, X!ClearHookSource
<1>2. /\ DOMAIN slots' = DOMAIN slots \ names /\ slots' = [n \in DOMAIN slots' |-> slots'[n]]
      /\ \A n \in DOMAIN slots' : slots'[n] = slots[n]
  BY <1>1 DEF X!Without, X!Restrict
<1>3. /\ gen \in X!Gens /\ eng[e].gen = gen
      /\ \A n \in DOMAIN slots : slots[n].gen = gen <=> n \in registered
      /\ \A n \in DOMAIN slots : slots[n].tr[1] = slots[n].gen
  BY <1>1, EngineFacts DEF SetupInv, SettingUp, SlotsKept, SetupLabels
<1>4. \A x \in open : x[1] # gen => x \in open'
  BY <1>1, <1>3
<1>5. SetupTypes'
  <2>1. todo' \in Seq(ServerType)
    BY <1>1
  <2>2. hooks' \subseteq HookType
    BY <1>1, FewerHooks
  <2>3. QED
    BY <1>1, <1>2, <2>1, <2>2 DEF SetupInv, SetupTypes, X!Gens
<1>6. Numbering' /\ Owning' /\ Counted'
  BY <1>1 DEF SetupInv, Numbering, Numbered, Owning, Counted, Has, X!Gens
<1>7. SlotsKept' /\ OrphansKept'
  <2>1. \A g : Kept(g)' <=> Kept(g)
    BY <1>1 DEF Kept, Has
  <2>2. SlotsKept'
    BY <1>2, <2>1 DEF SetupInv, SlotsKept, X!Gens
  <2>3. OrphansKept'
    BY <1>1, <2>1 DEF SetupInv, OrphansKept, X!Gens
  <2>4. QED
    BY <2>2, <2>3
<1>8. AllFound'
  BY ZenonT(40), <1>1, <1>2 DEF SetupInv, AllFound, X!Gens
<1>9. SettingUp'
  <2>1. \A f \in Engines : eng[f].pc \in SetupLabels => f = e
    BY <1>1 DEF SetupInv, Owning
  <2>2. \A n \in DOMAIN slots' : slots'[n].gen = gen <=> n \in registered
    BY <1>1, <1>2, <1>3
  <2>3. \A i \in 1 .. Len(todo') : FALSE
    BY <1>1
  <2>4. \A n \in DOMAIN tools : tools[n].gen <= gen
    BY DEF SetupInv, SettingUp
  <2>5. QED
    BY <1>1, <2>1, <2>2, <2>3, <2>4 DEF SettingUp, SetupLabels
<1>10. Captured'
  <2>1. \A f \in Engines : eng[f].pc = "open" => eng[f].gen # gen
    BY <1>1, <1>3 DEF SetupInv, Numbering, X!Gens
  <2>2. OneHook(hooks')
    BY <1>1, FewerHooks
  <2>3. QED
    BY <1>1, <1>4, <2>1, <2>2, CaptureKept
<1>11. QED
  BY <1>5, <1>6, <1>7, <1>8, <1>9, <1>10 DEF SetupInv

(* A generation whose engine is done with it leaves nothing.               *)
LEMMA Released ==
    ASSUME SetupInv, NEW e \in Engines, eng[e].gen \in X!Gens, X!ReleaseGeneration(eng[e].gen),
           \A f \in Engines : eng'[f].gen = eng[f].gen,
           \A f \in Engines : f # e => eng'[f].pc = eng[f].pc
    PROVE  /\ slots' = [n \in DOMAIN slots' |-> slots'[n]] /\ \A n \in DOMAIN slots' : slots'[n] \in SlotType
           /\ \A n \in DOMAIN slots' : n \in DOMAIN slots /\ slots'[n] = slots[n] /\ slots[n].gen # eng[e].gen
           /\ orphans' \in [X!Gens -> SUBSET Trs] /\ open' \subseteq Trs
           /\ \A x \in open : x[1] # eng[e].gen => x \in open'
           /\ SlotsKept' /\ OrphansKept' /\ AllFound'
<1> DEFINE g == eng[e].gen
           names == {n \in DOMAIN slots : slots[n].gen = g}
<1>1. /\ open' = open \ ({slots[n].tr : n \in names} \cup orphans[g]) /\ slots' = X!Without(slots, names)
      /\ orphans' = [orphans EXCEPT ![g] = {}]
  BY DEF X!ReleaseGeneration
<1>2. /\ DOMAIN slots' = DOMAIN slots \ names /\ slots' = [n \in DOMAIN slots' |-> slots'[n]]
      /\ \A n \in DOMAIN slots' : n \in DOMAIN slots /\ slots'[n] = slots[n] /\ slots[n].gen # g
  BY <1>1 DEF X!Without, X!Restrict
<1>3. /\ orphans' \in [X!Gens -> SUBSET Trs] /\ orphans'[g] = {}
      /\ \A h \in X!Gens : h # g => orphans'[h] = orphans[h]
  BY <1>1 DEF SetupInv, SetupTypes
<1>4. \A x \in open : x[1] # g => x \in open'
  BY <1>1 DEF SetupInv, SlotsKept, OrphansKept
<1>5. \A h : h # g /\ Kept(h) => Kept(h)'
  BY DEF Kept, Has
<1>6. SlotsKept'
  BY <1>2, <1>5 DEF SetupInv, SlotsKept, X!Gens
<1>7. OrphansKept'
  BY <1>3, <1>5 DEF SetupInv, OrphansKept, X!Gens
<1>8. AllFound'
  <2>1. ASSUME NEW x \in open'
        PROVE  (\E n \in DOMAIN slots' : slots'[n].tr = x) \/ (\E h \in X!Gens : x \in orphans'[h])
    <3>1. (\E n \in DOMAIN slots : slots[n].tr = x) \/ (\E h \in X!Gens : x \in orphans[h])
      BY <1>1 DEF SetupInv, AllFound
    <3>2. ASSUME NEW n \in DOMAIN slots, slots[n].tr = x PROVE \E m \in DOMAIN slots' : slots'[m].tr = x
      <4>1. n \notin names
        BY <1>1, <3>2
      <4>2. n \in DOMAIN slots' /\ slots'[n] = slots[n]
        BY <1>2, <4>1
      <4>3. QED
        BY <3>2, <4>2
    <3>3. ASSUME NEW h \in X!Gens, x \in orphans[h] PROVE x \in orphans'[h]
      BY <1>1, <1>3, <3>3
    <3>4. QED
      BY <3>1, <3>2, <3>3
  <2>2. QED
    BY <2>1 DEF AllFound, X!Gens
<1>9. open' \subseteq Trs /\ \A n \in DOMAIN slots' : slots'[n] \in SlotType
  BY <1>1, <1>2 DEF SetupInv, SetupTypes
<1>10. QED
  BY <1>2, <1>3, <1>4, <1>6, <1>7, <1>8, <1>9

LEMMA EndSetupKeeps == ASSUME SetupInv, NEW e \in Engines, X!EndSetup(e) PROVE SetupInv'
<1>1. /\ eng[e].pc = "mcp" /\ owner = e /\ UNCHANGED <<gen, failed, todo, registered>>
  BY DEF X!EndSetup, X!At
<1>2. /\ gen \in X!Gens /\ gen \in Nat /\ eng[e].gen = gen /\ ~eng[e].cfg.skip
      /\ \A f \in Engines : eng[f].pc \in SetupLabels => f = e
  BY <1>1, EngineFacts DEF SetupInv, SetupTypes, SetupLabels, Owning
<1>3. CASE failed
  <2>1. /\ tools' = X!Without(tools, {n \in DOMAIN tools : tools[n].gen = gen})
        /\ hooks' \subseteq hooks /\ X!ReleaseGeneration(eng[e].gen)
        /\ owner' = X!NoEngine /\ X!Goto(e, "failed") /\ refs' = refs
    BY <1>2, <1>3 DEF X!EndSetup
  <2>2. /\ eng' \in [Engines -> EngineType] /\ eng'[e].pc = "failed"
        /\ \A f \in Engines :
              /\ eng'[f].gen = eng[f].gen /\ eng'[f].cfg = eng[f].cfg
              /\ eng'[f].tools = eng[f].tools /\ eng'[f].hooks = eng[f].hooks
              /\ f # e => eng'[f].pc = eng[f].pc
    BY <2>1, GotoFacts DEF EngineLabels
  <2>3. /\ slots' = [n \in DOMAIN slots' |-> slots'[n]] /\ (\A n \in DOMAIN slots' : slots'[n] \in SlotType)
        /\ orphans' \in [X!Gens -> SUBSET Trs] /\ open' \subseteq Trs
        /\ \A x \in open : x[1] # gen => x \in open'
        /\ SlotsKept' /\ OrphansKept' /\ AllFound'
    BY <1>2, <2>1, <2>2, Released
  <2>4. /\ DOMAIN tools' \subseteq DOMAIN tools /\ tools' = [n \in DOMAIN tools' |-> tools'[n]]
        /\ \A n \in DOMAIN tools' : tools'[n] = tools[n]
    BY <2>1 DEF X!Without, X!Restrict
  <2>5. OneHook(hooks') /\ hooks' \subseteq HookType
    BY <2>1, FewerHooks
  <2>6. SetupTypes'
    BY <1>1, <2>1, <2>2, <2>3, <2>4, <2>5 DEF SetupInv, SetupTypes, X!Gens
  <2>7. Numbering'
    BY <1>1, <1>2, <2>2, NumberingKept
  <2>8. Owning'
    BY <1>2, <2>1, <2>2, SetupAssumption DEF Owning, SetupLabels
  <2>9. Counted'
    BY <1>1, <2>1, <2>2, HoldersKept
  <2>10. SettingUp'
    BY <1>1, <1>2, <2>2, <2>4 DEF SetupInv, SettingUp, SetupLabels
  <2>11. Captured'
    <3>1. \A f \in Engines : eng[f].pc = "open" => eng[f].gen # gen
      BY <1>1, <1>2 DEF SetupInv, Numbering, X!Gens
    <3>2. QED
      BY <2>2, <2>3, <2>5, <3>1, CaptureKept
  <2>12. QED
    BY <2>3, <2>6, <2>7, <2>8, <2>9, <2>10, <2>11 DEF SetupInv
<1>4. CASE ~failed
  <2>1. /\ refs' = [refs EXCEPT ![gen] = @ + 1] /\ X!Goto(e, "building")
        /\ UNCHANGED <<owner, tools, hooks, slots, orphans, open>>
    BY <1>4 DEF X!EndSetup
  <2>2. /\ eng' \in [Engines -> EngineType] /\ eng'[e].pc = "building"
        /\ \A f \in Engines :
              /\ eng'[f].gen = eng[f].gen /\ eng'[f].cfg = eng[f].cfg
              /\ eng'[f].tools = eng[f].tools /\ eng'[f].hooks = eng[f].hooks
              /\ f # e => eng'[f].pc = eng[f].pc
    BY <2>1, GotoFacts DEF EngineLabels, SetupLabels
  <2>3. /\ refs \in [X!Gens -> Nat] /\ refs' \in [X!Gens -> Nat] /\ refs'[gen] = refs[gen] + 1
        /\ \A g \in X!Gens : g # gen => refs'[g] = refs[g]
    BY <1>2, <2>1 DEF SetupInv, SetupTypes
  <2>4. SetupTypes'
    BY <1>1, <2>1, <2>2, <2>3 DEF SetupInv, SetupTypes, X!Gens
  <2>5. Numbering'
    BY <1>1, <1>2, <2>2, NumberingKept
  <2>6. Owning'
    BY <1>1, <2>1, <2>2 DEF SetupInv, Owning, SetupLabels
  <2>7. Counted'
    <3>1. refs[gen] = 0
      <4>1. \A f \in Engines : ~Has(f, gen, {"building", "open"})
        BY <1>1, <1>2 DEF SetupInv, Numbering, Has, X!Gens
      <4>2. QED
        BY <1>2, <4>1 DEF SetupInv, Counted
    <3>2. Has(e, gen, {"building", "open"})'
      BY <1>1, <1>2, <2>2 DEF Has
    <3>3. ASSUME NEW g \in X!Gens, g # gen, NEW f \in Engines
          PROVE  Has(f, g, {"building", "open"})' <=> Has(f, g, {"building", "open"})
      BY <1>2, <2>2, <3>3 DEF Has
    <3>4. \A g \in X!Gens :
            refs'[g] \in {0, 1} /\ (refs'[g] = 1 <=> \E f \in Engines : Has(f, g, {"building", "open"})')
      <4>1. ASSUME NEW g \in X!Gens, g # gen
            PROVE  refs'[g] \in {0, 1} /\ (refs'[g] = 1 <=> \E f \in Engines : Has(f, g, {"building", "open"})')
        BY <2>3, <3>3, <4>1 DEF SetupInv, Counted
      <4>2. refs'[gen] = 1 /\ \E f \in Engines : Has(f, gen, {"building", "open"})'
        BY <2>3, <3>1, <3>2
      <4>3. TAKE g \in X!Gens
      <4>4. CASE g = gen
        BY <1>1, <4>2, <4>4
      <4>5. QED
        BY <4>1, <4>4
    <3>5. QED
      BY <3>4 DEF Counted, X!Gens
  <2>8. SlotsKept' /\ OrphansKept' /\ AllFound'
    BY <2>1, <2>2, HoldersKept
  <2>9. SettingUp'
    BY <1>1, <1>2, <1>4, <2>1, <2>2 DEF SetupInv, SettingUp, SetupLabels, Works
  <2>10. Captured'
    <3>1. OneHook(hooks')
      BY <2>1 DEF SetupInv, Captured
    <3>2. QED
      BY <2>1, <2>2, <3>1, CaptureKept
  <2>11. QED
    BY <2>4, <2>5, <2>6, <2>7, <2>8, <2>9, <2>10 DEF SetupInv
<1>5. QED
  BY <1>3, <1>4

LEMMA BuildKeeps == ASSUME SetupInv, NEW e \in Engines, X!Build(e) PROVE SetupInv'
<1> DEFINE ts == X!ToolsForEngine(eng[e].cfg)
           hs == X!HooksForEngine(eng[e].cfg)
<1>1. /\ \/ eng[e].pc = "building" /\ owner = e
         \/ eng[e].pc = "new" /\ eng[e].cfg.skip
      /\ eng' = [eng EXCEPT ![e].pc = "open", ![e].tools = ts, ![e].hooks = hs]
      /\ owner' = IF owner = e THEN X!NoEngine ELSE owner
      /\ UNCHANGED <<gen, failed, todo, registered, tools, hooks, refs, slots, orphans, open>>
  BY DEF X!Build, X!At, X!shared
<1>2. /\ eng \in [Engines -> EngineType] /\ eng[e] \in EngineType /\ gen \in Nat
      /\ hooks \subseteq HookType /\ OneHook(hooks)
      /\ DOMAIN tools \subseteq ToolNames /\ \A n \in DOMAIN tools : tools[n] \in SlotType
  BY DEF SetupInv, SetupTypes, Captured
<1>3. /\ ts \in ToolSets
      /\ \A t \in ts : \E n \in DOMAIN tools : t.gen = tools[n].gen /\ t.tr = tools[n].tr
                                               /\ X!Keeps(eng[e].cfg, t.gen) /\ ~eng[e].cfg.skip
  <2>1. ASSUME NEW t \in ts
        PROVE  /\ t \in ToolType
               /\ \E n \in DOMAIN tools : t.gen = tools[n].gen /\ t.tr = tools[n].tr
                                          /\ X!Keeps(eng[e].cfg, t.gen) /\ ~eng[e].cfg.skip
    <3>1. ~eng[e].cfg.skip
      BY DEF X!ToolsForEngine
    <3>2. PICK n \in {m \in DOMAIN tools : X!Keeps(eng[e].cfg, tools[m].gen)} :
                 t = [name |-> n, gen |-> tools[n].gen, tr |-> tools[n].tr]
      BY <3>1 DEF X!ToolsForEngine
    <3>3. n \in DOMAIN tools /\ X!Keeps(eng[e].cfg, tools[n].gen)
      OBVIOUS
    <3>4. t.gen = tools[n].gen /\ t.tr = tools[n].tr
      BY <3>2
    <3>5. n \in ToolNames /\ tools[n].gen \in Nat /\ tools[n].tr \in Trs
      BY <1>2, <3>3 DEF SlotType
    <3>6. t \in ToolType
      BY <3>2, <3>5 DEF ToolType
    <3>7. QED
      BY <3>1, <3>3, <3>4, <3>6
  <2>2. QED
    BY <2>1 DEF ToolSets
<1>4. /\ hs \in HookSets /\ OneHook(hs)
      /\ \A h \in hs : X!Keeps(eng[e].cfg, h.gen)
  BY <1>2 DEF X!HooksForEngine, HookSets, OneHook
<1> HIDE DEF ts, hs
<1>5. /\ eng' \in [Engines -> EngineType] /\ eng'[e].pc = "open" /\ eng'[e].tools = ts /\ eng'[e].hooks = hs
      /\ \A f \in Engines : eng'[f].gen = eng[f].gen /\ eng'[f].cfg = eng[f].cfg
      /\ \A f \in Engines : f # e => eng'[f] = eng[f]
  <2>1. eng' = [eng EXCEPT ![e] = [[[eng[e] EXCEPT !.pc = "open"] EXCEPT !.tools = ts] EXCEPT !.hooks = hs]]
    BY <1>1, <1>2
  <2>2. "open" \in EngineLabels
    BY DEF EngineLabels
  <2>3. [[[eng[e] EXCEPT !.pc = "open"] EXCEPT !.tools = ts] EXCEPT !.hooks = hs] \in EngineType
    BY Zenon, <1>2, <1>3, <1>4, <2>2, EngineChanges
  <2>4. /\ eng' \in [Engines -> EngineType]
        /\ eng'[e] = [[[eng[e] EXCEPT !.pc = "open"] EXCEPT !.tools = ts] EXCEPT !.hooks = hs]
        /\ \A f \in Engines : f # e => eng'[f] = eng[f]
    BY <1>2, <2>1, <2>3
  <2>5. eng'[e].pc = "open" /\ eng'[e].tools = ts /\ eng'[e].hooks = hs
        /\ eng'[e].gen = eng[e].gen /\ eng'[e].cfg = eng[e].cfg
    BY <1>2, <2>4 DEF EngineType
  <2>6. QED
    BY <2>4, <2>5
<1>6. SetupTypes'
  <2>1. owner' \in Engines \cup {X!NoEngine}
    BY <1>1 DEF SetupInv, SetupTypes
  <2>2. QED
    BY <1>1, <1>5, <2>1 DEF SetupInv, SetupTypes, X!Gens
<1>7. Numbering'
  BY <1>1, <1>5, NumberingKept
<1>8. Owning'
  <2>1. \A f \in Engines : eng[f].pc \in SetupLabels => owner = f
    BY DEF SetupInv, Owning
  <2>2. \A f \in Engines : f # e /\ owner' = f => owner = f
    BY <1>1, SetupAssumption
  <2>3. owner' # e
    BY <1>1, SetupAssumption
  <2>4. ASSUME NEW f \in Engines, f # e, eng[f].pc \in SetupLabels PROVE owner' = f
    BY <1>1, <2>1, <2>4
  <2>5. QED
    BY <1>1, <1>5, <2>2, <2>3, <2>4 DEF SetupInv, Owning, SetupLabels
<1>9. Counted'
  <2>1. ASSUME NEW g \in X!Gens, NEW f \in Engines
        PROVE  Has(f, g, {"building", "open"})' <=> Has(f, g, {"building", "open"})
    <3>1. eng[e].pc = "new" => eng[e].gen # g
      BY <1>1, EngineFacts DEF SetupInv, Numbering, X!Gens
    <3>2. QED
      BY <1>1, <1>5, <3>1 DEF Has
  <2>2. QED
    BY <1>1, <2>1 DEF SetupInv, Counted, X!Gens
<1>10. SlotsKept' /\ OrphansKept' /\ AllFound'
  BY <1>1, <1>5, HoldersKept
<1>11. SettingUp'
  BY <1>1, <1>5 DEF SetupInv, SettingUp, Works
<1>12. Captured'
  <2>1. ASSUME NEW f \in Engines, f # e
        PROVE  /\ OneHook(eng'[f].hooks)
               /\ eng'[f].pc = "open" =>
                     /\ \A t \in eng'[f].tools : t.gen = eng'[f].gen => t.tr \in open /\ t.tr[1] = eng'[f].gen
                     /\ ~eng'[f].cfg.host /\ ~eng'[f].cfg.skip =>
                           /\ \A t \in eng'[f].tools : t.gen \in {0, eng'[f].gen}
                           /\ \A h \in eng'[f].hooks : h.gen \in {0, eng'[f].gen}
    BY <1>5, <2>1 DEF SetupInv, Captured, Works, Mine
  <2>2. ~eng[e].cfg.skip => eng[e].pc = "building" /\ eng[e].gen = gen /\ ~failed
    BY <1>1, EngineFacts DEF SetupInv, SettingUp
  <2>3. \A t \in ts : t.gen = eng[e].gen => t.tr \in open /\ t.tr[1] = eng[e].gen
    BY <1>3, <2>2 DEF SetupInv, SettingUp, Works
  <2>4. ~eng[e].cfg.skip /\ ~eng[e].cfg.host =>
            /\ \A t \in ts : t.gen \in {0, eng[e].gen}
            /\ \A h \in hs : h.gen \in {0, eng[e].gen}
    BY <1>3, <1>4, <2>2 DEF X!Keeps
  <2>5. ASSUME NEW f \in Engines
        PROVE  /\ OneHook(eng'[f].hooks)
               /\ eng'[f].pc = "open" =>
                     /\ \A t \in eng'[f].tools : t.gen = eng'[f].gen => t.tr \in open /\ t.tr[1] = eng'[f].gen
                     /\ ~eng'[f].cfg.host /\ ~eng'[f].cfg.skip =>
                           /\ \A t \in eng'[f].tools : t.gen \in {0, eng'[f].gen}
                           /\ \A h \in eng'[f].hooks : h.gen \in {0, eng'[f].gen}
    <3>1. CASE f = e
      BY <1>4, <1>5, <2>3, <2>4, <3>1
    <3>2. QED
      BY <2>1, <3>1
  <2>6. QED
    BY <1>1, <1>2, <2>5 DEF Captured, Works, Mine
<1>13. QED
  BY <1>6, <1>7, <1>8, <1>9, <1>10, <1>11, <1>12 DEF SetupInv

LEMMA DropKeeps == ASSUME SetupInv, NEW e \in Engines, X!Drop(e) PROVE SetupInv'
<1> DEFINE p == IF eng[e].cfg.skip THEN "closed" ELSE "dropped"
<1>1. /\ eng[e].pc = "open" \/ (eng[e].pc = "building" /\ owner = e)
      /\ refs' = IF eng[e].cfg.skip THEN refs ELSE [refs EXCEPT ![eng[e].gen] = @ - 1]
      /\ X!Goto(e, p)
      /\ UNCHANGED <<gen, owner, failed, todo, registered, tools, hooks, slots, orphans, open>>
  BY DEF X!Drop, X!At, X!setup
<1>2. /\ eng' \in [Engines -> EngineType] /\ eng'[e].pc = p
      /\ \A f \in Engines :
            /\ eng'[f].gen = eng[f].gen /\ eng'[f].cfg = eng[f].cfg
            /\ eng'[f].tools = eng[f].tools /\ eng'[f].hooks = eng[f].hooks
            /\ f # e => eng'[f].pc = eng[f].pc
  <2>1. p \in EngineLabels
    BY DEF EngineLabels
  <2>2. QED
    BY <1>1, <2>1, GotoFacts
<1>3. /\ ~eng[e].cfg.skip => eng[e].gen \in X!Gens
      /\ eng[e].pc = "building" => ~eng[e].cfg.skip
      /\ eng[e].cfg.skip => eng[e].gen = 0
  BY <1>1, EngineFacts DEF SetupInv, Numbering, SetupLabels
<1>4. /\ refs' \in [X!Gens -> Nat] /\ Counted'
  <2>1. CASE eng[e].cfg.skip
    <3>1. ASSUME NEW g \in X!Gens, NEW f \in Engines
          PROVE  Has(f, g, {"building", "open"})' <=> Has(f, g, {"building", "open"})
      <4>1. eng[e].gen # g
        BY <1>3, <2>1 DEF X!Gens
      <4>2. QED
        BY <1>2, <4>1 DEF Has
    <3>2. QED
      BY <1>1, <2>1, <3>1 DEF SetupInv, SetupTypes, Counted, X!Gens
  <2>2. CASE ~eng[e].cfg.skip
    <3>1. refs[eng[e].gen] = 1 /\ eng[e].gen \in X!Gens
      BY <1>1, <1>3, <2>2 DEF SetupInv, Counted, Has
    <3>2. /\ refs' \in [X!Gens -> Nat] /\ refs'[eng[e].gen] = 0
          /\ \A g \in X!Gens : g # eng[e].gen => refs'[g] = refs[g]
      BY <1>1, <2>2, <3>1 DEF SetupInv, SetupTypes
    <3>3. \A f \in Engines : ~Has(f, eng[e].gen, {"building", "open"})'
      <4>1. \A f \in Engines : f # e => eng[f].gen # eng[e].gen
        BY <3>1 DEF SetupInv, Numbering, X!Gens
      <4>2. eng'[e].gen = eng[e].gen /\ eng'[e].pc \notin {"building", "open"}
        BY <1>2
      <4>3. QED
        BY <1>2, <4>1, <4>2 DEF Has
    <3>4. \A g \in X!Gens : g # eng[e].gen =>
             \A f \in Engines : Has(f, g, {"building", "open"})' <=> Has(f, g, {"building", "open"})
      BY <1>2 DEF Has
    <3>5. ASSUME NEW g \in X!Gens
          PROVE  refs'[g] \in {0, 1} /\ (refs'[g] = 1 <=> \E f \in Engines : Has(f, g, {"building", "open"})')
      <4>1. CASE g = eng[e].gen
        <5>1. \A f \in Engines : ~Has(f, g, {"building", "open"})'
          BY <1>2, <3>3, <4>1 DEF Has
        <5>2. QED
          BY <3>2, <4>1, <5>1
      <4>2. CASE g # eng[e].gen
        BY <3>2, <3>4, <4>2 DEF SetupInv, Counted
      <4>3. QED
        BY <4>1, <4>2
    <3>6. QED
      BY <3>2, <3>5 DEF Counted, X!Gens
  <2>3. QED
    BY <2>1, <2>2
<1>5. SetupTypes'
  BY <1>1, <1>2, <1>4 DEF SetupInv, SetupTypes, X!Gens
<1>6. Numbering'
  <2>1. eng[e].cfg.skip => eng'[e].pc \in {"open", "closed"}
    BY <1>2
  <2>2. eng[e].pc # "new" /\ eng'[e].pc # "new"
    BY <1>1, <1>2
  <2>3. QED
    BY <1>1, <1>2, <2>1, <2>2, NumberingKept
<1>7. Owning'
  <2>1. eng[e].pc = "open" => owner # e
    BY DEF SetupInv, Owning, SetupLabels
  <2>2. QED
    BY <1>1, <1>2, <1>3, <2>1 DEF SetupInv, Owning, SetupLabels
<1>8. SlotsKept' /\ OrphansKept' /\ AllFound'
  <2>1. ASSUME NEW g \in X!Gens, Kept(g) PROVE Kept(g)'
    <3>1. PICK f \in Engines : Has(f, g, {"mcp", "building", "open", "dropped"})
      BY <2>1 DEF Kept
    <3>2. f = e => ~eng[e].cfg.skip
      BY <1>3, <3>1 DEF Has, X!Gens
    <3>3. Has(f, g, {"mcp", "building", "open", "dropped"})'
      BY <1>2, <3>1, <3>2 DEF Has
    <3>4. QED
      BY <3>3 DEF Kept
  <2>2. QED
    BY <1>1, <2>1 DEF SetupInv, SlotsKept, OrphansKept, AllFound, X!Gens
<1>9. SettingUp'
  BY <1>1, <1>2 DEF SetupInv, SettingUp, Works
<1>10. Captured'
  <2>1. OneHook(hooks')
    BY <1>1 DEF SetupInv, Captured
  <2>2. eng'[e].pc # "open"
    BY <1>2
  <2>3. QED
    BY <1>1, <1>2, <2>1, <2>2, CaptureKept
<1>11. QED
  BY <1>4, <1>5, <1>6, <1>7, <1>8, <1>9, <1>10 DEF SetupInv

LEMMA ReleaseKeeps == ASSUME SetupInv, NEW e \in Engines, X!Release(e) PROVE SetupInv'
<1>1. /\ eng[e].pc = "dropped" /\ X!ReleaseGeneration(eng[e].gen) /\ X!Goto(e, "closed")
      /\ owner' = IF owner = e THEN X!NoEngine ELSE owner
      /\ UNCHANGED <<gen, failed, todo, registered, tools, hooks, refs>>
  BY DEF X!Release, X!At
<1>2. /\ eng' \in [Engines -> EngineType] /\ eng'[e].pc = "closed"
      /\ \A f \in Engines :
            /\ eng'[f].gen = eng[f].gen /\ eng'[f].cfg = eng[f].cfg
            /\ eng'[f].tools = eng[f].tools /\ eng'[f].hooks = eng[f].hooks
            /\ f # e => eng'[f].pc = eng[f].pc
  BY <1>1, GotoFacts DEF EngineLabels
<1>3. /\ eng[e].gen \in X!Gens /\ ~eng[e].cfg.skip
      /\ \A f \in Engines : f # e => eng[f].gen # eng[e].gen
  BY <1>1, EngineFacts DEF SetupInv, Numbering, X!Gens
<1>4. /\ slots' = [n \in DOMAIN slots' |-> slots'[n]] /\ (\A n \in DOMAIN slots' : slots'[n] \in SlotType)
      /\ \A n \in DOMAIN slots' : n \in DOMAIN slots /\ slots'[n] = slots[n] /\ slots[n].gen # eng[e].gen
      /\ orphans' \in [X!Gens -> SUBSET Trs] /\ open' \subseteq Trs
      /\ \A x \in open : x[1] # eng[e].gen => x \in open'
      /\ SlotsKept' /\ OrphansKept' /\ AllFound'
  BY <1>1, <1>2, <1>3, Released
<1>5. SetupTypes'
  <2>1. owner' \in Engines \cup {X!NoEngine}
    BY <1>1 DEF SetupInv, SetupTypes
  <2>2. QED
    BY <1>1, <1>2, <1>4, <2>1 DEF SetupInv, SetupTypes, X!Gens
<1>6. Numbering'
  BY <1>1, <1>2, <1>3, NumberingKept
<1>7. Owning'
  <2>1. \A f \in Engines : f # e /\ owner' = f => owner = f
    BY <1>1, SetupAssumption
  <2>2. owner' # e
    BY <1>1, SetupAssumption
  <2>3. ASSUME NEW f \in Engines, f # e, eng[f].pc \in SetupLabels PROVE owner' = f
    BY <1>1, <2>3 DEF SetupInv, Owning
  <2>4. QED
    BY <1>1, <1>2, <2>1, <2>2, <2>3 DEF SetupInv, Owning, SetupLabels
<1>8. Counted'
  BY <1>1, <1>2, HoldersKept
<1>9. SettingUp'
  <2>1. ASSUME NEW f \in Engines, eng[f].pc \in {"mcp", "building"}
        PROVE  /\ f # e /\ eng[f].gen = gen /\ gen # eng[e].gen
               /\ eng[f].pc = "mcp" => \A n \in DOMAIN slots' : slots'[n].gen = gen <=> n \in registered
    <3>1. f # e /\ eng[f].gen = gen
      BY <1>1, <2>1, EngineFacts DEF SetupInv, Owning, SetupLabels
    <3>2. QED
      BY <1>3, <1>4, <2>1, <3>1 DEF SetupInv, SettingUp
  <2>2. ASSUME NEW f \in Engines, eng[f].pc \in {"mcp", "building"}, ~failed
        PROVE  \A n \in DOMAIN tools : tools[n].gen = gen => tools[n].tr \in open' /\ tools[n].tr[1] = gen
    <3>1. \A n \in DOMAIN tools : tools[n].gen = gen => tools[n].tr \in open /\ tools[n].tr[1] = gen
      BY <2>2 DEF SetupInv, SettingUp, Works
    <3>2. gen # eng[e].gen
      BY <2>1, <2>2
    <3>3. QED
      BY <1>4, <3>1, <3>2
  <2>3. \A n \in DOMAIN tools : tools[n].gen <= gen
    BY DEF SetupInv, SettingUp
  <2>4. \A f \in Engines :
          /\ eng[f].pc = "hooked" =>
                /\ \A n \in DOMAIN slots' : slots'[n].gen # gen
                /\ \A n \in DOMAIN tools : tools[n].gen # gen
          /\ eng[f].pc = "mcp" =>
                /\ \A i \in 1 .. Len(todo) : todo[i].name \notin registered
                /\ \A i, j \in 1 .. Len(todo) : todo[i].name = todo[j].name => i = j
          /\ eng[f].pc = "building" => ~failed
    BY <1>4 DEF SetupInv, SettingUp
  <2>5. QED
    BY <1>1, <1>2, <2>1, <2>2, <2>3, <2>4 DEF SettingUp, Works
<1>10. Captured'
  <2>1. OneHook(hooks')
    BY <1>1 DEF SetupInv, Captured
  <2>2. \A f \in Engines : eng[f].pc = "open" => eng[f].gen # eng[e].gen
    BY <1>1, <1>3
  <2>3. QED
    BY <1>2, <1>4, <2>1, <2>2, CaptureKept
<1>11. QED
  BY <1>4, <1>5, <1>6, <1>7, <1>8, <1>9, <1>10 DEF SetupInv

LEMMA SetupUntouched ==
    ASSUME SetupInv,
           UNCHANGED <<gen, owner, failed, todo, registered, tools, hooks, refs, slots, orphans, open, eng>>
    PROVE  SetupInv'
<1>1. SetupTypes' /\ Numbering'
  BY DEF SetupInv, SetupTypes, Numbering, Numbered, X!Gens
<1>2. Owning' /\ Counted' /\ SlotsKept' /\ OrphansKept' /\ AllFound'
  BY DEF SetupInv, Owning, Counted, SlotsKept, OrphansKept, AllFound, Kept, Has, X!Gens
<1>3. SettingUp' /\ Captured'
  BY DEF SetupInv, SettingUp, Captured, Works, Mine
<1>4. QED
  BY <1>1, <1>2, <1>3 DEF SetupInv

LEMMA SetupSteps == ASSUME SetupInv, X!Next PROVE SetupInv'
<1>1. CASE \E x \in DOMAIN insts : X!Toggle(x)
  BY <1>1, SetupUntouched DEF X!Toggle, X!setup
<1>2. ASSUME NEW e \in Engines, X!Steps(e) PROVE SetupInv'
  BY <1>2, BeginKeeps, McpBeginKeeps, RegisterKeeps, SkipServerKeeps, ServerFailsKeeps, EndSetupKeeps,
     BuildKeeps, DropKeeps, ReleaseKeeps DEF X!Steps
<1>3. QED
  BY <1>1, <1>2 DEF X!Next

(* What the invariant says of engines that work side by side.              *)
LEMMA SetupMeans == ASSUME SetupInv PROVE X!OwnToolsWork /\ X!NothingLeft /\ X!Isolated /\ X!OneHookPerSource
<1>1. X!OwnToolsWork
  BY DEF SetupInv, Captured, Works, X!OwnToolsWork, X!At
<1>2. X!NothingLeft
  <2>1. ASSUME \A e \in Engines : eng[e].pc \in {"new", "closed", "failed"}
        PROVE  open = {} /\ DOMAIN slots = {} /\ \A g \in X!Gens : orphans[g] = {}
    <3>1. \A g : ~Kept(g)
      BY <2>1 DEF Kept, Has
    <3>2. DOMAIN slots = {} /\ \A g \in X!Gens : orphans[g] = {}
      BY <3>1 DEF SetupInv, SlotsKept, OrphansKept
    <3>3. QED
      BY <3>2 DEF SetupInv, AllFound
  <2>2. QED
    BY <2>1 DEF X!NothingLeft
<1>3. X!Isolated
  <2>1. ASSUME NEW e \in Engines, eng[e].pc = "open", ~eng[e].cfg.host, ~eng[e].cfg.skip
        PROVE  \A x \in eng[e].tools \cup {[name |-> "", gen |-> h.gen, tr |-> <<>>] : h \in eng[e].hooks} :
                  x.gen \in {0, eng[e].gen}
    <3>1. /\ \A t \in eng[e].tools : t.gen \in {0, eng[e].gen}
          /\ \A h \in eng[e].hooks : h.gen \in {0, eng[e].gen}
      BY <2>1 DEF SetupInv, Captured, Mine
    <3>2. \A a, b, c : [name |-> a, gen |-> b, tr |-> c].gen = b
      OBVIOUS
    <3>3. TAKE x \in eng[e].tools \cup {[name |-> "", gen |-> h.gen, tr |-> <<>>] : h \in eng[e].hooks}
    <3>4. CASE x \in eng[e].tools
      BY <3>1, <3>4
    <3>5. ASSUME NEW h \in eng[e].hooks, x = [name |-> "", gen |-> h.gen, tr |-> <<>>]
          PROVE  x.gen \in {0, eng[e].gen}
      <4>1. x.gen = h.gen
        BY Zenon, <3>2, <3>5
      <4>2. QED
        BY <3>1, <4>1
    <3>6. QED
      BY Zenon, <3>4, <3>5
  <2>2. QED
    BY Zenon, <2>1 DEF X!Isolated, X!At
<1>4. X!OneHookPerSource
  BY DEF SetupInv, Captured, OneHook, X!OneHookPerSource
<1>5. QED
  BY <1>1, <1>2, <1>3, <1>4

-----------------------------------------------------------------------------
(* Background processes                                                    *)

ProcType == [who : {"free", "ours", "stranger"}, alive : BOOLEAN, leader : BOOLEAN, kids : BOOLEAN]
OpIds == P!AllIds \cup {""}
OpLabels == {"idle", "check", "spawn", "write", "settle", "grace"}
OpType ==
    [kind : {"none", "start", "stop"}, id : OpIds, keep : BOOLEAN, pc : OpLabels, pid : Pids \cup {0}]

ProcTypes ==
    /\ proc \in [Pids -> ProcType]
    /\ pidFile \in [P!AllIds -> Pids \cup {0}]
    /\ op \in [Hosts -> OpType]
    /\ cleanups = [e \in Hosts |-> cleanups[e]] /\ \A e \in Hosts : cleanups[e] \subseteq Uses[e]
    /\ opened \subseteq Hosts
    /\ owned \in [Pids -> Hosts \cup {P!Nobody}]

\* Ours lead a session, and what is being killed is nobody else's.
Leading == \A p \in Pids : /\ proc[p].who = "ours" => proc[p].leader
                           /\ proc[p].who = "free" => ~proc[p].alive
Killing == \A e \in Hosts : op[e].pc = "grace" /\ proc[op[e].pid].alive => proc[op[e].pid].leader

\* Where a call is.
InCall ==
    \A e \in Hosts :
        /\ op[e].pc # "idle" => op[e].id \in Uses[e] /\ e \in opened
        /\ op[e].pc \in {"spawn", "write", "settle"} => op[e].kind = "start"
        /\ op[e].pc = "grace" => op[e].kind = "stop"
        /\ op[e].pc \in {"write", "settle", "grace"} => op[e].pid \in Pids

\* The pid files of an engine that is alone with its ids say what it does, and
\* one of its processes is in one that a cleanup or a stop has before it.
Owns(e, p) == owned[p] = e /\ proc[p].alive /\ proc[p].who = "ours"
Stopping(e, id) == op[e].kind = "stop" /\ op[e].id = id /\ op[e].pc \in {"check", "grace"}
RecordedOf(e) ==
    P!Alone(e) =>
        /\ op[e].pc \in {"settle", "grace"} => pidFile[op[e].id] = op[e].pid
        /\ op[e].pc \in {"spawn", "write"} => pidFile[op[e].id] = 0 \/ ~Owns(e, pidFile[op[e].id])
        /\ \A p \in Pids : Owns(e, p) =>
              /\ e \in opened
              /\ \E id \in Uses[e] : pidFile[id] = p /\ (id \in cleanups[e] \/ Stopping(e, id))
Recorded == \A e \in Hosts : RecordedOf(e)

ProcInv == ProcTypes /\ hit = {} /\ Leading /\ Killing /\ InCall /\ Recorded

LEMMA NoOpIsOp ==
    /\ P!NoOp \in OpType /\ P!NoOp.pc = "idle" /\ P!NoOp.kind = "none" /\ P!NoOp.pid = 0
<1>1. ASSUME NEW id \in OpIds, NEW r, r = [kind |-> "none", id |-> id, keep |-> FALSE, pc |-> "idle", pid |-> 0]
      PROVE  r \in OpType /\ r.pc = "idle" /\ r.kind = "none" /\ r.pid = 0
  BY <1>1 DEF OpType, OpLabels
<1>2. "" \in OpIds
  BY Zenon DEF OpIds
<1>3. QED
  BY Zenon, <1>1, <1>2 DEF P!NoOp

LEMMA FreeIsProc == P!Free \in ProcType /\ P!Free.who = "free" /\ ~P!Free.alive
BY DEF P!Free, ProcType

LEMMA CallFacts ==
    ASSUME ProcInv, NEW e \in Hosts
    PROVE  /\ op[e] \in OpType /\ Uses[e] \subseteq P!AllIds
           /\ \A id \in P!AllIds : pidFile[id] \in Pids \cup {0}
           /\ op[e].pc # "idle" => op[e].id \in Uses[e] /\ op[e].id \in P!AllIds /\ e \in opened
           /\ op \in [Hosts -> OpType] /\ proc \in [Pids -> ProcType]
           /\ 0 \notin Pids
<1>1. Uses[e] \subseteq P!AllIds
  BY DEF P!AllIds
<1>2. 0 \notin Pids
  BY ProcAssumption
<1>3. QED
  BY <1>1, <1>2 DEF ProcInv, ProcTypes, InCall

(* Processes that only end take nothing away from what is known of calls.  *)
OpEnds == \A p \in Pids :
           proc'[p].alive => /\ proc[p].alive /\ proc'[p].who = proc[p].who /\ proc'[p].leader = proc[p].leader

LEMMA EndsChanges ==
    ASSUME ProcInv, proc' \in [Pids -> ProcType],
           \A p \in Pids : proc'[p] = proc[p] \/ proc'[p] = P!Free
    PROVE  OpEnds /\ Leading'
BY FreeIsProc DEF ProcInv, Leading, OpEnds

LEMMA EndedIsNotOwned ==
    ASSUME ProcInv, OpEnds, NEW e \in Hosts, NEW p \in Pids, owned'[p] = owned[p] \/ owned'[p] # e, Owns(e, p)'
    PROVE  Owns(e, p)
BY DEF OpEnds, Owns

(* An engine whose call, files and cleanups stay, and which gets no        *)
(* process, keeps its record.                                              *)
LEMMA OthersRecorded ==
    ASSUME ProcInv, NEW f \in Hosts,
           op'[f] = op[f], cleanups'[f] = cleanups[f], f \in opened => f \in opened',
           P!Alone(f) => \A id \in Uses[f] : pidFile'[id] = pidFile[id],
           \A p \in Pids : Owns(f, p)' => Owns(f, p)
    PROVE  RecordedOf(f)'
<1> SUFFICES ASSUME P!Alone(f) PROVE RecordedOf(f)'
  BY DEF RecordedOf, P!Alone
<1>1. RecordedOf(f) /\ (op[f].pc # "idle" => op[f].id \in Uses[f])
  BY DEF ProcInv, Recorded, InCall
<1>2. op[f].pc # "idle" => pidFile'[op[f].id] = pidFile[op[f].id] /\ pidFile[op[f].id] \in Pids \cup {0}
  BY <1>1, CallFacts
<1>3. op'[f].pc \in {"settle", "grace"} => pidFile'[op'[f].id] = op'[f].pid
  BY <1>1, <1>2 DEF RecordedOf
<1>4. op'[f].pc \in {"spawn", "write"} => pidFile'[op'[f].id] = 0 \/ ~Owns(f, pidFile[op[f].id])'
  <2>1. ASSUME op[f].pc \in {"spawn", "write"}, pidFile[op[f].id] # 0
        PROVE  ~Owns(f, pidFile[op[f].id])'
    <3> DEFINE p == pidFile[op[f].id]
    <3>1. pidFile'[op'[f].id] = p /\ p \in Pids
      BY <1>2, <2>1
    <3>2. ~Owns(f, p)
      BY <1>1, <2>1 DEF RecordedOf
    <3>3. QED
      BY <3>1, <3>2 DEF Owns
  <2>2. QED
    BY <1>2, <2>1
<1>5. ASSUME NEW p \in Pids, Owns(f, p)'
      PROVE  /\ f \in opened'
             /\ \E id \in Uses[f] : pidFile'[id] = p /\ (id \in cleanups'[f] \/ Stopping(f, id)')
  <2>1. Owns(f, p)
    BY <1>5
  <2>2. PICK id \in Uses[f] : f \in opened /\ pidFile[id] = p /\ (id \in cleanups[f] \/ Stopping(f, id))
    BY <1>1, <2>1 DEF RecordedOf
  <2>3. Stopping(f, id)' <=> Stopping(f, id)
    BY DEF Stopping
  <2>4. QED
    BY <2>2, <2>3
<1>6. QED
  BY <1>3, <1>4, <1>5 DEF RecordedOf

LEMMA ProcStarts == ASSUME P!Init PROVE ProcInv
<1>1. /\ proc = [p \in Pids |-> P!Free] /\ pidFile = [i \in P!AllIds |-> 0] /\ op = [e \in Hosts |-> P!NoOp]
      /\ cleanups = [e \in Hosts |-> {}] /\ opened = Hosts /\ owned = [p \in Pids |-> P!Nobody] /\ hit = {}
  BY DEF P!Init
<1>2. ProcTypes
  BY <1>1, NoOpIsOp, FreeIsProc DEF ProcTypes
<1>3. Leading
  BY <1>1, FreeIsProc DEF Leading
<1>4. Killing /\ InCall
  BY <1>1, NoOpIsOp DEF Killing, InCall
<1>5. Recorded
  BY <1>1, NoOpIsOp, FreeIsProc DEF Recorded, RecordedOf, Owns
<1>6. QED
  BY <1>1, <1>2, <1>3, <1>4, <1>5 DEF ProcInv

(* A call goes on; files, cleanups and processes stay.                     *)
LEMMA CallGoesOn ==
    ASSUME ProcInv, NEW e \in Hosts, NEW r \in OpType, op' = [op EXCEPT ![e] = r],
           UNCHANGED <<proc, pidFile, cleanups, opened, owned, hit>>,
           r.pc # "idle" => r.id \in Uses[e] /\ e \in opened,
           r.pc \in {"idle", "check", "spawn"},
           r.pc = "spawn" => r.kind = "start" /\ (pidFile[r.id] = 0 \/ ~proc[pidFile[r.id]].alive),
           \A id \in Uses[e] : Stopping(e, id) => r.kind = "stop" /\ r.id = id /\ r.pc = "check"
    PROVE  ProcInv'
<1>1. op \in [Hosts -> OpType] /\ op' \in [Hosts -> OpType] /\ op'[e] = r /\ \A f \in Hosts : f # e => op'[f] = op[f]
  BY CallFacts
<1>2. ProcTypes' /\ hit' = {} /\ Leading'
  BY <1>1 DEF ProcInv, ProcTypes, Leading, P!AllIds
<1>3. Killing' /\ InCall'
  BY <1>1 DEF ProcInv, Killing, InCall
<1>4. RecordedOf(e)'
  <2> SUFFICES ASSUME P!Alone(e) PROVE RecordedOf(e)'
    BY DEF RecordedOf, P!Alone
  <2>1. op'[e].pc \in {"spawn", "write"} => pidFile'[op'[e].id] = 0 \/ ~Owns(e, pidFile[op[e].id])'
    BY <1>1 DEF Owns
  <2>2. ASSUME NEW p \in Pids, Owns(e, p)'
        PROVE  e \in opened' /\ \E id \in Uses[e] : pidFile'[id] = p /\ (id \in cleanups'[e] \/ Stopping(e, id)')
    <3>1. Owns(e, p)
      BY <2>2 DEF Owns
    <3>2. PICK id \in Uses[e] : e \in opened /\ pidFile[id] = p /\ (id \in cleanups[e] \/ Stopping(e, id))
      BY <3>1 DEF ProcInv, Recorded, RecordedOf
    <3>3. Stopping(e, id) => Stopping(e, id)'
      BY <1>1 DEF Stopping
    <3>4. QED
      BY <3>2, <3>3
  <2>3. QED
    BY <1>1, <2>1, <2>2 DEF RecordedOf
<1>5. Recorded'
  <2>1. ASSUME NEW f \in Hosts, f # e PROVE RecordedOf(f)'
    BY <1>1, <2>1, OthersRecorded DEF Owns
  <2>2. QED
    BY <1>4, <2>1 DEF Recorded
<1>6. QED
  BY <1>2, <1>3, <1>5 DEF ProcInv

LEMMA BeginCallKeeps ==
    ASSUME ProcInv, NEW e \in Hosts, NEW kind \in {"start", "stop"}, NEW id \in Uses[e], NEW keep \in BOOLEAN,
           P!Begin(e, kind, id, keep)
    PROVE  ProcInv'
<1> DEFINE r == [kind |-> kind, id |-> id, keep |-> keep, pc |-> "check", pid |-> 0]
<1>1. /\ e \in opened /\ op[e].pc = "idle" /\ op' = [op EXCEPT ![e] = r]
      /\ UNCHANGED <<proc, pidFile, cleanups, opened, owned, hit>>
  BY DEF P!Begin
<1>2. r \in OpType /\ r.pc = "check" /\ r.id = id
  BY CallFacts DEF OpType, OpLabels, OpIds
<1>3. \A i \in Uses[e] : ~Stopping(e, i)
  BY <1>1 DEF Stopping
<1> HIDE DEF r
<1>4. QED
  BY <1>1, <1>2, <1>3, CallGoesOn

LEMMA StartCheckKeeps == ASSUME ProcInv, NEW e \in Hosts, P!StartCheck(e) PROVE ProcInv'
<1>1. /\ op[e].kind = "start" /\ op[e].pc = "check" /\ op[e].id \in Uses[e] /\ e \in opened
      /\ UNCHANGED <<proc, pidFile, cleanups, opened, owned, hit>>
      /\ \A i \in Uses[e] : ~Stopping(e, i)
  BY CallFacts DEF P!StartCheck, Stopping
<1>2. CASE P!PidAlive(pidFile[op[e].id])
  <2>1. op' = [op EXCEPT ![e] = P!NoOp]
    BY <1>2 DEF P!StartCheck
  <2>2. QED
    BY <1>1, <2>1, NoOpIsOp, CallGoesOn
<1>3. CASE ~P!PidAlive(pidFile[op[e].id])
  <2> DEFINE r == [op[e] EXCEPT !.pc = "spawn"]
  <2>1. op' = [op EXCEPT ![e] = r]
    BY <1>3, CallFacts DEF P!StartCheck
  <2>2. r \in OpType /\ r.pc = "spawn" /\ r.kind = "start" /\ r.id = op[e].id
    BY <1>1, CallFacts DEF OpType, OpLabels
  <2>3. pidFile[r.id] = 0 \/ ~proc[pidFile[r.id]].alive
    BY <1>3, <2>2 DEF P!PidAlive
  <2> HIDE DEF r
  <2>4. QED
    BY <1>1, <2>1, <2>2, <2>3, CallGoesOn
<1>4. QED
  BY <1>2, <1>3

LEMMA SpawnKeeps == ASSUME ProcInv, NEW e \in Hosts, P!Spawn(e) PROVE ProcInv'
<1>1. /\ op[e].kind = "start" /\ op[e].pc = "spawn" /\ op[e].id \in Uses[e] /\ e \in opened
      /\ UNCHANGED <<pidFile, cleanups, opened, hit>>
      /\ \A i \in Uses[e] : ~Stopping(e, i)
  BY CallFacts DEF P!Spawn, Stopping
<1>2. CASE op' = [op EXCEPT ![e] = P!NoOp] /\ UNCHANGED <<proc, starts, owned>>
  BY <1>1, <1>2, NoOpIsOp, CallGoesOn
<1>3. ASSUME NEW p \in Pids, proc[p].who = "free",
             proc' = [proc EXCEPT ![p] = [who |-> "ours", alive |-> TRUE, leader |-> TRUE, kids |-> FALSE]],
             op' = [op EXCEPT ![e].pc = "write", ![e].pid = p], owned' = [owned EXCEPT ![p] = P!Nobody]
      PROVE  ProcInv'
  <2> DEFINE r == [[op[e] EXCEPT !.pc = "write"] EXCEPT !.pid = p]
             n == [who |-> "ours", alive |-> TRUE, leader |-> TRUE, kids |-> FALSE]
  <2>1. r \in OpType /\ r.pc = "write" /\ r.kind = "start" /\ r.id = op[e].id /\ r.pid = p
    BY <1>1, CallFacts DEF OpType, OpLabels
  <2>2. /\ op' \in [Hosts -> OpType] /\ op'[e] = r /\ \A f \in Hosts : f # e => op'[f] = op[f]
    <3>1. op' = [op EXCEPT ![e] = r]
      BY <1>3, CallFacts
    <3> HIDE DEF r
    <3>2. QED
      BY <2>1, <3>1, CallFacts
  <2>3. n \in ProcType /\ n.who = "ours" /\ n.leader /\ n.alive
    BY DEF ProcType
  <2>4. proc' \in [Pids -> ProcType] /\ proc'[p] = n /\ \A x \in Pids : x # p => proc'[x] = proc[x]
    BY <1>3, <2>3, CallFacts
  <2> HIDE DEF r, n
  <2>5. /\ owned' \in [Pids -> Hosts \cup {P!Nobody}] /\ owned'[p] = P!Nobody
        /\ \A x \in Pids : x # p => owned'[x] = owned[x]
    BY <1>3 DEF ProcInv, ProcTypes
  <2>6. ProcTypes' /\ hit' = {} /\ Leading'
    BY <1>1, <2>2, <2>3, <2>4, <2>5 DEF ProcInv, ProcTypes, Leading, P!AllIds
  <2>7. Killing' /\ InCall'
    BY <1>1, <2>1, <2>2, <2>3, <2>4 DEF ProcInv, Killing, InCall
  <2>8. \A f \in Hosts : \A x \in Pids : Owns(f, x)' => Owns(f, x) /\ x # p
    BY <2>4, <2>5, ProcAssumption DEF Owns
  <2>9. RecordedOf(e)'
    <3> SUFFICES ASSUME P!Alone(e) PROVE RecordedOf(e)'
      BY DEF RecordedOf, P!Alone
    <3>1. RecordedOf(e) /\ pidFile[op[e].id] \in Pids \cup {0}
      BY <1>1, CallFacts DEF ProcInv, Recorded
    <3>2. pidFile'[op'[e].id] = 0 \/ ~Owns(e, pidFile[op[e].id])'
      <4> DEFINE x == pidFile[op[e].id]
      <4>1. x = 0 \/ (x \in Pids /\ ~Owns(e, x))
        BY <1>1, <3>1 DEF RecordedOf
      <4>2. pidFile'[op'[e].id] = x
        BY <1>1, <2>1, <2>2
      <4>3. \A y \in Pids : Owns(e, y)' => Owns(e, y)
        BY <2>8
      <4>4. QED
        BY <4>1, <4>2, <4>3 DEF Owns
    <3>3. ASSUME NEW x \in Pids, Owns(e, x)'
          PROVE  e \in opened' /\ \E id \in Uses[e] : pidFile'[id] = x /\ (id \in cleanups'[e] \/ Stopping(e, id)')
      <4>1. PICK id \in Uses[e] : e \in opened /\ pidFile[id] = x /\ (id \in cleanups[e] \/ Stopping(e, id))
        BY <2>8, <3>1, <3>3 DEF RecordedOf
      <4>2. QED
        BY <1>1, <4>1
    <3>4. QED
      BY <2>1, <2>2, <3>2, <3>3 DEF RecordedOf
  <2>10. Recorded'
    <3>1. ASSUME NEW f \in Hosts, f # e PROVE RecordedOf(f)'
      BY <1>1, <2>2, <2>8, <3>1, OthersRecorded
    <3>2. QED
      BY <2>9, <3>1 DEF Recorded
  <2>11. QED
    BY <2>6, <2>7, <2>10 DEF ProcInv
<1>4. QED
  BY <1>2, <1>3 DEF P!Spawn

(* A file of an engine changes, its call ends or goes on; no process is    *)
(* taken on.                                                               *)
LEMMA FileChanges ==
    ASSUME ProcInv, NEW e \in Hosts, op[e].pc # "idle",
           NEW x \in Pids \cup {0}, pidFile' = [pidFile EXCEPT ![op[e].id] = x],
           NEW r \in OpType, op' = [op EXCEPT ![e] = r], r.pc = "idle" \/ (r.pc = "settle" /\ r.pid = x /\ r.id = op[e].id
                                                                          /\ r.kind = "start" /\ x \in Pids),
           proc' \in [Pids -> ProcType], \A p \in Pids : proc'[p] = proc[p] \/ proc'[p] = P!Free,
           P!Alone(e) => \A p \in Pids : Owns(e, p)' => pidFile[op[e].id] # p,
           UNCHANGED <<cleanups, opened, owned, hit>>
    PROVE  ProcInv'
<1>1. /\ op[e].id \in Uses[e] /\ op[e].id \in P!AllIds /\ e \in opened
      /\ op' \in [Hosts -> OpType] /\ op'[e] = r /\ \A f \in Hosts : f # e => op'[f] = op[f]
      /\ pidFile' \in [P!AllIds -> Pids \cup {0}] /\ pidFile'[op[e].id] = x
      /\ \A i \in P!AllIds : i # op[e].id => pidFile'[i] = pidFile[i]
  BY CallFacts DEF ProcInv, ProcTypes
<1>2. OpEnds /\ Leading'
  BY EndsChanges
<1>3. \A f \in Hosts, p \in Pids : Owns(f, p)' => Owns(f, p)
  BY <1>2, EndedIsNotOwned
<1>4. ProcTypes' /\ hit' = {}
  BY <1>1 DEF ProcInv, ProcTypes, P!AllIds
<1>5. Killing'
  <2>1. ASSUME NEW f \in Hosts, op'[f].pc = "grace", proc'[op'[f].pid].alive PROVE proc'[op'[f].pid].leader
    <3>1. f # e /\ op'[f] = op[f] /\ op[f].pid \in Pids
      BY <1>1, <2>1 DEF ProcInv, InCall
    <3>2. QED
      BY <1>2, <2>1, <3>1 DEF ProcInv, Killing, OpEnds
  <2>2. QED
    BY <2>1 DEF Killing
<1>6. InCall'
  BY <1>1 DEF ProcInv, InCall
<1>7. RecordedOf(e)'
  <2> SUFFICES ASSUME P!Alone(e) PROVE RecordedOf(e)'
    BY DEF RecordedOf, P!Alone
  <2>1. op'[e].pc \in {"settle", "grace"} => pidFile'[op'[e].id] = op'[e].pid
    BY <1>1
  <2>2. ASSUME NEW p \in Pids, Owns(e, p)'
        PROVE  e \in opened' /\ \E id \in Uses[e] : pidFile'[id] = p /\ (id \in cleanups'[e] \/ Stopping(e, id)')
    <3>1. PICK id \in Uses[e] : e \in opened /\ pidFile[id] = p /\ (id \in cleanups[e] \/ Stopping(e, id))
      BY <1>3, <2>2 DEF ProcInv, Recorded, RecordedOf
    <3>2. id # op[e].id
      BY <2>2, <3>1
    <3>3. id \in cleanups[e] /\ pidFile'[id] = p
      BY <1>1, <3>1, <3>2, CallFacts DEF Stopping
    <3>4. QED
      BY <3>1, <3>3
  <2>3. QED
    BY <1>1, <2>1, <2>2 DEF RecordedOf
<1>8. Recorded'
  <2>1. ASSUME NEW f \in Hosts, f # e PROVE RecordedOf(f)'
    <3>1. P!Alone(f) => \A id \in Uses[f] : pidFile'[id] = pidFile[id]
      BY <1>1, <2>1, CallFacts DEF P!Alone
    <3>2. QED
      BY <1>1, <1>3, <2>1, <3>1, OthersRecorded
  <2>2. QED
    BY <1>7, <2>1 DEF Recorded
<1>9. QED
  BY <1>2, <1>4, <1>5, <1>6, <1>8 DEF ProcInv

LEMMA WritePIDKeeps == ASSUME ProcInv, NEW e \in Hosts, P!WritePID(e) PROVE ProcInv'
<1>1. /\ op[e].pc = "write" /\ op[e].kind = "start" /\ op[e].pid \in Pids
      /\ UNCHANGED <<cleanups, opened, owned, hit>>
  BY DEF P!WritePID, ProcInv, InCall
<1>2. P!Alone(e) => \A p \in Pids : Owns(e, p) => pidFile[op[e].id] # p
  BY <1>1, CallFacts DEF ProcInv, Recorded, RecordedOf
<1>3. CASE /\ pidFile' = [pidFile EXCEPT ![op[e].id] = op[e].pid]
           /\ op' = [op EXCEPT ![e].pc = "settle"] /\ proc' = proc
  <2> DEFINE r == [op[e] EXCEPT !.pc = "settle"]
  <2>1. op' = [op EXCEPT ![e] = r]
    BY <1>3, CallFacts
  <2>2. r \in OpType /\ r.pc = "settle" /\ r.kind = "start" /\ r.id = op[e].id /\ r.pid = op[e].pid
    BY <1>1, CallFacts DEF OpType, OpLabels
  <2>3. P!Alone(e) => \A p \in Pids : Owns(e, p)' => pidFile[op[e].id] # p
    BY <1>1, <1>2, <1>3 DEF Owns
  <2>4. proc' \in [Pids -> ProcType] /\ \A p \in Pids : proc'[p] = proc[p]
    BY <1>3, CallFacts
  <2> HIDE DEF r
  <2>5. QED
    BY <1>1, <1>3, <2>1, <2>2, <2>3, <2>4, FileChanges
<1>4. CASE /\ pidFile' = pidFile /\ op' = [op EXCEPT ![e] = P!NoOp]
           /\ proc' \in {proc, [proc EXCEPT ![op[e].pid] = P!Free]}
  <2>1. proc' \in [Pids -> ProcType] /\ \A p \in Pids : proc'[p] = proc[p] \/ proc'[p] = P!Free
    BY <1>1, <1>4, FreeIsProc, CallFacts
  <2>2. \A p \in Pids : Owns(e, p)' => Owns(e, p)
    BY <1>1, <2>1, EndsChanges, EndedIsNotOwned
  <2>3. pidFile' = [pidFile EXCEPT ![op[e].id] = pidFile[op[e].id]] /\ pidFile[op[e].id] \in Pids \cup {0}
    BY <1>1, <1>4, CallFacts DEF ProcInv, ProcTypes
  <2>4. QED
    BY <1>1, <1>2, <1>4, <2>1, <2>2, <2>3, NoOpIsOp, FileChanges
<1>5. QED
  BY <1>3, <1>4 DEF P!WritePID

LEMMA SettleKeeps == ASSUME ProcInv, NEW e \in Hosts, P!Settle(e) PROVE ProcInv'
<1> DEFINE id == op[e].id
           p == op[e].pid
<1>1. /\ op[e].pc = "settle" /\ op[e].kind = "start" /\ p \in Pids /\ id \in Uses[e] /\ e \in opened
      /\ op' = [op EXCEPT ![e] = P!NoOp] /\ UNCHANGED <<proc, pidFile, opened, hit>>
      /\ cleanups' = IF P!PidAlive(p) /\ P!Registers(op[e].keep)
                     THEN [cleanups EXCEPT ![e] = @ \cup {id}] ELSE cleanups
      /\ owned' = IF P!PidAlive(p) /\ proc[p].who = "ours" /\ ~op[e].keep
                  THEN [owned EXCEPT ![p] = e] ELSE owned
  BY CallFacts DEF P!Settle, ProcInv, InCall
<1>2. op' \in [Hosts -> OpType] /\ op'[e] = P!NoOp /\ \A f \in Hosts : f # e => op'[f] = op[f]
  BY <1>1, CallFacts, NoOpIsOp
<1>3. /\ cleanups' = [f \in Hosts |-> cleanups'[f]] /\ \A f \in Hosts : cleanups[f] \subseteq cleanups'[f]
      /\ \A f \in Hosts : cleanups'[f] \subseteq Uses[f] /\ (f # e => cleanups'[f] = cleanups[f])
  BY <1>1 DEF ProcInv, ProcTypes
<1>4. /\ owned' \in [Pids -> Hosts \cup {P!Nobody}]
      /\ \A x \in Pids : owned'[x] # owned[x] => x = p /\ owned'[x] = e /\ id \in cleanups'[e]
  <2>1. CASE P!PidAlive(p) /\ proc[p].who = "ours" /\ ~op[e].keep
    <3>1. owned' = [owned EXCEPT ![p] = e] /\ cleanups' = [cleanups EXCEPT ![e] = @ \cup {id}]
      BY <1>1, <2>1 DEF P!Registers
    <3>2. QED
      BY <1>1, <3>1 DEF ProcInv, ProcTypes
  <2>2. CASE ~(P!PidAlive(p) /\ proc[p].who = "ours" /\ ~op[e].keep)
    BY <1>1, <2>2 DEF ProcInv, ProcTypes
  <2>3. QED
    BY <2>1, <2>2
<1> HIDE DEF id, p
<1>5. ProcTypes' /\ hit' = {} /\ Leading'
  BY <1>1, <1>2, <1>3, <1>4 DEF ProcInv, ProcTypes, Leading, P!AllIds
<1>6. Killing' /\ InCall'
  BY <1>1, <1>2, NoOpIsOp DEF ProcInv, Killing, InCall
<1>7. RecordedOf(e)'
  <2> SUFFICES ASSUME P!Alone(e) PROVE RecordedOf(e)'
    BY DEF RecordedOf, P!Alone
  <2>1. RecordedOf(e) /\ pidFile[id] = p
    BY <1>1 DEF ProcInv, Recorded, RecordedOf, id, p
  <2>2. ASSUME NEW x \in Pids, Owns(e, x)'
        PROVE  e \in opened' /\ \E i \in Uses[e] : pidFile'[i] = x /\ (i \in cleanups'[e] \/ Stopping(e, i)')
    <3>1. CASE owned'[x] # owned[x]
      BY <1>1, <1>4, <2>1, <3>1
    <3>2. CASE owned'[x] = owned[x]
      <4>1. Owns(e, x)
        BY <1>1, <2>2, <3>2 DEF Owns
      <4>2. PICK i \in Uses[e] : e \in opened /\ pidFile[i] = x /\ (i \in cleanups[e] \/ Stopping(e, i))
        BY <2>1, <4>1 DEF RecordedOf
      <4>3. ~Stopping(e, i)
        BY <1>1 DEF Stopping
      <4>4. QED
        BY <1>1, <1>3, <4>2, <4>3
    <3>3. QED
      BY <3>1, <3>2
  <2>3. QED
    BY <1>2, <2>2, NoOpIsOp DEF RecordedOf
<1>8. Recorded'
  <2>1. ASSUME NEW f \in Hosts, f # e PROVE RecordedOf(f)'
    <3>1. \A x \in Pids : Owns(f, x)' => Owns(f, x)
      BY <1>1, <1>4, <2>1 DEF Owns
    <3>2. QED
      BY <1>1, <1>2, <1>3, <2>1, <3>1, OthersRecorded
  <2>2. QED
    BY <1>7, <2>1 DEF Recorded
<1>9. QED
  BY <1>5, <1>6, <1>8 DEF ProcInv

LEMMA TermKeeps == ASSUME ProcInv, NEW e \in Hosts, P!Term(e) PROVE ProcInv'
<1> DEFINE p == pidFile[op[e].id]
<1>1. /\ op[e].kind = "stop" /\ op[e].pc = "check" /\ op[e].id \in Uses[e] /\ e \in opened
      /\ p \in Pids \cup {0} /\ UNCHANGED <<cleanups, opened, owned>>
  BY CallFacts DEF P!Term
<1>2. CASE P!PidAlive(p) /\ P!OwnsSession(p)
  <2>1. /\ hit' = P!Signalled(p) /\ proc' \in {proc, [proc EXCEPT ![p] = P!Free]}
        /\ op' = [op EXCEPT ![e].pc = "grace", ![e].pid = p] /\ pidFile' = pidFile
    BY <1>2 DEF P!Term
  <2>2. p \in Pids /\ proc[p].leader
    BY <1>1, <1>2 DEF P!PidAlive, P!OwnsSession
  <2>3. hit' = {}
    BY <2>1, <2>2 DEF P!Signalled, ProcInv
  <2>4. proc' \in [Pids -> ProcType] /\ \A x \in Pids : proc'[x] = proc[x] \/ proc'[x] = P!Free
    BY <2>1, <2>2, FreeIsProc, CallFacts
  <2>5. OpEnds /\ Leading'
    BY <2>4, EndsChanges
  <2> DEFINE r == [[op[e] EXCEPT !.pc = "grace"] EXCEPT !.pid = p]
  <2>6. r \in OpType /\ r.pc = "grace" /\ r.kind = "stop" /\ r.id = op[e].id /\ r.pid = p
    BY <1>1, <2>2, CallFacts DEF OpType, OpLabels
  <2>7. op' \in [Hosts -> OpType] /\ op'[e] = r /\ \A f \in Hosts : f # e => op'[f] = op[f]
    <3>1. op' = [op EXCEPT ![e] = r]
      BY <2>1, CallFacts
    <3> HIDE DEF r
    <3>2. QED
      BY <2>6, <3>1, CallFacts
  <2> HIDE DEF r
  <2>8. ProcTypes'
    BY <1>1, <2>1, <2>4, <2>7 DEF ProcInv, ProcTypes, P!AllIds
  <2>9. Killing'
    <3>1. ASSUME NEW f \in Hosts, op'[f].pc = "grace", proc'[op'[f].pid].alive PROVE proc'[op'[f].pid].leader
      <4>1. op'[f].pid \in Pids /\ (proc[op'[f].pid].alive => proc[op'[f].pid].leader)
        <5>1. CASE f = e
          BY <2>2, <2>6, <2>7, <5>1
        <5>2. CASE f # e
          BY <2>7, <3>1, <5>2 DEF ProcInv, InCall, Killing
        <5>3. QED
          BY <5>1, <5>2
      <4>2. QED
        BY <2>5, <3>1, <4>1 DEF OpEnds
    <3>2. QED
      BY <3>1 DEF Killing
  <2>10. InCall'
    BY <1>1, <2>2, <2>6, <2>7 DEF ProcInv, InCall
  <2>11. \A f \in Hosts, x \in Pids : Owns(f, x)' => Owns(f, x)
    BY <1>1, <2>5, EndedIsNotOwned
  <2>12. RecordedOf(e)'
    <3> SUFFICES ASSUME P!Alone(e) PROVE RecordedOf(e)'
      BY DEF RecordedOf, P!Alone
    <3>1. ASSUME NEW x \in Pids, Owns(e, x)'
          PROVE  e \in opened' /\ \E i \in Uses[e] : pidFile'[i] = x /\ (i \in cleanups'[e] \/ Stopping(e, i)')
      <4>1. PICK i \in Uses[e] : e \in opened /\ pidFile[i] = x /\ (i \in cleanups[e] \/ Stopping(e, i))
        BY <2>11, <3>1 DEF ProcInv, Recorded, RecordedOf
      <4>2. Stopping(e, i) => Stopping(e, i)'
        BY <2>6, <2>7 DEF Stopping
      <4>3. QED
        BY <1>1, <2>1, <4>1, <4>2
    <3>2. pidFile'[op'[e].id] = op'[e].pid
      BY <2>1, <2>6, <2>7
    <3>3. op'[e].pc \notin {"spawn", "write"}
      BY <2>6, <2>7
    <3>4. QED
      BY <3>1, <3>2, <3>3 DEF RecordedOf
  <2>13. Recorded'
    <3>1. ASSUME NEW f \in Hosts, f # e PROVE RecordedOf(f)'
      BY <1>1, <2>1, <2>7, <2>11, <3>1, OthersRecorded
    <3>2. QED
      BY <2>12, <3>1 DEF Recorded
  <2>14. QED
    BY <2>3, <2>5, <2>8, <2>9, <2>10, <2>13 DEF ProcInv
<1>3. CASE ~(P!PidAlive(p) /\ P!OwnsSession(p))
  <2>1. /\ pidFile' = [pidFile EXCEPT ![op[e].id] = 0] /\ op' = [op EXCEPT ![e] = P!NoOp]
        /\ UNCHANGED <<proc, hit>>
    BY <1>3 DEF P!Term, P!Remove
  <2>2. \A x \in Pids : Owns(e, x)' => p # x
    BY <1>1, <1>3, <2>1, ProcAssumption DEF Owns, P!PidAlive, P!OwnsSession, ProcInv, Leading
  <2>3. proc' \in [Pids -> ProcType] /\ \A x \in Pids : proc'[x] = proc[x]
    BY <2>1, CallFacts
  <2>4. QED
    BY <1>1, <2>1, <2>2, <2>3, NoOpIsOp, FileChanges
<1>4. QED
  BY <1>2, <1>3

LEMMA KillRestKeeps == ASSUME ProcInv, NEW e \in Hosts, P!KillRest(e) PROVE ProcInv'
<1> DEFINE p == op[e].pid
<1>1. /\ op[e].pc = "grace" /\ op[e].kind = "stop" /\ p \in Pids /\ p # 0
      /\ pidFile' = [pidFile EXCEPT ![op[e].id] = 0] /\ op' = [op EXCEPT ![e] = P!NoOp]
      /\ UNCHANGED <<cleanups, opened, owned>>
      /\ P!Alone(e) => pidFile[op[e].id] = p
  BY CallFacts DEF P!KillRest, P!Remove, ProcInv, InCall, Recorded, RecordedOf
<1>2. /\ hit' = {} /\ ~proc'[p].alive
      /\ proc' \in [Pids -> ProcType] /\ \A x \in Pids : proc'[x] = proc[x] \/ proc'[x] = P!Free
  <2>1. CASE P!StillThere(p)
    <3>1. hit' = P!Signalled(p) /\ proc' = [proc EXCEPT ![p] = P!Free] /\ proc[p].alive
      BY <2>1 DEF P!KillRest, P!StillThere, P!PidAlive
    <3>2. hit' = {}
      BY <1>1, <3>1 DEF P!Signalled, ProcInv, Killing
    <3>3. QED
      BY <1>1, <3>1, <3>2, FreeIsProc, CallFacts
  <2>2. CASE ~P!StillThere(p)
    BY <1>1, <2>2, CallFacts DEF P!KillRest, P!StillThere, P!PidAlive, ProcInv
  <2>3. QED
    BY <2>1, <2>2
<1>3. P!Alone(e) => \A x \in Pids : Owns(e, x)' => pidFile[op[e].id] # x
  BY <1>1, <1>2 DEF Owns
<1>4. hit' = hit
  BY <1>2 DEF ProcInv
<1>5. QED
  BY <1>1, <1>2, <1>3, <1>4, NoOpIsOp, FileChanges

LEMMA CloseKeeps == ASSUME ProcInv, NEW e \in Hosts, P!Close(e) PROVE ProcInv'
<1>1. e \in opened /\ op[e].pc = "idle" /\ UNCHANGED <<proc, pidFile, owned, hit>>
  BY DEF P!Close
<1>2. CASE cleanups[e] = {} /\ opened' = opened \ {e} /\ UNCHANGED <<cleanups, op>>
  <2>1. P!Alone(e) => \A x \in Pids : ~Owns(e, x)
    <3>1. \A i \in Uses[e] : ~Stopping(e, i)
      BY <1>1 DEF Stopping
    <3>2. QED
      BY <1>2, <3>1 DEF ProcInv, Recorded, RecordedOf
  <2>2. ProcTypes' /\ hit' = {} /\ Leading'
    BY <1>1, <1>2 DEF ProcInv, ProcTypes, Leading, P!AllIds
  <2>3. Killing' /\ InCall'
    BY <1>1, <1>2 DEF ProcInv, Killing, InCall
  <2>4. RecordedOf(e)'
    <3>1. P!Alone(e) => \A x \in Pids : ~Owns(e, x)'
      BY <1>1, <2>1 DEF Owns
    <3>2. QED
      BY <1>1, <1>2, <3>1 DEF RecordedOf, P!Alone
  <2>5. ASSUME NEW f \in Hosts, f # e PROVE RecordedOf(f)'
    BY <1>1, <1>2, <2>5, OthersRecorded DEF Owns
  <2>6. QED
    BY <2>2, <2>3, <2>4, <2>5 DEF ProcInv, Recorded
<1>3. ASSUME NEW id \in cleanups[e], cleanups' = [cleanups EXCEPT ![e] = @ \ {id}], opened' = opened,
             op' = [op EXCEPT ![e] = [kind |-> "stop", id |-> id, keep |-> FALSE, pc |-> "check", pid |-> 0]]
      PROVE  ProcInv'
  <2> DEFINE r == [kind |-> "stop", id |-> id, keep |-> FALSE, pc |-> "check", pid |-> 0]
  <2>1. id \in Uses[e]
    BY DEF ProcInv, ProcTypes
  <2>2. r \in OpType /\ r.kind = "stop" /\ r.id = id /\ r.pc = "check"
    BY <2>1, CallFacts DEF OpType, OpLabels, OpIds
  <2>3. op' \in [Hosts -> OpType] /\ op'[e] = r /\ \A f \in Hosts : f # e => op'[f] = op[f]
    BY <1>3, <2>2, CallFacts
  <2> HIDE DEF r
  <2>4. /\ cleanups' = [f \in Hosts |-> cleanups'[f]] /\ cleanups'[e] = cleanups[e] \ {id}
        /\ \A f \in Hosts : cleanups'[f] \subseteq Uses[f] /\ (f # e => cleanups'[f] = cleanups[f])
    BY <1>3 DEF ProcInv, ProcTypes
  <2>5. ProcTypes' /\ hit' = {} /\ Leading'
    BY <1>1, <1>3, <2>3, <2>4 DEF ProcInv, ProcTypes, Leading, P!AllIds
  <2>6. Killing' /\ InCall'
    BY <1>1, <1>3, <2>1, <2>2, <2>3 DEF ProcInv, Killing, InCall
  <2>7. RecordedOf(e)'
    <3> SUFFICES ASSUME P!Alone(e) PROVE RecordedOf(e)'
      BY DEF RecordedOf, P!Alone
    <3>1. ASSUME NEW x \in Pids, Owns(e, x)'
          PROVE  e \in opened' /\ \E i \in Uses[e] : pidFile'[i] = x /\ (i \in cleanups'[e] \/ Stopping(e, i)')
      <4>1. Owns(e, x)
        BY <1>1, <3>1 DEF Owns
      <4>2. PICK i \in Uses[e] : e \in opened /\ pidFile[i] = x /\ (i \in cleanups[e] \/ Stopping(e, i))
        BY <4>1 DEF ProcInv, Recorded, RecordedOf
      <4>3. i \in cleanups[e]
        BY <1>1, <4>2 DEF Stopping
      <4>4. i = id => Stopping(e, i)'
        BY <2>2, <2>3 DEF Stopping
      <4>5. QED
        BY <1>1, <1>3, <2>4, <4>2, <4>3, <4>4
    <3>2. op'[e].pc = "check"
      BY <2>2, <2>3
    <3>3. QED
      BY <3>1, <3>2 DEF RecordedOf
  <2>8. ASSUME NEW f \in Hosts, f # e PROVE RecordedOf(f)'
    BY <1>1, <1>3, <2>3, <2>4, <2>8, OthersRecorded DEF Owns
  <2>9. QED
    BY <2>5, <2>6, <2>7, <2>8 DEF ProcInv, Recorded
<1>4. QED
  BY <1>2, <1>3 DEF P!Close

(* What the machine does to a process.                                     *)
LEMMA MachineKeeps ==
    ASSUME ProcInv, NEW p \in Pids, NEW n \in ProcType, proc' = [proc EXCEPT ![p] = n],
           UNCHANGED <<pidFile, op, cleanups, opened, hit>>,
           n.who = "ours" => n.leader, n.who = "free" => ~n.alive,
           \/ /\ owned' = owned
              /\ n.alive => proc[p].alive /\ n.who = proc[p].who /\ n.leader = proc[p].leader
           \/ /\ owned' = [owned EXCEPT ![p] = P!Nobody]
              /\ n.who = "stranger" /\ \A e \in Hosts : op[e].pid # p
    PROVE  ProcInv'
<1>1. /\ proc' \in [Pids -> ProcType] /\ proc'[p] = n /\ \A x \in Pids : x # p => proc'[x] = proc[x]
      /\ owned' \in [Pids -> Hosts \cup {P!Nobody}] /\ \A x \in Pids : owned'[x] \in {owned[x], P!Nobody}
  BY CallFacts DEF ProcInv, ProcTypes
<1>2. ProcTypes' /\ hit' = {} /\ Leading'
  BY <1>1 DEF ProcInv, ProcTypes, Leading, P!AllIds
<1>3. Killing' /\ InCall'
  <2>1. ASSUME NEW e \in Hosts, op[e].pc = "grace", proc'[op[e].pid].alive PROVE proc'[op[e].pid].leader
    <3>1. op[e].pid \in Pids /\ (proc[op[e].pid].alive => proc[op[e].pid].leader)
      BY <2>1 DEF ProcInv, InCall, Killing
    <3>2. CASE op[e].pid = p
      BY <1>1, <2>1, <3>1, <3>2
    <3>3. CASE op[e].pid # p
      BY <1>1, <2>1, <3>1, <3>3
    <3>4. QED
      BY <3>2, <3>3
  <2>2. QED
    BY <2>1 DEF ProcInv, Killing, InCall
<1>4. \A f \in Hosts, x \in Pids : Owns(f, x)' => Owns(f, x)
  BY <1>1, ProcAssumption DEF Owns
<1>5. Recorded'
  BY <1>4, OthersRecorded DEF Recorded
<1>6. QED
  BY <1>2, <1>3, <1>5 DEF ProcInv

LEMMA MachineSteps ==
    ASSUME ProcInv, NEW p \in Pids, P!Exits(p) \/ P!Forks(p) \/ P!KidsExit(p) \/ P!Recycled(p)
    PROVE  ProcInv'
<1>1. proc[p] \in ProcType /\ (proc[p].who = "ours" => proc[p].leader) /\ (proc[p].who = "free" => ~proc[p].alive)
  BY DEF ProcInv, ProcTypes, Leading
<1>2. UNCHANGED <<pidFile, op, cleanups, opened, hit>>
  BY DEF P!Exits, P!Forks, P!KidsExit, P!Recycled
<1> DEFINE Change(n) == /\ n \in ProcType /\ proc' = [proc EXCEPT ![p] = n]
                        /\ n.who = "ours" => n.leader
                        /\ n.who = "free" => ~n.alive
                        /\ n.alive => proc[p].alive /\ n.who = proc[p].who /\ n.leader = proc[p].leader
<1>3. CASE P!Exits(p)
  <2>1. PICK n : n = IF proc[p].kids THEN [proc[p] EXCEPT !.alive = FALSE] ELSE P!Free
    OBVIOUS
  <2>2. proc' = [proc EXCEPT ![p] = n] /\ owned' = owned
    BY <1>3, <2>1, CallFacts DEF P!Exits
  <2>3. n \in ProcType /\ ~n.alive /\ (n.who = "ours" => n.leader)
    BY <1>1, <2>1, FreeIsProc DEF ProcType
  <2>4. QED
    BY <1>2, <2>2, <2>3, MachineKeeps
<1>4. CASE P!Forks(p)
  <2>1. PICK n : n = [proc[p] EXCEPT !.kids = TRUE]
    OBVIOUS
  <2>2. proc' = [proc EXCEPT ![p] = n] /\ owned' = owned
    BY <1>4, <2>1, CallFacts DEF P!Forks
  <2>3. n \in ProcType /\ n.who = proc[p].who /\ n.leader = proc[p].leader /\ n.alive = proc[p].alive
    BY <1>1, <2>1 DEF ProcType
  <2>4. QED
    BY <1>1, <1>2, <2>2, <2>3, MachineKeeps
<1>5. CASE P!KidsExit(p)
  <2>1. PICK n : n = IF proc[p].alive THEN [proc[p] EXCEPT !.kids = FALSE] ELSE P!Free
    OBVIOUS
  <2>2. proc' = [proc EXCEPT ![p] = n] /\ owned' = owned
    BY <1>5, <2>1, CallFacts DEF P!KidsExit
  <2>3. /\ n \in ProcType /\ (n.who = "ours" => n.leader) /\ (n.who = "free" => ~n.alive)
        /\ n.alive => proc[p].alive /\ n.who = proc[p].who /\ n.leader = proc[p].leader
    BY <1>1, <2>1, FreeIsProc DEF ProcType
  <2>4. QED
    BY <1>2, <2>2, <2>3, MachineKeeps
<1>6. CASE P!Recycled(p)
  <2>1. PICK leader \in BOOLEAN :
           proc' = [proc EXCEPT ![p] = [who |-> "stranger", alive |-> TRUE, leader |-> leader, kids |-> FALSE]]
    BY <1>6 DEF P!Recycled
  <2> DEFINE n == [who |-> "stranger", alive |-> TRUE, leader |-> leader, kids |-> FALSE]
  <2>2. n \in ProcType /\ n.who = "stranger"
    BY DEF ProcType
  <2>3. owned' = [owned EXCEPT ![p] = P!Nobody] /\ \A e \in Hosts : op[e].pid # p
    BY <1>6 DEF P!Recycled
  <2> HIDE DEF n
  <2>4. proc' = [proc EXCEPT ![p] = n]
    BY <2>1 DEF n
  <2>5. QED
    BY <1>2, <2>2, <2>3, <2>4, MachineKeeps
<1>7. QED
  BY <1>3, <1>4, <1>5, <1>6

LEMMA ProcSteps == ASSUME ProcInv, P!Next PROVE ProcInv'
<1>1. ASSUME NEW e \in Hosts,
             \/ \E id \in Uses[e] : (\E keep \in BOOLEAN : P!Begin(e, "start", id, keep)) \/ P!Begin(e, "stop", id, FALSE)
             \/ P!StartCheck(e) \/ P!Spawn(e) \/ P!WritePID(e) \/ P!Settle(e) \/ P!Term(e) \/ P!KillRest(e) \/ P!Close(e)
      PROVE  ProcInv'
  BY <1>1, BeginCallKeeps, StartCheckKeeps, SpawnKeeps, WritePIDKeeps, SettleKeeps, TermKeeps, KillRestKeeps, CloseKeeps
<1>2. QED
  BY <1>1, MachineSteps DEF P!Next

(* What the invariant says of strangers and of processes left behind.      *)
LEMMA ProcMeans == ASSUME ProcInv PROVE P!StrangersSafe /\ P!AutoKilled
<1>1. ASSUME NEW p \in Pids, P!PidAlive(p), proc[p].who = "ours", owned[p] # P!Nobody, P!Alone(owned[p])
      PROVE  owned[p] \in opened
  <2>1. owned[p] \in Hosts /\ Owns(owned[p], p)
    BY <1>1 DEF ProcInv, ProcTypes, Owns, P!PidAlive
  <2>2. QED
    BY <1>1, <2>1 DEF ProcInv, Recorded, RecordedOf
<1>2. QED
  BY <1>1 DEF ProcInv, P!StrangersSafe, P!AutoKilled

LEMMA ProcUntouched == ASSUME ProcInv, UNCHANGED procVars PROVE ProcInv'
<1>1. /\ proc' = proc /\ pidFile' = pidFile /\ op' = op /\ cleanups' = cleanups
      /\ opened' = opened /\ owned' = owned /\ hit' = hit
  BY DEF procVars
<1>2. QED
  BY <1>1 DEF ProcInv, ProcTypes, Leading, Killing, InCall, Recorded, RecordedOf, Owns, Stopping

-----------------------------------------------------------------------------
(* Files of a configuration                                                *)

Fields ==
    {"workspace", "wire", "base", "key", "keyEnv", "model", "sandbox", "provider", "providers",
     "write", "roots", "enable", "skills", "turns", "runTokens", "bash", "maxBash", "sections"}
IsConf(f) == f = [s \in Fields |-> f[s]]

Typed(f) ==
    /\ f.turns \in Nat /\ f.write \in BOOLEAN
    /\ f.providers = [x \in DOMAIN f.providers |-> f.providers[x]]

\* The layers a section may come from.
UserLayers == {"home", "profile", "path"}
From(f, layers) == \A x \in DOMAIN f.sections : f.sections[x] \in layers

\* Applying provider and environment again changes nothing that is the user's.
Agree(f, g) == \A s \in C!HostOnly : f[s] = g[s]
Applied(f) == Agree(C!Effective(f), f)
KeyFits(f) ==
    f.wire = "anthropic" /\ env.keys = {"OPENAI", "ANTHROPIC"} => f.key = "ANTHROPIC" /\ f.base = "ANTHROPIC"

ConfInv ==
    /\ env \in C!Environments
    /\ IsConf(conf) /\ Typed(conf)
    /\ stage \in {"home", "profile", "paths", "project"} => From(conf, UserLayers)
    /\ stage = "project" => Applied(conf) /\ KeyFits(conf) /\ hostConf = conf
    /\ C!After =>
          /\ IsConf(hostConf) /\ Agree(conf, hostConf) /\ KeyFits(conf)
          /\ conf.enable \cap (C!Power \cup C!Media) = hostConf.enable \cap (C!Power \cup C!Media)
          /\ hostConf.enable \subseteq conf.enable
          /\ hostConf.turns = 0 \/ conf.turns \in 1 .. hostConf.turns
          /\ \A x \in DOMAIN conf.sections :
                conf.sections[x] \in UserLayers \/ (conf.sections[x] = "project" /\ x \notin {"acp", "media"})

\* The vendor whose key is taken on a wire.
Vendor(wire) ==
    C!FirstEnv(IF wire = "anthropic" THEN <<"ANTHROPIC", "OPENAI">> ELSE <<"OPENAI", "ANTHROPIC">>)

\* What each part of Effective does to a configuration, setting by setting.
LEMMA NamedFields ==
    ASSUME NEW f, IsConf(f)
    PROVE  LET g == C!Named(f)
           IN  /\ IsConf(g)
               /\ \A s \in Fields \ {"provider"} : g[s] = f[s]
               /\ g["provider"] = IF env.provider = C!None THEN f["provider"] ELSE env.provider
BY DEF C!Named, IsConf, Fields

LEMMA ProviderFields ==
    ASSUME NEW f, IsConf(f)
    PROVE  LET g == C!ApplyProvider(f)
               p == f["providers"][f["provider"]]
               Live(s) == IF f["provider"] = C!None THEN f[s] ELSE C!Or(p, s, f[s])
           IN  /\ IsConf(g)
               /\ \A s \in Fields \ {"base", "key", "keyEnv", "wire"} : g[s] = f[s]
               /\ g["base"] = Live("base") /\ g["key"] = Live("key")
               /\ g["keyEnv"] = Live("keyEnv") /\ g["wire"] = Live("wire")
BY DEF C!ApplyProvider, IsConf, Fields

LEMMA EnvFields ==
    ASSUME NEW f, IsConf(f)
    PROVE  LET g == C!ApplyEnv(f)
               wire == IF env.wire # C!None THEN env.wire ELSE f["wire"]
               v == Vendor(wire)
           IN  /\ IsConf(g)
               /\ \A s \in Fields \ {"base", "key", "wire"} : g[s] = f[s]
               /\ g["wire"] = wire
               /\ g["base"] = IF v = C!None THEN f["base"] ELSE v
               /\ g["key"] = IF v = C!None THEN f["key"] ELSE v
<1> DEFINE h == [f EXCEPT !.wire = IF env.wire # C!None THEN env.wire ELSE @]
           w == C!FirstEnv(C!KeyOrder(h))
<1>1. /\ IsConf(h) /\ \A s \in Fields \ {"wire"} : h[s] = f[s]
      /\ h["wire"] = IF env.wire # C!None THEN env.wire ELSE f["wire"]
  BY DEF IsConf, Fields
<1>2. C!ApplyEnv(f) = IF w = C!None THEN h ELSE [h EXCEPT !.base = w, !.key = w]
  BY DEF C!ApplyEnv
<1>3. w = Vendor(IF env.wire # C!None THEN env.wire ELSE f["wire"])
  BY <1>1 DEF C!KeyOrder, Vendor
<1> HIDE DEF h, w
<1>4. CASE w = C!None
  <2>1. C!ApplyEnv(f) = h
    BY <1>2, <1>4
  <2> QED BY <1>1, <1>3, <1>4, <2>1 DEF Fields
<1>5. CASE w # C!None
  BY <1>1, <1>2, <1>3, <1>5 DEF IsConf, Fields
<1> QED BY <1>4, <1>5

LEMMA NormalFields ==
    ASSUME NEW f, IsConf(f)
    PROVE  LET g == C!Normalize(f)
               keyEnv == IF f["wire"] = "anthropic" /\ f["keyEnv"] = "OPENAI"
                            /\ ("ANTHROPIC" \in env.keys \/ f["key"] = C!None)
                         THEN "ANTHROPIC" ELSE f["keyEnv"]
           IN  /\ IsConf(g)
               /\ \A s \in Fields \ {"keyEnv", "key", "base", "maxBash"} : g[s] = f[s]
               /\ g["keyEnv"] = keyEnv
               /\ g["key"] = IF f["key"] = C!None /\ keyEnv \in env.keys THEN keyEnv ELSE f["key"]
               /\ g["base"] = IF f["base"] = C!None THEN "default" ELSE f["base"]
BY DEF C!Normalize, IsConf, Fields

LEMMA VendorIs ==
    ASSUME NEW wire, env \in C!Environments
    PROVE  /\ Vendor(wire) = C!None <=> env.keys = {}
           /\ Vendor(wire) \in env.keys \cup {C!None}
           /\ wire = "anthropic" /\ "ANTHROPIC" \in env.keys => Vendor(wire) = "ANTHROPIC"
BY DEF Vendor, C!FirstEnv, C!Environments, C!None

\* Effective as a whole: what a layer's provider, the environment and the
\* defaults make of the settings that are the user's, and of no other.
EffProvider(f) == IF env.provider = C!None THEN f["provider"] ELSE env.provider
EffRow(f) == f["providers"][EffProvider(f)]
FromRow(f, s) == IF EffProvider(f) = C!None THEN f[s] ELSE C!Or(EffRow(f), s, f[s])
EffWire(f) == IF env.wire # C!None THEN env.wire ELSE FromRow(f, "wire")
FromEnv(f, s) == IF Vendor(EffWire(f)) = C!None THEN FromRow(f, s) ELSE Vendor(EffWire(f))
EffKeyEnv(f) ==
    IF EffWire(f) = "anthropic" /\ FromRow(f, "keyEnv") = "OPENAI"
       /\ ("ANTHROPIC" \in env.keys \/ FromEnv(f, "key") = C!None)
    THEN "ANTHROPIC" ELSE FromRow(f, "keyEnv")
EffKey(f) ==
    IF FromEnv(f, "key") = C!None /\ EffKeyEnv(f) \in env.keys THEN EffKeyEnv(f) ELSE FromEnv(f, "key")
EffBase(f) == IF FromEnv(f, "base") = C!None THEN "default" ELSE FromEnv(f, "base")

LEMMA EffectiveFields ==
    ASSUME NEW f, IsConf(f)
    PROVE  LET g == C!Effective(f)
           IN  /\ IsConf(g)
               /\ \A s \in Fields \ {"provider", "wire", "keyEnv", "key", "base", "maxBash"} : g[s] = f[s]
               /\ g["provider"] = EffProvider(f) /\ g["wire"] = EffWire(f)
               /\ g["keyEnv"] = EffKeyEnv(f) /\ g["key"] = EffKey(f) /\ g["base"] = EffBase(f)
<1> DEFINE n == C!Named(f)
           a == C!ApplyProvider(n)
           b == C!ApplyEnv(a)
           g == C!Normalize(b)
<1>1. C!Effective(f) = g
  BY DEF C!Effective
<1>2. /\ IsConf(n) /\ n["provider"] = EffProvider(f)
      /\ \A s \in Fields \ {"provider"} : n[s] = f[s]
  BY NamedFields DEF EffProvider
<1>3. /\ IsConf(a) /\ \A s \in Fields \ {"base", "key", "keyEnv", "wire"} : a[s] = n[s]
      /\ a["base"] = FromRow(f, "base") /\ a["key"] = FromRow(f, "key")
      /\ a["keyEnv"] = FromRow(f, "keyEnv") /\ a["wire"] = FromRow(f, "wire")
  BY <1>2, ProviderFields DEF FromRow, EffRow, Fields
<1>4. /\ IsConf(b) /\ \A s \in Fields \ {"base", "key", "wire"} : b[s] = a[s]
      /\ b["wire"] = EffWire(f) /\ b["base"] = FromEnv(f, "base") /\ b["key"] = FromEnv(f, "key")
  BY <1>3, EnvFields DEF FromEnv, EffWire
<1>5. /\ IsConf(g) /\ \A s \in Fields \ {"keyEnv", "key", "base", "maxBash"} : g[s] = b[s]
      /\ g["keyEnv"] = EffKeyEnv(f) /\ g["key"] = EffKey(f) /\ g["base"] = EffBase(f)
  <2> HIDE DEF b
  <2>1. b["keyEnv"] = FromRow(f, "keyEnv")
    BY <1>3, <1>4 DEF Fields
  <2> QED BY <1>4, <2>1, NormalFields DEF EffKeyEnv, EffKey, EffBase
<1> HIDE DEF n, a, b, g
<1> QED BY <1>1, <1>2, <1>3, <1>4, <1>5 DEF Fields

\* It depends on nothing but the user's settings.
LEMMA EffectiveDepends ==
    ASSUME NEW f, NEW g, IsConf(f), IsConf(g), Agree(f, g)
    PROVE  Agree(C!Effective(f), C!Effective(g))
<1>1. \A s \in C!HostOnly : f[s] = g[s]
  BY DEF Agree
<1>2. EffProvider(f) = EffProvider(g) /\ EffRow(f) = EffRow(g)
  BY <1>1 DEF EffProvider, EffRow, C!HostOnly, C!Strings
<1>3. \A s \in C!HostOnly : FromRow(f, s) = FromRow(g, s)
  BY <1>1, <1>2 DEF FromRow
<1>4. EffWire(f) = EffWire(g) /\ \A s \in C!HostOnly : FromEnv(f, s) = FromEnv(g, s)
  BY <1>3 DEF EffWire, FromEnv, C!HostOnly, C!Strings
<1>5. EffKeyEnv(f) = EffKeyEnv(g) /\ EffKey(f) = EffKey(g) /\ EffBase(f) = EffBase(g)
  BY <1>3, <1>4 DEF EffKeyEnv, EffKey, EffBase, C!HostOnly, C!Strings
<1>6. \A s \in C!HostOnly \ {"provider", "wire", "keyEnv", "key", "base"} :
          C!Effective(f)[s] = f[s] /\ C!Effective(g)[s] = g[s]
  BY EffectiveFields DEF Fields, C!HostOnly, C!Strings
<1> QED BY <1>1, <1>2, <1>4, <1>5, <1>6, EffectiveFields DEF Agree

\* To apply provider and environment a second time changes none of them.
LEMMA EffectiveAgain ==
    ASSUME NEW f, IsConf(f), env \in C!Environments
    PROVE  Applied(C!Effective(f))
<1> DEFINE g == C!Effective(f)
<1>1. /\ IsConf(g) /\ g["providers"] = f["providers"]
      /\ g["provider"] = EffProvider(f) /\ g["wire"] = EffWire(f)
      /\ g["keyEnv"] = EffKeyEnv(f) /\ g["key"] = EffKey(f) /\ g["base"] = EffBase(f)
  BY EffectiveFields DEF Fields
<1> HIDE DEF g
<1>2. EffProvider(g) = EffProvider(f) /\ EffRow(g) = EffRow(f)
  BY <1>1 DEF EffProvider, EffRow
<1>3. EffWire(g) = EffWire(f)
  BY <1>1, <1>2 DEF EffWire, FromRow, C!Or
<1>4. EffBase(g) = EffBase(f)
  BY <1>1, <1>2, <1>3 DEF EffBase, FromEnv, FromRow, C!Or
<1>5. EffKey(f) = FromEnv(f, "key")
  BY VendorIs DEF EffKey, FromEnv
<1>6. FromEnv(g, "key") = FromEnv(f, "key")
  BY <1>1, <1>2, <1>3, <1>5 DEF FromEnv, FromRow, C!Or
<1>7. EffKeyEnv(g) = EffKeyEnv(f)
  BY <1>1, <1>2, <1>3, <1>6 DEF EffKeyEnv, FromRow, C!Or
<1>8. EffKey(g) = EffKey(f)
  BY <1>6, <1>7 DEF EffKey
<1>9. ASSUME NEW s \in C!HostOnly \ {"provider", "wire", "keyEnv", "key", "base"}
      PROVE  C!Effective(g)[s] = g[s]
  BY <1>1, <1>9, EffectiveFields DEF Fields, C!HostOnly, C!Strings
<1>10. Agree(C!Effective(g), g)
  BY <1>1, <1>2, <1>3, <1>4, <1>7, <1>8, <1>9, EffectiveFields DEF Agree
<1> QED BY <1>10 DEF g, Applied

LEMMA EffectiveFits ==
    ASSUME NEW f, IsConf(f), env \in C!Environments
    PROVE  KeyFits(C!Effective(f))
<1>1. /\ C!Effective(f)["wire"] = EffWire(f)
      /\ C!Effective(f)["key"] = EffKey(f) /\ C!Effective(f)["base"] = EffBase(f)
  BY EffectiveFields
<1>2. ASSUME EffWire(f) = "anthropic", env.keys = {"OPENAI", "ANTHROPIC"}
      PROVE  EffKey(f) = "ANTHROPIC" /\ EffBase(f) = "ANTHROPIC"
  <2>1. Vendor(EffWire(f)) = "ANTHROPIC"
    BY <1>2, VendorIs
  <2> QED BY <2>1 DEF EffKey, EffBase, FromEnv, C!None
<1> QED BY <1>1, <1>2 DEF KeyFits

\* What mergeOverlay makes of the settings the properties speak of.
LEMMA OverlayFields ==
    ASSUME NEW f, IsConf(f), NEW o
    PROVE  LET g == C!MergeOverlay(f, o)
           IN  /\ IsConf(g)
               /\ \A s \in C!Strings \cup {"provider", "enable"} : g[s] = C!Or(o, s, f[s])
               /\ g["providers"] = C!Over(f["providers"], C!Or(o, "providers", <<>>))
               /\ g["write"] = (f["write"] \/ C!Has(o, "write"))
               /\ g["roots"] = f["roots"] \cup C!Or(o, "roots", {})
               /\ g["turns"] = C!CapOf(o, "turns", f["turns"])
               /\ g["runTokens"] = C!SpendOf(o, f["runTokens"])
               /\ g["sections"] = C!Over(f["sections"], C!Or(o, "sections", <<>>))
<1>1. IsConf(C!MergeOverlay(f, o))
  BY ZenonT(60) DEF C!MergeOverlay, IsConf
<1>2. DOMAIN f = Fields
  BY DEF IsConf
<1> QED BY <1>1, <1>2 DEF C!MergeOverlay, Fields, C!Strings

LEMMA CapIsNat ==
    ASSUME NEW o, NEW old \in Nat, "turns" \in DOMAIN o => o["turns"] \in Int
    PROVE  C!CapOf(o, "turns", old) \in Nat
BY DEF C!CapOf, C!Has

LEMMA LayerFields ==
    ASSUME NEW l, NEW o
    PROVE  LET g == C!Of(l, o)
           IN  /\ DOMAIN g = DOMAIN o
               /\ "turns" \in DOMAIN o => g["turns"] = o["turns"]
               /\ "sections" \in DOMAIN o => g["sections"] = [x \in o["sections"] |-> l]
BY DEF C!Of, C!Origins

LEMMA RestrictedFields ==
    ASSUME NEW f, NEW o
    PROVE  LET r == C!Restricted(f, C!Of("project", o))
           IN  /\ \A s \in C!HostOnly \cup {"enable"} : s \notin DOMAIN r
               /\ "turns" \in DOMAIN r =>
                     /\ "turns" \in DOMAIN o /\ r["turns"] = o["turns"]
                     /\ C!LowersTurnCap(o["turns"], f["turns"])
               /\ "sections" \in DOMAIN r =>
                     /\ DOMAIN r["sections"] \cap {"acp", "media"} = {}
                     /\ \A x \in DOMAIN r["sections"] : r["sections"][x] = "project"
<1> DEFINE p == C!Of("project", o)
           r == C!Restricted(f, p)
           cap == IF C!Has(p, "turns") /\ ~C!LowersTurnCap(p["turns"], f["turns"]) THEN {"turns"} ELSE {}
           kept == DOMAIN p \ (C!HostOnly \cup cap \cup {"enable", "skills"})
<1>1. r = [s \in kept |-> IF s = "sections" THEN C!Restrict(p[s], DOMAIN p[s] \ {"acp", "media"}) ELSE p[s]]
  BY DEF C!Restricted
<1>2. /\ DOMAIN p = DOMAIN o /\ ("turns" \in DOMAIN o => p["turns"] = o["turns"])
      /\ "sections" \in DOMAIN o => p["sections"] = [x \in o["sections"] |-> "project"]
  BY LayerFields
<1> HIDE DEF p, r
<1>3. \A s \in C!HostOnly \cup {"enable"} : s \notin DOMAIN r
  BY <1>1
<1>4. ASSUME "turns" \in DOMAIN r
      PROVE  /\ "turns" \in DOMAIN o /\ r["turns"] = o["turns"]
             /\ C!LowersTurnCap(o["turns"], f["turns"])
  BY <1>1, <1>2, <1>4 DEF C!Has
<1>5. ASSUME "sections" \in DOMAIN r
      PROVE  /\ DOMAIN r["sections"] \cap {"acp", "media"} = {}
             /\ \A x \in DOMAIN r["sections"] : r["sections"][x] = "project"
  <2>1. "sections" \in DOMAIN o /\ r["sections"] = C!Restrict(p["sections"], DOMAIN p["sections"] \ {"acp", "media"})
    BY <1>1, <1>2, <1>5
  <2> QED BY <1>2, <2>1 DEF C!Restrict
<1> QED BY <1>3, <1>4, <1>5 DEF p, r

\* What mergeProjectFile makes of them: nothing of the user's alone is moved, no
\* tool but a harmless one is added, and the ceiling is only lowered.
LEMMA ProjectFields ==
    ASSUME NEW f, IsConf(f), Typed(f), From(f, UserLayers), NEW o \in ProjectLayers
    PROVE  LET g == C!MergeProject(f, C!Of("project", o))
           IN  /\ IsConf(g) /\ Typed(g) /\ Agree(g, f)
               /\ g["enable"] \cap (C!Power \cup C!Media) = f["enable"] \cap (C!Power \cup C!Media)
               /\ f["enable"] \subseteq g["enable"]
               /\ f["turns"] = 0 \/ g["turns"] \in 1 .. f["turns"]
               /\ \A x \in DOMAIN g["sections"] :
                     g["sections"][x] \in UserLayers
                     \/ (g["sections"][x] = "project" /\ x \notin {"acp", "media"})
<1> DEFINE p == C!Of("project", o)
           r == C!Restricted(f, p)
           h == C!MergeOverlay(f, r)
           g == C!MergeProject(f, p)
<1>1. /\ \A s \in C!HostOnly \cup {"enable"} : s \notin DOMAIN r
      /\ "turns" \in DOMAIN r =>
            /\ "turns" \in DOMAIN o /\ r["turns"] = o["turns"]
            /\ C!LowersTurnCap(o["turns"], f["turns"])
      /\ "sections" \in DOMAIN r =>
            /\ DOMAIN r["sections"] \cap {"acp", "media"} = {}
            /\ \A x \in DOMAIN r["sections"] : r["sections"][x] = "project"
  BY RestrictedFields
<1>2. /\ IsConf(h)
      /\ \A s \in C!Strings \cup {"provider", "enable"} : h[s] = C!Or(r, s, f[s])
      /\ h["providers"] = C!Over(f["providers"], C!Or(r, "providers", <<>>))
      /\ h["write"] = (f["write"] \/ C!Has(r, "write"))
      /\ h["roots"] = f["roots"] \cup C!Or(r, "roots", {})
      /\ h["turns"] = C!CapOf(r, "turns", f["turns"])
      /\ h["runTokens"] = C!SpendOf(r, f["runTokens"])
      /\ h["sections"] = C!Over(f["sections"], C!Or(r, "sections", <<>>))
  BY OverlayFields
<1>3. g = [h EXCEPT !.enable = @ \cup C!DropProjectTools(C!Or(p, "enable", {})),
                    !.skills = @ \cup C!SkillDirsUnder(C!Or(p, "skills", {}))]
  BY DEF C!MergeProject
<1>4. "turns" \in DOMAIN o => o["turns"] \in Int
  BY LayerAssumption
<1> HIDE DEF p, r, h, g
<1>5. /\ IsConf(g) /\ \A s \in Fields \ {"enable", "skills"} : g[s] = h[s]
      /\ g["enable"] = h["enable"] \cup C!DropProjectTools(C!Or(p, "enable", {}))
  BY <1>2, <1>3 DEF IsConf, Fields
<1>6. h["enable"] = f["enable"] /\ \A s \in C!Strings \cup {"provider"} : h[s] = f[s]
  BY <1>1, <1>2 DEF C!HostOnly, C!Or, C!Has
<1>7. h["providers"] = f["providers"]
  <2>1. h["providers"] = C!Over(f["providers"], <<>>)
    BY <1>1, <1>2 DEF C!HostOnly, C!Or, C!Has
  <2>2. DOMAIN <<>> = {}
    OBVIOUS
  <2> QED BY <2>1, <2>2 DEF C!Over, Typed
<1>8. h["write"] = f["write"]
  <2>1. ~C!Has(r, "write") /\ f["write"] \in BOOLEAN
    BY <1>1 DEF C!HostOnly, C!Has, Typed
  <2> QED BY <1>2, <2>1, Zenon
<1>9. h["roots"] = f["roots"] /\ h["runTokens"] = f["runTokens"]
  BY <1>1, <1>2 DEF C!HostOnly, C!Or, C!Has, C!SpendOf
<1>10. f["turns"] \in Nat
  BY DEF Typed
<1>11. h["turns"] \in Nat /\ (f["turns"] = 0 \/ h["turns"] \in 1 .. f["turns"])
  BY <1>1, <1>2, <1>4, <1>10 DEF C!CapOf, C!Has, C!LowersTurnCap
<1>12. \A x \in DOMAIN h["sections"] :
          h["sections"][x] \in UserLayers
          \/ (h["sections"][x] = "project" /\ x \notin {"acp", "media"})
  <2>1. CASE "sections" \in DOMAIN r
    BY <1>1, <1>2, <2>1 DEF C!Over, C!Or, C!Has, From
  <2>2. CASE "sections" \notin DOMAIN r
    BY <1>2, <2>2 DEF C!Over, C!Or, C!Has, From
  <2> QED BY <2>1, <2>2
<1>13. g["enable"] \cap (C!Power \cup C!Media) = f["enable"] \cap (C!Power \cup C!Media)
  BY <1>5, <1>6 DEF C!DropProjectTools
<1>14. Agree(g, f)
  BY <1>5, <1>6, <1>7, <1>8, <1>9 DEF Agree, C!HostOnly, C!Strings, Fields
<1>15. Typed(g)
  <2>1. g["turns"] = h["turns"] /\ g["write"] = f["write"] /\ g["providers"] = f["providers"]
    BY <1>5, <1>7, <1>8 DEF Fields
  <2> QED BY <1>11, <2>1 DEF Typed
<1>16. g["sections"] = h["sections"] /\ g["turns"] = h["turns"]
  BY <1>5 DEF Fields
<1> QED BY <1>5, <1>6, <1>11, <1>12, <1>13, <1>14, <1>15, <1>16 DEF g, p

\* A file of the user leaves a configuration well formed.
LEMMA UserFields ==
    ASSUME NEW f, IsConf(f), Typed(f), From(f, UserLayers), NEW o \in HostLayers, NEW l \in UserLayers
    PROVE  LET g == C!MergeOverlay(f, C!Of(l, o))
           IN  IsConf(g) /\ Typed(g) /\ From(g, UserLayers)
<1> DEFINE p == C!Of(l, o)
           g == C!MergeOverlay(f, p)
<1>1. /\ DOMAIN p = DOMAIN o /\ ("turns" \in DOMAIN o => p["turns"] = o["turns"])
      /\ "sections" \in DOMAIN o => p["sections"] = [x \in o["sections"] |-> l]
  BY LayerFields
<1>2. /\ IsConf(g)
      /\ g["providers"] = C!Over(f["providers"], C!Or(p, "providers", <<>>))
      /\ g["write"] = (f["write"] \/ C!Has(p, "write"))
      /\ g["turns"] = C!CapOf(p, "turns", f["turns"])
      /\ g["sections"] = C!Over(f["sections"], C!Or(p, "sections", <<>>))
  BY OverlayFields
<1>3. "turns" \in DOMAIN o => o["turns"] \in Int
  BY LayerAssumption
<1> HIDE DEF p, g
<1>4. g["turns"] \in Nat
  <2>1. f["turns"] \in Nat /\ ("turns" \in DOMAIN p => p["turns"] \in Int)
    BY <1>1, <1>3 DEF Typed
  <2> QED BY <1>2, <2>1, CapIsNat
<1>5. g["write"] \in BOOLEAN
  <2>1. f["write"] \in BOOLEAN
    BY DEF Typed
  <2>2. CASE C!Has(p, "write")
    BY <1>2, <2>1, <2>2, Zenon
  <2>3. CASE ~C!Has(p, "write")
    BY <1>2, <2>1, <2>3, Zenon
  <2> QED BY <2>2, <2>3
<1>6. g["providers"] = [x \in DOMAIN g["providers"] |-> g["providers"][x]]
  BY <1>2 DEF C!Over
<1>7. From(g, UserLayers)
  <2>1. CASE "sections" \in DOMAIN p
    BY <1>1, <1>2, <2>1 DEF C!Over, C!Or, C!Has, From
  <2>2. CASE "sections" \notin DOMAIN p
    BY <1>2, <2>2 DEF C!Over, C!Or, C!Has, From
  <2> QED BY <2>1, <2>2
<1> QED BY <1>2, <1>4, <1>5, <1>6, <1>7 DEF Typed, g, p

LEMMA EffectiveKeeps ==
    ASSUME NEW f, IsConf(f), Typed(f)
    PROVE  LET g == C!Effective(f)
           IN  /\ IsConf(g) /\ Typed(g)
               /\ g["enable"] = f["enable"] /\ g["turns"] = f["turns"] /\ g["sections"] = f["sections"]
<1> DEFINE g == C!Effective(f)
<1>1. /\ IsConf(g) /\ g["enable"] = f["enable"] /\ g["turns"] = f["turns"]
      /\ g["sections"] = f["sections"] /\ g["write"] = f["write"] /\ g["providers"] = f["providers"]
  BY EffectiveFields DEF Fields
<1> HIDE DEF g
<1>2. Typed(g)
  BY <1>1 DEF Typed
<1> QED BY <1>1, <1>2 DEF g

\* What it makes of a configuration stays while the environment does.
LEMMA EffectiveStays ==
    ASSUME env' = env
    PROVE  \A f : (Applied(f)' <=> Applied(f)) /\ (KeyFits(f)' <=> KeyFits(f))
<1> SUFFICES ASSUME NEW f PROVE (Applied(f)' <=> Applied(f)) /\ (KeyFits(f)' <=> KeyFits(f))
  OBVIOUS
<1>1. KeyFits(f)' <=> KeyFits(f)
  BY Zenon DEF KeyFits
<1>2. \A g : C!Named(g)' = C!Named(g)
  BY Zenon DEF C!Named
<1>3. \A g : C!ApplyEnv(g)' = C!ApplyEnv(g)
  <2>1. \A o : C!FirstEnv(o)' = C!FirstEnv(o)
    BY Zenon DEF C!FirstEnv
  <2> QED BY <2>1, Zenon DEF C!ApplyEnv
<1>4. \A g : C!Normalize(g)' = C!Normalize(g)
  BY Zenon DEF C!Normalize
<1>5. \A g : C!ApplyProvider(g)' = C!ApplyProvider(g)
  BY Zenon DEF C!ApplyProvider
<1>6. C!Effective(f)' = C!Effective(f)
  BY <1>2, <1>3, <1>4, <1>5, Zenon DEF C!Effective
<1>7. Applied(f)' <=> Applied(f)
  BY <1>6, Zenon DEF Applied, Agree
<1> QED BY <1>1, <1>7

\* What a flag or a session says of the right to write.
Rights == {"", "allow", "disable"}

LEMMA ConfStarts == C!Init => ConfInv
<1> SUFFICES ASSUME C!Init PROVE ConfInv
  OBVIOUS
<1>1. conf = C!Defaults /\ env \in C!Environments /\ stage = "home"
  BY DEF C!Init
<1>2. IsConf(C!Defaults)
  BY ZenonT(60) DEF C!Defaults, IsConf, Fields
<1>3. /\ C!Defaults["turns"] = 0 /\ C!Defaults["write"] = FALSE
      /\ C!Defaults["providers"] = <<>> /\ C!Defaults["sections"] = <<>>
  BY DEF C!Defaults
<1>4. <<>> = [x \in DOMAIN <<>> |-> <<>>[x]] /\ DOMAIN <<>> = {}
  OBVIOUS
<1>5. Typed(C!Defaults) /\ From(C!Defaults, UserLayers)
  <2>1. C!Defaults["providers"] = [x \in DOMAIN C!Defaults["providers"] |-> C!Defaults["providers"][x]]
    BY <1>3, <1>4
  <2>2. C!Defaults["turns"] \in Nat
    BY <1>3
  <2>4. C!Defaults["write"] \in BOOLEAN
    BY <1>3, Zenon
  <2>3. From(C!Defaults, UserLayers)
    BY <1>3, <1>4 DEF From
  <2> QED BY <2>1, <2>2, <2>3, <2>4, Zenon DEF Typed
<1> QED BY <1>1, <1>2, <1>5 DEF ConfInv, C!After

LEMMA ConfSteps == ConfInv /\ C!Next => ConfInv'
<1> SUFFICES ASSUME ConfInv, C!Next PROVE ConfInv'
  OBVIOUS
<1>1. env \in C!Environments /\ IsConf(conf) /\ Typed(conf)
  BY DEF ConfInv
<1>2. CASE C!Home \/ C!Profile \/ C!Path
  <2>1. /\ stage \in {"home", "profile", "paths"} /\ stage' \in {"profile", "paths", "error"} /\ env' = env
        /\ \/ conf' = conf
           \/ \E o \in HostLayers, l \in UserLayers : conf' = C!MergeOverlay(conf, C!Of(l, o))
    BY <1>2 DEF C!Home, C!Profile, C!Path, UserLayers
  <2>2. From(conf, UserLayers)
    BY <2>1 DEF ConfInv
  <2>3. IsConf(conf') /\ Typed(conf') /\ From(conf', UserLayers)
    BY <1>1, <2>1, <2>2, UserFields
  <2> QED BY <1>1, <2>1, <2>3 DEF ConfInv, C!After, IsConf, Typed, From
<1>3. CASE C!Host
  <2>1. /\ stage = "paths" /\ env' = env
        /\ \/ stage' = "project" /\ conf' = C!Effective(conf) /\ hostConf' = conf'
           \/ stage' = "error" /\ conf' = conf
    BY <1>3 DEF C!Host
  <2>2. CASE stage' = "error" /\ conf' = conf
    BY <1>1, <2>1, <2>2 DEF ConfInv, C!After, IsConf, Typed
  <2>3. CASE stage' = "project" /\ conf' = C!Effective(conf) /\ hostConf' = conf'
    <3>1. IsConf(conf') /\ Typed(conf') /\ conf'["sections"] = conf["sections"]
      BY <1>1, <2>3, EffectiveKeeps
    <3>2. From(conf', UserLayers)
      BY <2>1, <3>1 DEF ConfInv, From
    <3>3. Applied(C!Effective(conf)) /\ KeyFits(C!Effective(conf))
      BY <1>1, EffectiveAgain, EffectiveFits
    <3>4. Applied(conf)' /\ KeyFits(conf)'
      BY <2>1, <2>3, <3>3, EffectiveStays
    <3> QED BY <1>1, <2>1, <2>3, <3>1, <3>2, <3>4 DEF ConfInv, C!After, IsConf, Typed, From
  <2> QED BY <2>1, <2>2, <2>3
<1>4. CASE C!Project
  <2>1. /\ stage = "project" /\ stage' = "loaded" /\ env' = env /\ hostConf' = hostConf
        /\ \/ conf' = conf
           \/ \E o \in ProjectLayers : conf' = C!Effective(C!MergeProject(conf, C!Of("project", o)))
    BY <1>4 DEF C!Project
  <2>2. Applied(conf) /\ KeyFits(conf) /\ hostConf = conf /\ From(conf, UserLayers)
    BY <2>1 DEF ConfInv
  <2>3. /\ IsConf(conf') /\ Typed(conf') /\ Agree(conf', conf)
        /\ conf'["enable"] \cap (C!Power \cup C!Media) = conf["enable"] \cap (C!Power \cup C!Media)
        /\ conf["enable"] \subseteq conf'["enable"]
        /\ conf["turns"] = 0 \/ conf'["turns"] \in 1 .. conf["turns"]
        /\ \A x \in DOMAIN conf'["sections"] :
              conf'["sections"][x] \in UserLayers
              \/ (conf'["sections"][x] = "project" /\ x \notin {"acp", "media"})
    <3>1. CASE conf' = conf
      <4>1. conf["turns"] \in Nat
        BY <1>1 DEF Typed
      <4> QED BY <1>1, <2>2, <3>1, <4>1 DEF Agree, From
    <3>2. CASE \E o \in ProjectLayers : conf' = C!Effective(C!MergeProject(conf, C!Of("project", o)))
      <4>1. PICK o \in ProjectLayers : conf' = C!Effective(C!MergeProject(conf, C!Of("project", o)))
        BY <3>2
      <4> DEFINE g == C!MergeProject(conf, C!Of("project", o))
      <4>2. /\ IsConf(g) /\ Typed(g) /\ Agree(g, conf)
            /\ g["enable"] \cap (C!Power \cup C!Media) = conf["enable"] \cap (C!Power \cup C!Media)
            /\ conf["enable"] \subseteq g["enable"]
            /\ conf["turns"] = 0 \/ g["turns"] \in 1 .. conf["turns"]
            /\ \A x \in DOMAIN g["sections"] :
                  g["sections"][x] \in UserLayers
                  \/ (g["sections"][x] = "project" /\ x \notin {"acp", "media"})
        BY <1>1, <2>2, ProjectFields
      <4> HIDE DEF g
      <4>3. /\ IsConf(conf') /\ Typed(conf') /\ conf'["enable"] = g["enable"]
            /\ conf'["turns"] = g["turns"] /\ conf'["sections"] = g["sections"]
        BY <4>1, <4>2, EffectiveKeeps DEF g
      <4>4. Agree(conf', conf)
        <5>1. Agree(C!Effective(g), C!Effective(conf))
          BY <1>1, <4>2, EffectiveDepends
        <5> QED BY <2>2, <4>1, <5>1 DEF Agree, Applied, g
      <4> QED BY <4>2, <4>3, <4>4
    <3> QED BY <2>1, <3>1, <3>2
  <2>4. KeyFits(conf)'
    BY <2>1, <2>2, <2>3 DEF KeyFits, Agree, C!HostOnly, C!Strings
  <2>5. IsConf(hostConf') /\ Agree(conf', hostConf')
    BY <1>1, <2>1, <2>2, <2>3
  <2> HIDE DEF UserLayers
  <2>6. \A x \in DOMAIN conf.sections' :
              conf.sections'[x] \in UserLayers
              \/ (conf.sections'[x] = "project" /\ x \notin {"acp", "media"})
    BY <2>3
  <2> QED BY <1>1, <2>1, <2>2, <2>3, <2>4, <2>5, <2>6 DEF ConfInv, C!After, IsConf, Typed, Agree
<1>5. CASE C!New
  <2>1. PICK w \in Rights :
          /\ stage = "loaded" /\ stage' = "ready" /\ env' = env
          /\ conf' = [conf EXCEPT !.enable = C!Tools(conf, w)]
          /\ hostConf' = [hostConf EXCEPT !.enable = C!Tools(hostConf, w)]
    <3>1. PICK flags \in C!Flags, resumed \in Rights :
              /\ conf' = [conf EXCEPT !.enable = C!Tools(conf, C!SessionPolicy(flags, resumed))]
              /\ hostConf' = [hostConf EXCEPT !.enable = C!Tools(hostConf, C!SessionPolicy(flags, resumed))]
      BY <1>5, Zenon DEF C!New, Rights
    <3>2. C!SessionPolicy(flags, resumed) \in Rights
      BY Zenon DEF C!SessionPolicy, C!Flags, Rights
    <3> QED BY <1>5, <3>1, <3>2, Zenon DEF C!New
  <2>2. /\ IsConf(hostConf) /\ Agree(conf, hostConf) /\ KeyFits(conf)
        /\ conf.enable \cap (C!Power \cup C!Media) = hostConf.enable \cap (C!Power \cup C!Media)
        /\ hostConf.enable \subseteq conf.enable
        /\ hostConf.turns = 0 \/ conf.turns \in 1 .. hostConf.turns
        /\ \A x \in DOMAIN conf.sections :
              conf.sections[x] \in UserLayers \/ (conf.sections[x] = "project" /\ x \notin {"acp", "media"})
    BY <2>1 DEF ConfInv, C!After
  <2>3. /\ IsConf(conf') /\ \A s \in Fields \ {"enable"} : conf'[s] = conf[s]
        /\ conf'["enable"] = C!Tools(conf, w)
    BY <1>1, <2>1 DEF IsConf, Fields
  <2>4. /\ IsConf(hostConf') /\ \A s \in Fields \ {"enable"} : hostConf'[s] = hostConf[s]
        /\ hostConf'["enable"] = C!Tools(hostConf, w)
    BY <2>1, <2>2 DEF IsConf, Fields
  <2>5. conf["write"] = hostConf["write"]
    BY <2>2 DEF Agree, C!HostOnly
  <2>6. /\ C!Tools(conf, w) \cap (C!Power \cup C!Media) = C!Tools(hostConf, w) \cap (C!Power \cup C!Media)
        /\ C!Tools(hostConf, w) \subseteq C!Tools(conf, w)
    <3>1. CASE w = "disable"
      <4>1. C!Tools(conf, w) = conf.enable \ {"write"} /\ C!Tools(hostConf, w) = hostConf.enable \ {"write"}
        BY <3>1 DEF C!Tools
      <4> QED BY <2>2, <4>1
    <3>2. CASE w # "disable" /\ (w = "allow" \/ conf["write"])
      BY <2>2, <2>5, <3>2 DEF C!Tools
    <3>3. CASE w # "disable" /\ ~(w = "allow" \/ conf["write"])
      BY <2>2, <2>5, <3>3 DEF C!Tools
    <3> QED BY <3>1, <3>2, <3>3
  <2>7. Agree(conf', hostConf') /\ KeyFits(conf)'
    BY <2>1, <2>2, <2>3, <2>4 DEF Agree, KeyFits, C!HostOnly, C!Strings, Fields
  <2>8. /\ conf'["turns"] = conf["turns"] /\ hostConf'["turns"] = hostConf["turns"]
        /\ conf'["sections"] = conf["sections"]
        /\ conf'["write"] = conf["write"] /\ conf'["providers"] = conf["providers"]
    BY <2>3, <2>4 DEF Fields
  <2>9. Typed(conf')
    BY <1>1, <2>8 DEF Typed
  <2>10. \A x \in DOMAIN conf.sections' :
              conf.sections'[x] \in UserLayers
              \/ (conf.sections'[x] = "project" /\ x \notin {"acp", "media"})
    BY <2>2, <2>8
  <2>11. hostConf.turns' = 0 \/ conf.turns' \in 1 .. hostConf.turns'
    BY <2>2, <2>8
  <2>12. stage' = "ready" /\ env' \in C!Environments
    BY <1>1, <2>1
  <2> QED BY <2>3, <2>4, <2>6, <2>7, <2>9, <2>10, <2>11, <2>12 DEF ConfInv
<1> QED BY <1>2, <1>3, <1>4, <1>5 DEF C!Next

LEMMA ConfUntouched == ConfInv /\ UNCHANGED configVars => ConfInv'
<1> SUFFICES ASSUME ConfInv, UNCHANGED configVars PROVE ConfInv'
  OBVIOUS
<1>1. env' = env /\ stage' = stage /\ conf' = conf /\ hostConf' = hostConf
  BY DEF configVars
<1>2. (Applied(conf)' <=> Applied(conf)) /\ (KeyFits(conf)' <=> KeyFits(conf))
  BY <1>1, EffectiveStays
<1> QED BY <1>1, <1>2 DEF ConfInv, IsConf, Typed, From, Agree, C!After

LEMMA ConfMeans == ConfInv => C!ProjectGrantsNothing /\ C!CeilingKept /\ C!KeyOfTheWire
BY DEF ConfInv, C!ProjectGrantsNothing, C!CeilingKept, C!KeyOfTheWire, C!After, Agree, KeyFits, UserLayers

-----------------------------------------------------------------------------
(* Theorems of the run                                                     *)

LEMMA ApartStarts == MCInit => SetupInv /\ ProcInv /\ ConfInv
<1>1. MCInit => X!Init /\ P!Init /\ C!Init
  BY DEF MCInit, NoSetup, NoConfig
<1>2. QED
  BY <1>1, SetupStarts, ProcStarts, ConfStarts

LEMMA ApartSteps == SetupInv /\ ProcInv /\ ConfInv /\ [MCNext]_all => (SetupInv /\ ProcInv /\ ConfInv)'
<1> SUFFICES ASSUME SetupInv, ProcInv, ConfInv, [MCNext]_all
             PROVE  SetupInv' /\ ProcInv' /\ ConfInv'
  OBVIOUS
<1>1. /\ X!Next \/ UNCHANGED setupVars
      /\ P!Next \/ UNCHANGED procVars
      /\ C!Next \/ UNCHANGED configVars
  BY DEF MCNext, all
<1>2. QED
  <2>1. SetupInv'
    BY <1>1, SetupSteps, SetupUntouched DEF setupVars
  <2>2. ProcInv'
    BY <1>1, ProcSteps, ProcUntouched
  <2>3. ConfInv'
    BY <1>1, ConfSteps, ConfUntouched
  <2>4. QED
    BY <2>1, <2>2, <2>3

(* However engines of one process are made, fail, close and share the      *)
(* registries of ext and mcp, and however calls of bash_bg interleave with *)
(* deaths and reuse of process numbers: an engine's own tools work while   *)
(* it is open, a hermetic one has nothing of another's, one hook stands    *)
(* for a source, no server is left when all are closed; no stranger's      *)
(* process is signalled, and a process of an engine alone with its ids     *)
(* does not outlive it unless it was to be kept.                           *)
THEOREM EnginesStayApart == MCSpec => []EnginesApart
<1>1. SetupInv /\ ProcInv => EnginesApart
  BY SetupMeans, ProcMeans DEF EnginesApart
<1>2. QED
  BY <1>1, ApartStarts, ApartSteps, PTL DEF MCSpec

(* Whatever files a user and a project have and whatever the environment   *)
(* sets: the project's file moves nothing that is the user's alone, adds   *)
(* no tool with power, lifts no ceiling of turns, and what is left speaks  *)
(* to its endpoint with that endpoint's key (mergeProjectFile, and the     *)
(* second pass of provider and environment after it).                      *)
THEOREM ProjectStaysBounded == MCSpec => []ProjectBounded
<1>1. ConfInv => ProjectBounded
  BY ConfMeans DEF ProjectBounded
<1>2. QED
  BY <1>1, ApartStarts, ApartSteps, PTL DEF MCSpec
=============================================================================

------------------------------ MODULE SessionStore ------------------------------
(***************************************************************************)
(* The session file (internal/session/session.go): one JSONL file that any *)
(* number of processes append to, each through a Store that remembers the  *)
(* history it saved last so that the next save can be a delta on it.       *)
(*                                                                         *)
(* A step is a system call on the file, or what a Store does between two   *)
(* of them.  A line is what LoadMessages tells lines apart by; its index   *)
(* stands for its byte offset, and the number of lines with the missing    *)
(* final newline stands for the file's size.  A write may stop anywhere:   *)
(* part of a line, or all of it but the newline, then stays in the file.   *)
(*                                                                         *)
(* An operator whose comment starts with "Fault:" is a wrong version of    *)
(* the definition below it, used to see that a property notices.           *)
(***************************************************************************)
EXTENDS ReplayRepair

CONSTANTS Writers,    \* the Stores, one per process
          Messages,   \* the messages of the two below
          Histories,  \* message lists passed to AppendSnapshot
          Turns,      \* user and assistant texts passed to Append
          Locking,    \* the file system supports flock
          MaxLines,   \* bound on the length of the file
          None        \* a nil pointer

ASSUME LockingAssumption == Locking \in BOOLEAN
ASSUME HistoriesAssumption ==
  Histories \subseteq {h \in Seq(Messages) : h # <<>> /\ h[1].role = "system" /\ InPlace(h)}
ASSUME TurnsAssumption == Turns \subseteq {m \in Messages : m.role # "tool" /\ m.calls = <<>>}

ASSUME MessagesAssumption ==
  \A m \in Messages :
    /\ m = [role |-> m.role, text |-> m.text, calls |-> m.calls, id |-> m.id]
    /\ m.calls \in Seq(ToSet(m.calls))

VARIABLES
  file,   \* the lines
  open,   \* the last line has no newline
  flock,  \* holder of the lock
  wpc,    \* where each Store is in append
  req,    \* the event it was given
  rec,    \* the line it decided to write
  seen,   \* number of lines at its stat
  old,    \* the base it had (the local "previous")
  snap,   \* Store.snapshot, <<>> when nil
  off,    \* Store.snapshotOffset
  ckpt,   \* Store.checkpointBytes
  end,    \* Store.file and Store.end: the size after its last write
  ret     \* how its last append ended, until the next

store == <<snap, off, ckpt, end>>
call  == <<wpc, req, rec, seen, old, ret>>
vars  == <<file, open, flock, store, call>>

Requests == [kind : {"snapshot"}, msgs : Histories]
              \cup [kind : {"turn"}, msgs : {<<t>> : t \in Turns}]

ASSUME NoneAssumption == None \notin Writers \cup Requests \cup (Nat \X BOOLEAN)

Full(h)     == [type |-> "full",  msgs |-> h,    base |-> 0]
Delta(s, b) == [type |-> "delta", msgs |-> s,    base |-> b]
Turn(s)     == [type |-> "turn",  msgs |-> s,    base |-> 0]
Torn        == [type |-> "torn",  msgs |-> <<>>, base |-> 0]

Size == <<Len(file), open>>

Init ==
  /\ file = <<>> /\ open = FALSE /\ flock = None
  /\ wpc = [w \in Writers |-> "idle"]
  /\ req = [w \in Writers |-> None]
  /\ rec = [w \in Writers |-> Torn]
  /\ seen = [w \in Writers |-> 0]
  /\ old = [w \in Writers |-> <<>>]
  /\ snap = [w \in Writers |-> <<>>]
  /\ off = [w \in Writers |-> 0]
  /\ ckpt = [w \in Writers |-> 0]
  /\ end = [w \in Writers |-> None]
  /\ ret = [w \in Writers |-> "none"]

-----------------------------------------------------------------------------
(* Append and AppendSnapshot.                                              *)

Request(w, r) ==
  /\ wpc[w] = "idle" /\ Len(file) < MaxLines
  /\ wpc' = [wpc EXCEPT ![w] = "open"]
  /\ req' = [req EXCEPT ![w] = r]
  /\ ret' = [ret EXCEPT ![w] = "none"]
  /\ UNCHANGED <<file, open, flock, store, rec, seen, old>>

\* Fault: another process's write goes unnoticed.
BaseAlways(w) == snap[w]

\* The base is good only under the lock, and while the file is as w left it.
Base(w) == IF Locking /\ end[w] = Size THEN snap[w] ELSE <<>>

\* The history grew by whole messages, not yet to twice its last checkpoint.
Grew(w, h) ==
  /\ Base(w) # <<>> /\ IsStrictPrefix(Base(w), h)
  /\ Len(h) < 2 * ckpt[w]

Line(w) ==
  LET h == req[w].msgs IN
  CASE req[w].kind = "turn" -> Turn(h)
    [] req[w].kind = "snapshot" /\ Grew(w, h) ->
         Delta(SubSeq(h, Len(Base(w)) + 1, Len(h)), off[w])
    [] OTHER -> Full(h)

Unchanged(w) == req[w].kind = "snapshot" /\ Base(w) # <<>> /\ req[w].msgs = Base(w)

Done(w, how) ==
  /\ wpc' = [wpc EXCEPT ![w] = "idle"]
  /\ req' = [req EXCEPT ![w] = None]
  /\ rec' = [rec EXCEPT ![w] = Torn]
  /\ seen' = [seen EXCEPT ![w] = 0]
  /\ old' = [old EXCEPT ![w] = <<>>]
  /\ ret' = [ret EXCEPT ![w] = how]
  /\ flock' = IF flock = w THEN None ELSE flock

\* Lock, stat, and the choice of the line; an unchanged history is not saved.
Decide(w) ==
  /\ wpc[w] = "open" /\ (Locking => flock = None)
  /\ IF Unchanged(w)
       THEN /\ Done(w, "ok")
            /\ UNCHANGED snap
       ELSE /\ wpc' = [wpc EXCEPT ![w] = IF open THEN "repair" ELSE "write"]
            /\ flock' = IF Locking THEN w ELSE flock
            /\ rec' = [rec EXCEPT ![w] = Line(w)]
            /\ seen' = [seen EXCEPT ![w] = Len(file)]
            /\ old' = [old EXCEPT ![w] = Base(w)]
            /\ snap' = [snap EXCEPT ![w] = <<>>]
            /\ UNCHANGED <<req, ret>>
  /\ UNCHANGED <<file, open, off, ckpt, end>>

\* Fault: the torn tail is not noticed.
RepairTailSkipped(w) ==
  /\ wpc[w] = "repair"
  /\ wpc' = [wpc EXCEPT ![w] = "write"]
  /\ UNCHANGED <<file, open, flock, store, req, rec, seen, old, ret>>

\* A torn tail is kept on a line of its own.
RepairTail(w) ==
  /\ wpc[w] = "repair"
  /\ open' = FALSE
  /\ wpc' = [wpc EXCEPT ![w] = "write"]
  /\ UNCHANGED <<file, flock, store, req, rec, seen, old, ret>>

\* Written behind an unfinished line, a line spoils both.
Land(line) == IF open THEN [file EXCEPT ![Len(file)] = Torn] ELSE Append(file, line)

Write(w) ==
  /\ wpc[w] = "write"
  /\ file' = Land(rec[w]) /\ open' = FALSE
  /\ end' = [end EXCEPT ![w] = <<seen[w] + 1, FALSE>>]
  /\ IF req[w].kind = "snapshot"
       THEN /\ snap' = [snap EXCEPT ![w] = req[w].msgs]
            /\ off' = [off EXCEPT ![w] = seen[w] + 1]
            /\ ckpt' = IF rec[w].type = "full"
                         THEN [ckpt EXCEPT ![w] = Len(req[w].msgs)] ELSE ckpt
       ELSE /\ snap' = [snap EXCEPT ![w] = old[w]]
            /\ UNCHANGED <<off, ckpt>>
  /\ Done(w, "ok")

\* An append fails: before its write, with part of the line written, or with all
\* of it but the newline.
Fail(w) ==
  /\ wpc[w] # "idle"
  /\ \/ UNCHANGED <<file, open>>
     \/ wpc[w] = "write" /\ open' = TRUE /\ file' \in {Land(Torn), Land(rec[w])}
  /\ Done(w, "error")
  /\ UNCHANGED store

\* The process dies between two appends, after a Fail when in the midst of one,
\* and the session is resumed with a new Store.
Restart(w) ==
  /\ wpc[w] = "idle" /\ end[w] # None
  /\ snap' = [snap EXCEPT ![w] = <<>>]
  /\ off' = [off EXCEPT ![w] = 0]
  /\ ckpt' = [ckpt EXCEPT ![w] = 0]
  /\ end' = [end EXCEPT ![w] = None]
  /\ UNCHANGED <<file, open, flock, call>>

Next ==
  \E w \in Writers :
    \/ \E r \in Requests : Request(w, r)
    \/ Decide(w) \/ RepairTail(w) \/ Write(w) \/ Fail(w) \/ Restart(w)

Spec == Init /\ [][Next]_vars

-----------------------------------------------------------------------------
(* LoadMessages.                                                           *)

\* Fault: a delta is not the base of the next.
VisitStuck(acc, line, i) ==
  CASE line.type = "delta" /\ line.base = acc.off ->
         [acc EXCEPT !.snap = @ \o line.msgs]
    [] line.type = "delta" /\ line.base # acc.off -> [acc EXCEPT !.ok = FALSE]
    [] line.type = "full" -> [acc EXCEPT !.snap = line.msgs, !.off = i]
    [] line.type = "turn" -> [acc EXCEPT !.turns = @ \o line.msgs]
    [] line.type = "torn" -> acc

\* One line: off is the offset of the last replay record.
Visit(acc, line, i) ==
  CASE line.type = "delta" /\ line.base = acc.off ->
         [acc EXCEPT !.snap = @ \o line.msgs, !.off = i]
    [] line.type = "delta" /\ line.base # acc.off -> [acc EXCEPT !.ok = FALSE]
    [] line.type = "full" -> [acc EXCEPT !.snap = line.msgs, !.off = i]
    [] line.type = "turn" -> [acc EXCEPT !.turns = @ \o line.msgs]
    [] line.type = "torn" -> acc

Scan(f) ==
  LET r[i \in 0..Len(f)] ==
        IF i = 0 THEN [ok |-> TRUE, snap |-> <<>>, off |-> 0, turns |-> <<>>]
                 ELSE Visit(r[i - 1], f[i], i)
  IN  r[Len(f)]

LoadMessages(f) ==
  LET s == Scan(f) IN
  IF s.snap # <<>> /\ s.snap[1].role = "system" THEN Repair(s.snap) ELSE s.turns

-----------------------------------------------------------------------------
(* Properties.                                                             *)

\* A reader may see the last line half written.
Cut(f) == IF f = <<>> THEN f ELSE [f EXCEPT ![Len(f)] = Torn]

ReplayLine(line) == line.type \in {"full", "delta"}

\* Each delta names the replay record right before it, so LoadMessages never
\* refuses the file (its "no matching replay base" error would lock the session
\* out for good), whatever failed and however the processes interleaved.
BasesMatch ==
  \A i \in DOMAIN file : file[i].type = "delta" =>
    /\ file[i].base \in 1..i - 1 /\ ReplayLine(file[file[i].base])
    /\ \A j \in file[i].base + 1..i - 1 : ~ReplayLine(file[j])

LoadNeverFails == Scan(file).ok /\ Scan(Cut(file)).ok

\* What is resumed can be sent: no call without its result, no result without
\* its call, also when the run that saved it was refused or cut short; and no
\* call is answered again (repairToolCalls).
ResumeSendable ==
  \A f \in {file, Cut(file)} :
    /\ Sendable(LoadMessages(f))
    /\ Once(Scan(f).snap) => Once(LoadMessages(f))

\* A resume sends no call twice and answers none twice, whatever was saved
\* ("sanitize malformed/duplicate calls").
ResumeOnce == \A f \in {file, Cut(file)} : Once(LoadMessages(f))

\* The file loads, as it is and cut off within its last line, and what a resume
\* takes from it can be sent to a provider (repairToolCalls).
FileLoads == LoadNeverFails /\ ResumeSendable

\* The file is the register that ReplayLog describes: an append that succeeded
\* is what the next resume finds, deltas and checkpoints notwithstanding.
Log == INSTANCE ReplayLog WITH
  hist    <- IF Scan(file).off = 0 THEN None ELSE Scan(file).snap,
  turns   <- Scan(file).turns,
  pending <- req
LogSpec == Log!Spec
================================================================================

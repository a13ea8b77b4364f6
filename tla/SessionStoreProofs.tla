--------------------------- MODULE SessionStoreProofs ---------------------------
(***************************************************************************)
(* For any number of processes, histories and file lengths, with or        *)
(* without flock, no delta in the session file ever has a wrong base.      *)
(*                                                                         *)
(* BasesMatch is not inductive: a delta is decided on one step and written *)
(* on a later one, from what its Store remembered of an earlier append.    *)
(* IInv adds the two links.  Remembers: while a Store has a base, the      *)
(* record it would name is the last replay record up to the size it knew.  *)
(* Decided: from the decision to the write the lock is held and the file   *)
(* has exactly the lines seen at the stat, so the record is still the last.*)
(* Both hold only under the lock; without it no delta is ever decided.     *)
(*                                                                         *)
(* Such a file is read to its end, also when it is cut off in its last     *)
(* line: a reader always knows the last replay record (UpTo).  With flock  *)
(* the file implements ReplayLog: a base that is still good is what a      *)
(* reader finds (Held), and the line that was decided makes the request    *)
(* what a reader finds (Planned).  Scan is a function on the number of     *)
(* lines; what is shown of it is shown of the least number of lines it     *)
(* could fail for (LeastOf).                                               *)
(*                                                                         *)
(* What is read is a history that was saved (Known), and repairToolCalls   *)
(* makes it one that a provider accepts.  Its passes are functions on the  *)
(* number of messages: the first keeps, of what it has so far, that calls  *)
(* are whole and results are of the batch they are behind (CleanAs); the   *)
(* second, that every batch but the last has all its results, and which    *)
(* ones the last has (FillAs).                                             *)
(*                                                                         *)
(* The history an engine keeps is the other half of SessionMC.  Its        *)
(* promises are not inductive: HistoryInv adds that a run works from the   *)
(* history there is and saves what it made of it (Running), that Compact's *)
(* copy is that history and no run works meanwhile (Copied), both because  *)
(* the host edits between prompts only (Turnwise), that files of later     *)
(* sessions are empty and nothing in a file is marked as injected (Files), *)
(* and that, until something is compacted or resumed, the users' messages  *)
(* that Rewind looks for are the prompts (Plain).                          *)
(***************************************************************************)
EXTENDS SessionMC, SequenceTheorems, WellFoundedInduction, TLAPS

Lines == [type : {"full", "delta", "turn", "torn"}, msgs : Seq(Messages), base : Nat]

TypeOK ==
  /\ file \in Seq(Lines) /\ open \in BOOLEAN
  /\ flock \in Writers \cup {None}
  /\ wpc \in [Writers -> {"idle", "open", "repair", "write"}]
  /\ req \in [Writers -> Requests \cup {None}]
  /\ rec \in [Writers -> Lines]
  /\ seen \in [Writers -> Nat]
  /\ old \in [Writers -> Seq(Messages)]
  /\ snap \in [Writers -> Seq(Messages)]
  /\ off \in [Writers -> Nat]
  /\ ckpt \in [Writers -> Nat]
  /\ end \in [Writers -> (Nat \X BOOLEAN) \cup {None}]
  /\ \A w \in Writers : wpc[w] # "idle" => req[w] \in Requests

\* b is the last replay record among the first n lines.
Latest(b, n) ==
  /\ b \in 1..n /\ ReplayLine(file[b])
  /\ \A j \in b + 1..n : ~ReplayLine(file[j])

Remembers ==
  \A w \in Writers : Locking /\ snap[w] # <<>> =>
    /\ end[w] # None /\ end[w][1] <= Len(file)
    /\ Latest(off[w], end[w][1])

Busy(w) == wpc[w] \in {"repair", "write"}

Decided ==
  \A w \in Writers : Busy(w) =>
    /\ Locking => /\ flock = w /\ seen[w] = Len(file)
                  /\ wpc[w] = "write" => open = FALSE
    /\ rec[w].type = "delta" => Locking /\ Latest(rec[w].base, Len(file))
    /\ old[w] # <<>> => Locking /\ Latest(off[w], Len(file))
    /\ snap[w] = <<>>
    /\ ReplayLine(rec[w]) <=> req[w].kind = "snapshot"

Unlocked == ~Locking => \A i \in DOMAIN file : file[i].type # "delta"

IInv == TypeOK /\ Remembers /\ Decided /\ Unlocked /\ BasesMatch

-----------------------------------------------------------------------------
(* The file.                                                               *)

\* A line lands at the end of a file whose last line is whole.
LEMMA LandWhole ==
  ASSUME TypeOK, open = FALSE, NEW line \in Lines
  PROVE  /\ Land(line) \in Seq(Lines)
         /\ Len(Land(line)) = Len(file) + 1
         /\ \A i \in 1..Len(file) : Land(line)[i] = file[i]
         /\ Land(line)[Len(file) + 1] = line
<1>1. file \in Seq(Lines)
  BY DEF TypeOK
<1>2. Land(line) = Append(file, line)
  BY DEF Land
<1>. QED
  BY <1>1, <1>2

\* Behind an unfinished line it may only spoil it.
LEMMA LandTorn ==
  ASSUME TypeOK, open = TRUE, NEW line \in Lines
  PROVE  /\ Land(line) \in Seq(Lines)
         /\ \A i \in DOMAIN Land(line) : Land(line)[i].type = "delta" => 
              i \in DOMAIN file /\ file[i].type = "delta"
<1>1. Torn \in Lines
  BY EmptySeq DEF Torn, Lines
<1>2. file \in Seq(Lines)
  BY DEF TypeOK
<1>3. Land(line) = [file EXCEPT ![Len(file)] = Torn]
  BY DEF Land
<1>4. CASE file = <<>>
  <2>1. Len(file) = 0 /\ DOMAIN file = {}
    BY <1>4
  <2>2. file \in [1..0 -> Lines]
    BY <1>2, <2>1, LenProperties
  <2>3. [file EXCEPT ![Len(file)] = Torn] = file
    BY <2>1, <2>2
  <2>. QED
    BY <1>2, <1>3, <2>3
<1>5. CASE file # <<>>
  <2>1. Len(file) \in 1..Len(file)
    BY <1>2, <1>5, EmptySeq
  <2>2. /\ Land(line) \in Seq(Lines) /\ Len(Land(line)) = Len(file)
        /\ \A j \in 1..Len(file) :
             Land(line)[j] = IF j = Len(file) THEN Torn ELSE file[j]
    BY <1>1, <1>2, <1>3, <2>1, ExceptSeq
  <2>3. DOMAIN Land(line) = 1..Len(file) /\ DOMAIN file = 1..Len(file)
    BY <1>2, <2>2, LenProperties
  <2>4. Torn.type # "delta"
    BY DEF Torn
  <2>. QED
    BY <2>2, <2>3, <2>4
<1>. QED
  BY <1>4, <1>5

\* The line an append decides to write; it is a delta only on its base.
LEMMA LineChosen ==
  ASSUME TypeOK, NEW w \in Writers, req[w] \in Requests
  PROVE  /\ Line(w) \in Lines
         /\ Line(w).type = "delta" => Base(w) # <<>> /\ Line(w).base = off[w]
         /\ ReplayLine(Line(w)) <=> req[w].kind = "snapshot"
<1>1. snap[w] \in Seq(Messages) /\ off[w] \in Nat
  BY DEF TypeOK
<1>2. Base(w) \in Seq(Messages)
  BY <1>1, EmptySeq DEF Base
<1>3. CASE req[w].kind = "turn"
  <2>1. PICK t \in Turns : req[w].msgs = <<t>>
    BY <1>3 DEF Requests
  <2>2. <<t>> \in Seq(Messages)
    BY TurnsAssumption
  <2>3. Line(w) = Turn(req[w].msgs)
    BY <1>3 DEF Line
  <2>. QED
    BY <1>3, <2>1, <2>2, <2>3 DEF Turn, Lines, ReplayLine
<1>4. CASE req[w].kind = "snapshot"
  <2>1. req[w].msgs \in Seq(Messages)
    BY <1>4, HistoriesAssumption DEF Requests
  <2>2. CASE Grew(w, req[w].msgs)
    <3>1. Line(w) = Delta(SubSeq(req[w].msgs, Len(Base(w)) + 1, Len(req[w].msgs)), off[w])
      BY <1>4, <2>2 DEF Line
    <3>2. Len(Base(w)) + 1 \in Int /\ 1 <= Len(Base(w)) + 1 /\ Len(req[w].msgs) \in Int
      BY <1>2, <2>1, LenProperties
    <3>3. \A i \in Len(Base(w)) + 1..Len(req[w].msgs) : req[w].msgs[i] \in Messages
      BY <2>1, <3>2, ElementOfSeq
    <3>4. SubSeq(req[w].msgs, Len(Base(w)) + 1, Len(req[w].msgs)) \in Seq(Messages)
      BY <3>2, <3>3, SubSeqProperties
    <3>. QED
      BY <1>1, <1>4, <2>2, <3>1, <3>4 DEF Delta, Lines, Grew, ReplayLine
  <2>3. CASE ~Grew(w, req[w].msgs)
    <3>1. Line(w) = Full(req[w].msgs)
      BY <1>4, <2>3 DEF Line
    <3>. QED
      BY <1>4, <2>1, <3>1 DEF Full, Lines, ReplayLine
  <2>. QED
    BY <2>2, <2>3
<1>. QED
  BY <1>3, <1>4 DEF Requests

\* A record that was the last one among some lines stays it when lines follow.
LEMMA LatestStays ==
  ASSUME TypeOK, NEW b, NEW n \in Nat, n <= Len(file), Latest(b, n),
         \A i \in 1..Len(file) : file'[i] = file[i]
  PROVE  Latest(b, n)'
<1>1. Len(file) \in Nat
  BY LenProperties DEF TypeOK
<1>2. b \in 1..n /\ \A j \in b + 1..n : j \in 1..Len(file)
  BY <1>1 DEF Latest
<1>. QED
  BY <1>1, <1>2 DEF Latest, ReplayLine

-----------------------------------------------------------------------------
(* One step.                                                               *)

\* A step keeps every value in its set.
LEMMA TypeStep ==
  ASSUME TypeOK, [Next]_vars
  PROVE  TypeOK'
<1> USE DEF TypeOK
<1>0. Torn \in Lines /\ <<>> \in Seq(Messages)
  BY EmptySeq DEF Torn, Lines
<1>1. ASSUME NEW w \in Writers, NEW r \in Requests, Request(w, r) PROVE TypeOK'
  BY <1>1 DEF Request, store
<1>2. ASSUME NEW w \in Writers, Decide(w) PROVE TypeOK'
  <2>1. req[w] \in Requests
    BY <1>2 DEF Decide
  <2>2. Line(w) \in Lines
    BY <2>1, LineChosen
  <2>3. Base(w) \in Seq(Messages)
    BY <1>0 DEF Base
  <2>4. Len(file) \in Nat
    BY LenProperties
  <2>5. CASE Unchanged(w)
    <3>1. /\ Done(w, "ok") /\ snap' = snap
          /\ UNCHANGED <<file, open, off, ckpt, end>>
      BY <1>2, <2>5 DEF Decide
    <3>. QED
      BY <1>0, <3>1 DEF Done
  <2>6. CASE ~Unchanged(w)
    BY ZenonT(60), <1>0, <1>2, <2>1, <2>2, <2>3, <2>4, <2>6 DEF Decide
  <2>. QED
    BY <2>5, <2>6
<1>3. ASSUME NEW w \in Writers, RepairTail(w) PROVE TypeOK'
  BY <1>3 DEF RepairTail, store
<1>4. ASSUME NEW w \in Writers, Write(w) PROVE TypeOK'
  <2>1. req[w] \in Requests /\ rec[w] \in Lines /\ old[w] \in Seq(Messages)
    BY <1>4 DEF Write
  <2>2. Land(rec[w]) \in Seq(Lines)
    BY <2>1, LandWhole, LandTorn
  <2>3. file' \in Seq(Lines) /\ open' \in BOOLEAN
    BY <1>4, <2>2 DEF Write
  <2>4. /\ flock' \in Writers \cup {None}
        /\ wpc' \in [Writers -> {"idle", "open", "repair", "write"}]
        /\ req' \in [Writers -> Requests \cup {None}]
        /\ rec' \in [Writers -> Lines]
        /\ seen' \in [Writers -> Nat]
        /\ old' \in [Writers -> Seq(Messages)]
        /\ \A v \in Writers : wpc'[v] # "idle" => req'[v] \in Requests
    BY <1>0, <1>4 DEF Write, Done
  <2>5. end' \in [Writers -> (Nat \X BOOLEAN) \cup {None}]
    <3>1. end' = [end EXCEPT ![w] = <<seen[w] + 1, FALSE>>]
      BY <1>4 DEF Write
    <3>2. seen[w] + 1 \in Nat
      OBVIOUS
    <3>. QED
      BY <3>1, <3>2
  <2>6. CASE req[w].kind = "snapshot"
    <3>1. req[w].msgs \in Seq(Messages) /\ Len(req[w].msgs) \in Nat
      BY <2>1, <2>6, HistoriesAssumption, LenProperties DEF Requests
    <3>2. /\ snap' \in [Writers -> Seq(Messages)]
          /\ off' \in [Writers -> Nat]
          /\ ckpt' \in [Writers -> Nat]
      <4>1. /\ snap' = [snap EXCEPT ![w] = req[w].msgs]
            /\ off' = [off EXCEPT ![w] = seen[w] + 1]
            /\ ckpt' = [ckpt EXCEPT ![w] = Len(req[w].msgs)] \/ ckpt' = ckpt
        BY <1>4, <2>6 DEF Write
      <4>2. seen[w] + 1 \in Nat
        OBVIOUS
      <4>. QED
        BY <3>1, <4>1, <4>2
    <3>. QED
      BY <2>3, <2>4, <2>5, <3>2
  <2>7. CASE req[w].kind # "snapshot"
    <3>1. /\ snap' \in [Writers -> Seq(Messages)]
          /\ off' \in [Writers -> Nat]
          /\ ckpt' \in [Writers -> Nat]
      BY <1>4, <2>1, <2>7 DEF Write
    <3>. QED
      BY <2>3, <2>4, <2>5, <3>1
  <2>. QED
    BY <2>6, <2>7
<1>5. ASSUME NEW w \in Writers, Fail(w) PROVE TypeOK'
  <2>1. rec[w] \in Lines
    OBVIOUS
  <2>2. file' \in Seq(Lines) /\ open' \in BOOLEAN
    BY <1>0, <1>5, <2>1, LandWhole, LandTorn DEF Fail
  <2>3. /\ flock' \in Writers \cup {None}
        /\ wpc' \in [Writers -> {"idle", "open", "repair", "write"}]
        /\ req' \in [Writers -> Requests \cup {None}]
        /\ rec' \in [Writers -> Lines]
        /\ seen' \in [Writers -> Nat]
        /\ old' \in [Writers -> Seq(Messages)]
        /\ \A v \in Writers : wpc'[v] # "idle" => req'[v] \in Requests
    BY <1>0, <1>5 DEF Fail, Done
  <2>. QED
    BY <1>5, <2>2, <2>3 DEF Fail, store
<1>6. ASSUME NEW w \in Writers, Restart(w) PROVE TypeOK'
  BY <1>0, <1>6 DEF Restart, call
<1>7. CASE UNCHANGED vars
  BY <1>7 DEF vars, store, call
<1>. QED
  BY <1>1, <1>2, <1>3, <1>4, <1>5, <1>6, <1>7 DEF Next

\* What a step of w is, and what it leaves alone of another writer.
Act(w) ==
  \/ \E r \in Requests : Request(w, r)
  \/ Decide(w) \/ RepairTail(w) \/ Write(w) \/ Fail(w) \/ Restart(w)

Same(v) ==
  /\ wpc'[v] = wpc[v] /\ rec'[v] = rec[v] /\ seen'[v] = seen[v] /\ old'[v] = old[v]
  /\ req'[v] = req[v] /\ snap'[v] = snap[v] /\ off'[v] = off[v] /\ end'[v] = end[v]

\* What one Store does leaves the others as they are.
LEMMA Others ==
  ASSUME TypeOK, NEW w \in Writers, NEW v \in Writers, v # w, Act(w)
  PROVE  Same(v)
<1> USE DEF TypeOK, Same
<1>1. CASE \E r \in Requests : Request(w, r)
  BY <1>1 DEF Request, store
<1>2. CASE Decide(w)
  BY <1>2 DEF Decide, Done
<1>3. CASE RepairTail(w)
  BY <1>3 DEF RepairTail, store
<1>4. CASE Write(w)
  BY <1>4 DEF Write, Done
<1>5. CASE Fail(w)
  BY <1>5 DEF Fail, Done, store
<1>6. CASE Restart(w)
  BY <1>6 DEF Restart, call
<1>. QED
  BY <1>1, <1>2, <1>3, <1>4, <1>5, <1>6 DEF Act

\* While one writer is between its decision and its write, the lock keeps the
\* others from the file.
LEMMA Excluded ==
  ASSUME TypeOK, Decided, Locking, NEW w \in Writers, NEW v \in Writers, v # w,
         Busy(v), Act(w)
  PROVE  UNCHANGED <<file, open, flock>>
<1>1. flock = v
  BY DEF Decided
<1>2. flock # w /\ flock # None
  BY <1>1, NoneAssumption
<1>3. ~Busy(w)
  BY <1>2 DEF Decided
<1>4. ~RepairTail(w) /\ ~Write(w) /\ ~Decide(w)
  BY <1>2, <1>3 DEF RepairTail, Write, Decide, Busy
<1>5. CASE Fail(w)
  BY <1>2, <1>3, <1>5 DEF Fail, Done, Busy
<1>. QED
  BY <1>4, <1>5 DEF Act, Request, Restart, call

\* Under the lock a step appends at most one line, a delta only on the last
\* replay record.
LEMMA FileStep ==
  ASSUME TypeOK, Decided, Locking, NEW w \in Writers, Act(w)
  PROVE  \/ file' = file
         \/ /\ Len(file') = Len(file) + 1
            /\ \A i \in 1..Len(file) : file'[i] = file[i]
            /\ file'[Len(file) + 1].type = "delta" =>
                 Latest(file'[Len(file) + 1].base, Len(file))
<1>1. CASE wpc[w] = "write" /\ file' \in {Land(Torn), Land(rec[w])}
  <2>1. Torn \in Lines /\ Torn.type # "delta"
    BY EmptySeq DEF Torn, Lines
  <2>2. rec[w] \in Lines
    BY DEF TypeOK
  <2>3. open = FALSE
    BY <1>1 DEF Decided, Busy
  <2>4. rec[w].type = "delta" => Latest(rec[w].base, Len(file))
    BY <1>1 DEF Decided, Busy
  <2>5. CASE file' = Land(Torn)
    BY <2>1, <2>3, <2>5, LandWhole
  <2>6. CASE file' = Land(rec[w])
    BY <2>2, <2>3, <2>4, <2>6, LandWhole
  <2>. QED
    BY <1>1, <2>5, <2>6
<1>2. CASE ~(wpc[w] = "write" /\ file' \in {Land(Torn), Land(rec[w])})
  BY <1>2 DEF Act, Request, Decide, RepairTail, Write, Fail, Restart
<1>. QED
  BY <1>1, <1>2

\* Without the lock no delta is written.
LEMMA UnlockedStep ==
  ASSUME TypeOK, Decided, Unlocked, NEW w \in Writers, Act(w)
  PROVE  Unlocked'
<1> SUFFICES ASSUME ~Locking PROVE \A i \in DOMAIN file' : file'[i].type # "delta"
  BY DEF Unlocked
<1>1. \A i \in DOMAIN file : file[i].type # "delta"
  BY DEF Unlocked
<1>2. CASE wpc[w] = "write" /\ file' \in {Land(Torn), Land(rec[w])}
  <2>1. PICK line \in Lines : file' = Land(line) /\ line.type # "delta"
    <3>1. Torn \in Lines /\ Torn.type # "delta"
      BY EmptySeq DEF Torn, Lines
    <3>2. rec[w] \in Lines /\ rec[w].type # "delta"
      BY <1>2 DEF TypeOK, Decided, Busy
    <3>. QED
      BY <1>2, <3>1, <3>2
  <2>2. CASE open = FALSE
    <3>1. DOMAIN file = 1..Len(file) /\ Len(file) \in Nat
      BY LenProperties DEF TypeOK
    <3>2. DOMAIN Land(line) = 1..Len(file) + 1
      BY <2>2, LandWhole, LenProperties
    <3>3. \A i \in 1..Len(file) : Land(line)[i] = file[i]
      BY <2>2, LandWhole
    <3>4. Land(line)[Len(file) + 1] = line
      BY <2>2, LandWhole
    <3>. QED
      BY <1>1, <2>1, <3>1, <3>2, <3>3, <3>4
  <2>3. CASE open = TRUE
    BY <1>1, <2>1, <2>3, LandTorn
  <2>. QED
    BY <2>2, <2>3 DEF TypeOK
<1>3. CASE ~(wpc[w] = "write" /\ file' \in {Land(Torn), Land(rec[w])})
  <2>1. file' = file
    BY <1>3 DEF Act, Request, Decide, RepairTail, Write, Fail, Restart
  <2>. QED
    BY <1>1, <2>1
<1>. QED
  BY <1>2, <1>3

\* A line that is written names the right base.
LEMMA BasesStep ==
  ASSUME TypeOK, TypeOK', Decided, Unlocked', BasesMatch, NEW w \in Writers, Act(w)
  PROVE  BasesMatch'
<1>1. CASE ~Locking
  BY <1>1 DEF Unlocked, BasesMatch
<1>2. CASE Locking
  <2>1. DOMAIN file = 1..Len(file) /\ Len(file) \in Nat /\ DOMAIN file' = 1..Len(file')
    BY LenProperties DEF TypeOK
  <2>2. CASE file' = file
    BY <2>2 DEF BasesMatch, ReplayLine
  <2>3. CASE file' # file
    <3>1. /\ Len(file') = Len(file) + 1
          /\ \A i \in 1..Len(file) : file'[i] = file[i]
          /\ file'[Len(file) + 1].type = "delta" =>
               Latest(file'[Len(file) + 1].base, Len(file))
      BY <1>2, <2>3, FileStep
    <3>2. ASSUME NEW i \in 1..Len(file) + 1, file'[i].type = "delta"
          PROVE  /\ file'[i].base \in 1..i - 1
                 /\ ReplayLine(file'[file'[i].base])
                 /\ \A j \in file'[i].base + 1..i - 1 : ~ReplayLine(file'[j])
      <4>1. CASE i = Len(file) + 1
        <5>1. Latest(file'[i].base, i - 1)
          BY <2>1, <3>1, <3>2, <4>1
        <5>2. i - 1 = Len(file)
          BY <2>1, <4>1
        <5>3. \A j \in 1..i - 1 : file'[j] = file[j]
          BY <3>1, <5>2
        <5>. QED
          BY <2>1, <5>1, <5>2, <5>3 DEF Latest
      <4>2. CASE i # Len(file) + 1
        <5>1. i \in 1..Len(file) /\ file'[i] = file[i]
          BY <2>1, <3>1, <4>2
        <5>2. /\ file[i].base \in 1..i - 1
              /\ ReplayLine(file[file[i].base])
              /\ \A j \in file[i].base + 1..i - 1 : ~ReplayLine(file[j])
          BY <2>1, <3>2, <5>1 DEF BasesMatch
        <5>3. \A j \in 1..i - 1 : file'[j] = file[j]
          BY <2>1, <3>1, <5>1
        <5>. QED
          BY <5>1, <5>2, <5>3
      <4>. QED
        BY <4>1, <4>2
    <3>. QED
      BY <2>1, <3>1, <3>2 DEF BasesMatch, ReplayLine
  <2>. QED
    BY <2>2, <2>3
<1>. QED
  BY <1>1, <1>2

\* What a Store remembers of the file stays true as others append.
LEMMA RemembersStep ==
  ASSUME TypeOK, Remembers, Decided, NEW w \in Writers, Act(w)
  PROVE  Remembers'
<1> SUFFICES ASSUME Locking, NEW v \in Writers, snap'[v] # <<>>
             PROVE  /\ end'[v] # None /\ end'[v][1] <= Len(file')
                    /\ Latest(off[v], end[v][1])'
  BY DEF Remembers
<1>1. Len(file) \in Nat
  BY LenProperties DEF TypeOK
<1>2. /\ \A i \in 1..Len(file) : file'[i] = file[i]
      /\ Len(file') \in {Len(file), Len(file) + 1}
  BY FileStep
<1>3. ASSUME snap'[v] = snap[v], off'[v] = off[v], end'[v] = end[v]
      PROVE  /\ end'[v] # None /\ end'[v][1] <= Len(file')
             /\ Latest(off[v], end[v][1])'
  <2>1. end[v] # None /\ end[v][1] <= Len(file) /\ Latest(off[v], end[v][1])
    BY <1>3 DEF Remembers
  <2>2. end[v][1] \in Nat
    BY <2>1 DEF TypeOK
  <2>3. Latest(off[v], end[v][1])'
    <3>1. \A i \in 1..Len(file) : file'[i] = file[i]
      BY <1>2
    <3>2. \A b : Latest(b, end[v][1]) => Latest(b, end[v][1])
      OBVIOUS
    <3>3. off[v] \in 1..end[v][1] /\ \A j \in off[v] + 1..end[v][1] : j \in 1..Len(file)
      BY <1>1, <2>1, <2>2 DEF Latest
    <3>4. off[v] \in 1..Len(file)
      BY <1>1, <2>1, <2>2, <3>3
    <3>. QED
      BY <1>3, <2>1, <3>1, <3>3, <3>4 DEF Latest, ReplayLine
  <2>. QED
    BY <1>1, <1>2, <1>3, <2>1, <2>2, <2>3
<1>4. CASE v # w
  BY <1>3, <1>4, Others DEF Same
<1>5. CASE v = w
  <2>1. CASE Write(w)
    <3>1. Busy(w) /\ seen[w] = Len(file) /\ open = FALSE
      BY <2>1 DEF Write, Busy, Decided
    <3>2. rec[w] \in Lines /\ file' = Land(rec[w])
      BY <2>1 DEF TypeOK, Write
    <3>3. Len(file') = Len(file) + 1 /\ file'[Len(file) + 1] = rec[w]
      BY <3>1, <3>2, LandWhole
    <3>4. end'[w] = <<Len(file) + 1, FALSE>>
      BY <2>1, <3>1 DEF Write, TypeOK
    <3>5. end'[w] # None /\ end'[w][1] = Len(file) + 1
      <4>1. Len(file) + 1 \in Nat
        BY <1>1
      <4>2. <<Len(file) + 1, FALSE>> \in Nat \X BOOLEAN
        BY <4>1
      <4>3. <<Len(file) + 1, FALSE>> # None
        BY <4>2, NoneAssumption
      <4>4. end'[w] # None
        BY <3>4, <4>3
      <4>5. end'[w][1] = Len(file) + 1
        BY <3>4
      <4>. QED
        BY <4>4, <4>5
    <3>6. CASE req[w].kind = "snapshot"
      <4>1. off'[w] = Len(file) + 1
        BY <2>1, <3>1, <3>6 DEF Write, TypeOK
      <4>2. ReplayLine(rec[w])
        BY <3>1, <3>6 DEF Decided
      <4>. QED
        BY <1>1, <1>5, <3>3, <3>5, <4>1, <4>2 DEF Latest, ReplayLine
    <3>7. CASE req[w].kind # "snapshot"
      <4>1. off'[w] = off[w] /\ snap'[w] = old[w]
        BY <2>1, <3>7 DEF Write, TypeOK
      <4>2. Latest(off[w], Len(file)) /\ ~ReplayLine(rec[w])
        BY <1>5, <3>1, <3>7, <4>1 DEF Decided
      <4>3. off[w] \in 1..Len(file) /\ ReplayLine(file'[off[w]])
        BY <1>2, <4>2 DEF Latest, ReplayLine
      <4>4. \A j \in off[w] + 1..Len(file) + 1 : ~ReplayLine(file'[j])
        BY <1>1, <1>2, <3>3, <4>2, <4>3 DEF Latest, ReplayLine
      <4>. QED
        BY <1>1, <1>5, <3>3, <3>5, <4>1, <4>3, <4>4 DEF Latest, ReplayLine
    <3>. QED
      BY <3>6, <3>7
  <2>2. CASE Decide(w)
    <3>1. snap'[w] = snap[w]
      BY <1>5, <2>2 DEF Decide, TypeOK
    <3>. QED
      BY <1>3, <1>5, <2>2, <3>1 DEF Decide
  <2>3. CASE Restart(w)
    BY <1>5, <2>3 DEF Restart, TypeOK
  <2>4. CASE ~Write(w) /\ ~Decide(w) /\ ~Restart(w)
    <3>1. UNCHANGED store
      BY <2>4 DEF Act, Request, RepairTail, Fail
    <3>. QED
      BY <1>3, <1>5, <3>1 DEF store
  <2>. QED
    BY <2>1, <2>2, <2>3, <2>4
<1>. QED
  BY <1>4, <1>5

\* What a writer's base is good for when it decides.
LEMMA BaseLatest ==
  ASSUME TypeOK, Remembers, NEW w \in Writers, Base(w) # <<>>
  PROVE  Locking /\ Latest(off[w], Len(file))
<1>1. Locking /\ end[w] = Size /\ snap[w] # <<>>
  BY DEF Base
<1>2. end[w][1] = Len(file)
  BY <1>1 DEF Size
<1>. QED
  BY <1>1, <1>2 DEF Remembers

\* What a Store has decided fits the file until it writes.
LEMMA DecidedStep ==
  ASSUME TypeOK, Remembers, Decided, NEW w \in Writers, Act(w)
  PROVE  Decided'
<1> SUFFICES ASSUME NEW v \in Writers, Busy(v)'
             PROVE  /\ Locking => /\ flock' = v /\ seen'[v] = Len(file')
                                  /\ wpc'[v] = "write" => open' = FALSE
                    /\ rec'[v].type = "delta" => Locking /\ Latest(rec[v].base, Len(file))'
                    /\ old'[v] # <<>> => Locking /\ Latest(off[v], Len(file))'
                    /\ snap'[v] = <<>>
                    /\ ReplayLine(rec'[v]) <=> req'[v].kind = "snapshot"
  BY DEF Decided, ReplayLine
<1>1. CASE v # w
  <2>1. Same(v)
    BY <1>1, Others
  <2>2. Busy(v)
    BY <2>1 DEF Same, Busy
  <2>3. Locking => UNCHANGED <<file, open, flock>>
    BY <1>1, <2>2, Excluded
  <2>4. CASE Locking
    BY <2>1, <2>2, <2>3, <2>4 DEF Same, Decided, Latest, ReplayLine
  <2>5. CASE ~Locking
    BY <2>1, <2>2, <2>5 DEF Same, Decided
  <2>. QED
    BY <2>4, <2>5
<1>2. CASE v = w
  <2>1. CASE Decide(w)
    <3>1. ~Unchanged(w) /\ req[w] \in Requests
      BY <1>2, <2>1 DEF Decide, Done, Busy, TypeOK
    <3>2. /\ Locking => flock' = w
          /\ rec'[w] = Line(w) /\ seen'[w] = Len(file) /\ old'[w] = Base(w)
          /\ snap'[w] = <<>> /\ wpc'[w] = (IF open THEN "repair" ELSE "write")
          /\ UNCHANGED <<file, open, off, req>>
      BY <2>1, <3>1 DEF Decide, TypeOK
    <3>3. /\ Line(w).type = "delta" => Base(w) # <<>> /\ Line(w).base = off[w]
          /\ ReplayLine(Line(w)) <=> req[w].kind = "snapshot"
      BY <3>1, LineChosen
    <3>4. Base(w) # <<>> => Locking /\ Latest(off[w], Len(file))
      BY BaseLatest
    <3>5. open \in BOOLEAN
      BY DEF TypeOK
    <3>. QED
      BY <1>2, <3>2, <3>3, <3>4, <3>5 DEF Latest, ReplayLine
  <2>2. CASE RepairTail(w)
    <3>1. Busy(w) /\ open' = FALSE
      BY <2>2 DEF RepairTail, Busy
    <3>2. UNCHANGED <<file, flock, snap, off, rec, seen, old, req>>
      BY <2>2 DEF RepairTail, store
    <3>. QED
      BY <1>2, <3>1, <3>2 DEF Decided, Latest, ReplayLine
  <2>3. CASE ~Decide(w) /\ ~RepairTail(w)
    <3>1. wpc'[w] \in {"open", "idle"}
      BY <2>3 DEF Act, Request, Write, Fail, Restart, Done, TypeOK, call
    <3>. QED
      BY <1>2, <3>1 DEF Busy
  <2>. QED
    BY <2>1, <2>2, <2>3
<1>. QED
  BY <1>1, <1>2

-----------------------------------------------------------------------------

\* IInv is an inductive invariant.
THEOREM Inductive == Spec => []IInv
<1>1. Init => IInv
  <2> SUFFICES ASSUME Init PROVE IInv
    OBVIOUS
  <2>1. TypeOK
    <3>1. Torn \in Lines /\ <<>> \in Seq(Lines) /\ <<>> \in Seq(Messages)
      BY EmptySeq DEF Torn, Lines
    <3>. QED
      BY <3>1 DEF Init, TypeOK
  <2>2. Remembers /\ Decided
    BY DEF Init, Remembers, Decided, Busy
  <2>3. Unlocked /\ BasesMatch
    BY DEF Init, Unlocked, BasesMatch
  <2>. QED
    BY <2>1, <2>2, <2>3 DEF IInv
<1>2. IInv /\ [Next]_vars => IInv'
  <2> SUFFICES ASSUME IInv, [Next]_vars PROVE IInv'
    OBVIOUS
  <2> USE DEF IInv
  <2>1. TypeOK'
    BY TypeStep
  <2>2. CASE Next
    <3>1. PICK w \in Writers : Act(w)
      BY <2>2 DEF Next, Act
    <3>2. Remembers' /\ Decided' /\ Unlocked'
      BY <3>1, RemembersStep, DecidedStep, UnlockedStep
    <3>. QED
      BY <2>1, <3>1, <3>2, BasesStep
  <2>3. CASE UNCHANGED vars
    BY <2>1, <2>3 DEF vars, store, call, Remembers, Decided, Unlocked, BasesMatch,
       Latest, ReplayLine, Busy
  <2>. QED
    BY <2>2, <2>3
<1>. QED
  BY <1>1, <1>2, PTL DEF Spec

\* BasesMatch (append in session.go): in every reachable state of any number of
\* processes, whatever failed, every delta names the replay record before it.
THEOREM BasesAlwaysMatch == Spec => []BasesMatch
<1>1. IInv => BasesMatch
  BY DEF IInv
<1>. QED
  BY <1>1, Inductive, PTL

-----------------------------------------------------------------------------
(* LoadMessages reads a file line by line.                                 *)

\* Every set of numbers has a least one.
LEMMA LeastOf ==
  ASSUME NEW T \in SUBSET Nat, T # {} PROVE \E n \in T : \A m \in T : n <= m
<1> DEFINE R == OpToRel(<, Nat)
<1>1. IsWellFoundedOn(R, Nat)
  BY NatLessThanWellFounded
<1>2. \A a, b \in Nat : a < b => <<a, b>> \in R
  BY DEF OpToRel
<1> HIDE DEF R
<1>3. PICK n \in T : \A m \in T : ~(<<m, n>> \in R)
  BY <1>1, WFMin
<1>4. \A m \in T : m \in Nat /\ n \in Nat /\ ~(m < n)
  BY <1>2, <1>3
<1>. QED
  BY <1>3, <1>4

Start == [ok |-> TRUE, snap |-> <<>>, off |-> 0, turns |-> <<>>]

\* r is what has been read after each of the first k lines of f.
Reads(f, r, k) == r = [i \in 0..k |-> IF i = 0 THEN Start ELSE Visit(r[i - 1], f[i], i)]

\* A reading exists: else there were a least line it could not get to.
LEMMA ReadsExist == ASSUME NEW f, NEW k \in Nat PROVE \E r : Reads(f, r, k)
<1> DEFINE T == {n \in Nat : ~\E r : Reads(f, r, n)}
<1>1. SUFFICES ASSUME T # {} PROVE FALSE
  OBVIOUS
<1>2. PICK n \in T : \A m \in T : n <= m
  BY <1>1, LeastOf
<1>3. n \in Nat /\ ~\E r : Reads(f, r, n)
  BY <1>2
<1>4. CASE n = 0
  <2>1. Reads(f, [j \in 0..0 |-> Start], 0)
    BY DEF Reads
  <2>. QED
    BY <1>3, <1>4, <2>1
<1>5. CASE n # 0
  <2>1. n - 1 \in Nat /\ n - 1 \notin T
    BY <1>2, <1>3, <1>5
  <2>2. PICK r : Reads(f, r, n - 1)
    BY <2>1
  <2> DEFINE g == [j \in 0..n |-> IF j = n THEN Visit(r[n - 1], f[n], n) ELSE r[j]]
  <2>3. \A j \in 0..n : g[j] = IF j = 0 THEN Start ELSE Visit(g[j - 1], f[j], j)
    <3>1. \A j \in 0..(n - 1) : r[j] = IF j = 0 THEN Start ELSE Visit(r[j - 1], f[j], j)
      BY <2>1, <2>2 DEF Reads
    <3>2. /\ \A j \in 0..n : j = n \/ j \in 0..(n - 1)
          /\ \A j \in 0..(n - 1) : j # 0 => j - 1 \in 0..(n - 1)
          /\ n - 1 \in 0..(n - 1)
      BY <1>3, <2>1
    <3>3. g[n] = Visit(r[n - 1], f[n], n) /\ \A j \in 0..(n - 1) : g[j] = r[j]
      BY <1>3, <2>1
    <3> HIDE DEF g
    <3>. QED
      BY <1>5, <3>1, <3>2, <3>3
  <2>4. g = [j \in 0..n |-> IF j = 0 THEN Start ELSE Visit(g[j - 1], f[j], j)]
    BY <2>3
  <2>5. Reads(f, g, n)
    BY <2>4 DEF Reads
  <2>. QED
    BY <1>3, <2>5
<1>. QED
  BY <1>4, <1>5

\* What a reading is, without the function it is written with.
LEMMA ScanReads ==
  ASSUME NEW f, Len(f) \in Nat
  PROVE  \E r : Reads(f, r, Len(f)) /\ Scan(f) = r[Len(f)]
<1> DEFINE r == CHOOSE a : Reads(f, a, Len(f))
<1>1. Reads(f, r, Len(f))
  BY ReadsExist
<1>2. Scan(f) = r[Len(f)]
  BY DEF Scan, Reads, Start
<1>. QED
  BY <1>1, <1>2

\* Files with the same first lines read the same so far.
LEMMA ReadsAgree ==
  ASSUME NEW f, NEW g, NEW r, NEW s, NEW k \in Nat, NEW m \in Nat, k <= m,
         Reads(f, r, k), Reads(g, s, m), \A i \in 1..k : f[i] = g[i]
  PROVE  \A i \in 0..k : r[i] = s[i]
<1> DEFINE T == {i \in 0..k : r[i] # s[i]}
<1>1. \A i \in 0..k : r[i] = IF i = 0 THEN Start ELSE Visit(r[i - 1], f[i], i)
  BY DEF Reads
<1>2. \A i \in 0..m : s[i] = IF i = 0 THEN Start ELSE Visit(s[i - 1], g[i], i)
  BY DEF Reads
<1>3. SUFFICES ASSUME T # {} PROVE FALSE
  OBVIOUS
<1>4. T \in SUBSET Nat
  OBVIOUS
<1>5. PICK n \in T : \A i \in T : n <= i
  BY <1>3, <1>4, LeastOf
<1>6. n \in 0..k /\ n \in 0..m /\ n \in Nat /\ r[n] # s[n]
  BY <1>4, <1>5
<1>7. n # 0
  BY <1>1, <1>2, <1>6
<1>8. n - 1 \in 0..k /\ n - 1 \notin T /\ n \in 1..k
  BY <1>5, <1>6, <1>7
<1>9. r[n - 1] = s[n - 1] /\ f[n] = g[n]
  BY <1>8
<1>. QED
  BY <1>1, <1>2, <1>6, <1>7, <1>9

\* An empty file has nothing to read, a longer one is read up to its last line.
LEMMA ScanEmpty == Scan(<<>>) = Start
<1>1. Len(<<>>) = 0
  OBVIOUS
<1>2. PICK r : Reads(<<>>, r, 0) /\ Scan(<<>>) = r[0]
  BY <1>1, ScanReads
<1>. QED
  BY <1>2 DEF Reads

\* A line that is appended is read after all the others.
LEMMA ScanAppend ==
  ASSUME NEW f, NEW g, Len(f) \in Nat, Len(g) = Len(f) + 1, \A i \in 1..Len(f) : g[i] = f[i]
  PROVE  Scan(g) = Visit(Scan(f), g[Len(g)], Len(g))
<1> DEFINE k == Len(f)
<1>1. Len(g) \in Nat
  OBVIOUS
<1>2. PICK r : Reads(f, r, k) /\ Scan(f) = r[k]
  BY ScanReads
<1>3. PICK s : Reads(g, s, k + 1) /\ Scan(g) = s[k + 1]
  BY <1>1, ScanReads
<1>4. r[k] = s[k]
  <2>1. \A i \in 0..k : r[i] = s[i]
    <3>1. k \in Nat /\ k + 1 \in Nat /\ k <= k + 1 /\ \A i \in 1..k : f[i] = g[i]
      OBVIOUS
    <3> HIDE DEF k
    <3>. QED
      BY <1>2, <1>3, <3>1, ReadsAgree
  <2>. QED
    BY <2>1
<1>5. s[k + 1] = Visit(s[k], g[k + 1], k + 1)
  <2>1. \A i \in 0..(k + 1) : s[i] = IF i = 0 THEN Start ELSE Visit(s[i - 1], g[i], i)
    BY <1>3 DEF Reads
  <2>2. k + 1 \in 0..(k + 1) /\ k + 1 # 0 /\ (k + 1) - 1 = k
    OBVIOUS
  <2> HIDE DEF k
  <2>. QED
    BY <2>1, <2>2
<1>. QED
  BY <1>2, <1>3, <1>4, <1>5

-----------------------------------------------------------------------------
(* A file whose deltas name the record before them is not refused.         *)

Readings == [ok : BOOLEAN, snap : Seq(Messages), off : Nat, turns : Seq(Messages)]

Based(f) ==
  \A i \in DOMAIN f : f[i].type = "delta" =>
    /\ f[i].base \in 1..i - 1 /\ ReplayLine(f[f[i].base])
    /\ \A j \in f[i].base + 1..i - 1 : ~ReplayLine(f[j])

\* After n lines of f a reader has refused nothing and knows the last record.
UpTo(f, a, n) ==
  /\ a \in Readings /\ a.ok /\ a.off \in 0..n
  /\ a.off # 0 => ReplayLine(f[a.off])
  /\ \A j \in a.off + 1..n : ~ReplayLine(f[j])

\* What one line does to a reading.
Follows(a, line, i, b) ==
  /\ b \in Readings
  /\ line.type = "delta" /\ line.base = a.off =>
       b.ok = a.ok /\ b.snap = a.snap \o line.msgs /\ b.off = i /\ b.turns = a.turns
  /\ line.type = "full" =>
       b.ok = a.ok /\ b.snap = line.msgs /\ b.off = i /\ b.turns = a.turns
  /\ line.type = "turn" =>
       b.ok = a.ok /\ b.snap = a.snap /\ b.off = a.off /\ b.turns = a.turns \o line.msgs
  /\ line.type = "torn" => b = a

\* What a line does to what has been read, without the names of its parts.
LEMMA VisitIs ==
  ASSUME NEW a \in Readings, NEW line \in Lines, NEW i \in Nat, NEW b, b = Visit(a, line, i)
  PROVE  Follows(a, line, i, b)
<1>1. /\ a.ok \in BOOLEAN /\ a.snap \in Seq(Messages) /\ a.off \in Nat /\ a.turns \in Seq(Messages)
      /\ line.msgs \in Seq(Messages) /\ line.type \in {"full", "delta", "turn", "torn"}
  BY DEF Readings, Lines
<1> DEFINE m  == line.msgs
           sm == a.snap \o m
           tm == a.turns \o m
<1>2. sm \in Seq(Messages) /\ tm \in Seq(Messages)
  BY <1>1, ConcatProperties
<1>3. CASE line.type = "delta" /\ line.base = a.off
  <2>1. b = [a EXCEPT !.snap = sm, !.off = i]
    BY <1>3 DEF Visit
  <2> HIDE DEF sm
  <2>2. b \in Readings /\ b.ok = a.ok /\ b.snap = sm /\ b.off = i /\ b.turns = a.turns
    BY <1>2, <2>1 DEF Readings
  <2>. QED
    BY <1>3, <2>2 DEF Follows, sm
<1>4. CASE line.type = "delta" /\ line.base # a.off
  <2>1. b = [a EXCEPT !.ok = FALSE]
    BY <1>4 DEF Visit
  <2>2. b \in Readings
    BY <2>1 DEF Readings
  <2>. QED
    BY <1>4, <2>2 DEF Follows
<1>5. CASE line.type = "full"
  <2>1. b = [a EXCEPT !.snap = m, !.off = i]
    BY <1>5 DEF Visit
  <2>2. m \in Seq(Messages)
    BY <1>1
  <2> HIDE DEF m
  <2>3. b \in Readings /\ b.ok = a.ok /\ b.snap = m /\ b.off = i /\ b.turns = a.turns
    BY <2>1, <2>2 DEF Readings
  <2>. QED
    BY <1>5, <2>3 DEF Follows, m
<1>6. CASE line.type = "turn"
  <2>1. b = [a EXCEPT !.turns = tm]
    BY <1>6 DEF Visit
  <2> HIDE DEF tm
  <2>2. b \in Readings /\ b.ok = a.ok /\ b.snap = a.snap /\ b.off = a.off /\ b.turns = tm
    BY <1>2, <2>1 DEF Readings
  <2>. QED
    BY <1>6, <2>2 DEF Follows, tm
<1>7. CASE line.type = "torn"
  <2>1. b = a
    BY <1>7 DEF Visit
  <2>. QED
    BY <1>7, <2>1 DEF Follows
<1>. QED
  BY <1>1, <1>3, <1>4, <1>5, <1>6, <1>7

\* The next line of such a file.
LEMMA VisitUpTo ==
  ASSUME NEW f \in Seq(Lines), Based(f), NEW n \in 1..Len(f), NEW a, UpTo(f, a, n - 1)
  PROVE  UpTo(f, Visit(a, f[n], n), n)
<1>1. f[n] \in Lines /\ n \in DOMAIN f /\ n \in Nat /\ Len(f) \in Nat
  BY LenProperties, ElementOfSeq
<1>2. a \in Readings /\ a.off \in 0..(n - 1)
  BY DEF UpTo
<1>3. CASE f[n].type = "delta"
  <2>1. f[n].base \in 1..n - 1 /\ ReplayLine(f[f[n].base])
        /\ \A j \in f[n].base + 1..n - 1 : ~ReplayLine(f[j])
    BY <1>1, <1>3 DEF Based
  <2>2. f[n].base = a.off
    <3> DEFINE o == a.off
               d == f[n].base
    <3>1. o \in 0..(n - 1) /\ (o # 0 => ReplayLine(f[o])) /\ \A j \in o + 1..n - 1 : ~ReplayLine(f[j])
      BY DEF UpTo
    <3>2. d \in 1..n - 1 /\ ReplayLine(f[d]) /\ \A j \in d + 1..n - 1 : ~ReplayLine(f[j])
      BY <2>1
    <3> HIDE DEF o, d
    <3>3. ~(d < o) /\ ~(o < d)
      BY <1>1, <3>1, <3>2
    <3>4. d = o
      BY <1>1, <3>1, <3>2, <3>3
    <3>. QED
      BY <3>4 DEF o, d
  <2> DEFINE b == Visit(a, f[n], n)
  <2>0. Follows(a, f[n], n, b)
    BY <1>1, <1>2, VisitIs
  <2> HIDE DEF b
  <2>4. b \in Readings /\ b.off = n /\ b.ok = a.ok
    BY <1>3, <2>0, <2>2 DEF Follows
  <2>5. UpTo(f, b, n)
    BY <1>1, <1>3, <2>4 DEF UpTo, ReplayLine
  <2>. QED
    BY <2>5 DEF b
<1>4. CASE f[n].type = "full"
  <2> DEFINE b == Visit(a, f[n], n)
  <2>0. Follows(a, f[n], n, b)
    BY <1>1, <1>2, VisitIs
  <2> HIDE DEF b
  <2>2. b \in Readings /\ b.off = n /\ b.ok = a.ok
    BY <1>4, <2>0 DEF Follows
  <2>3. UpTo(f, b, n)
    BY <1>1, <1>4, <2>2 DEF UpTo, ReplayLine
  <2>. QED
    BY <2>3 DEF b
<1>5. CASE f[n].type \in {"turn", "torn"}
  <2> DEFINE b == Visit(a, f[n], n)
  <2>0. Follows(a, f[n], n, b)
    BY <1>1, <1>2, VisitIs
  <2> HIDE DEF b
  <2>2. b \in Readings /\ b.off = a.off /\ b.ok = a.ok
    BY <1>5, <2>0 DEF Follows
  <2>3. ~ReplayLine(f[n])
    BY <1>5 DEF ReplayLine
  <2>4. \A j \in a.off + 1..n : j = n \/ j \in a.off + 1..(n - 1)
    BY <1>1, <1>2
  <2>5. \A j \in a.off + 1..n : ~ReplayLine(f[j])
    BY <2>3, <2>4 DEF UpTo
  <2>6. a.off \in 0..n
    BY <1>1, <1>2
  <2>7. UpTo(f, b, n)
    BY <2>2, <2>5, <2>6 DEF UpTo
  <2>. QED
    BY <2>7 DEF b
<1>. QED
  BY <1>1, <1>3, <1>4, <1>5 DEF Lines

\* What a scan has read of a file is what the last record of the file says.
LEMMA ScanUpTo == ASSUME NEW f \in Seq(Lines), Based(f) PROVE UpTo(f, Scan(f), Len(f))
<1> DEFINE k == Len(f)
<1>1. k \in Nat
  BY LenProperties
<1>2. PICK r : Reads(f, r, k) /\ Scan(f) = r[k]
  BY <1>1, ScanReads
<1>3. \A i \in 0..k : r[i] = IF i = 0 THEN Start ELSE Visit(r[i - 1], f[i], i)
  BY <1>2 DEF Reads
<1> DEFINE T == {i \in 0..k : ~UpTo(f, r[i], i)}
<1>4. T = {}
  <2>1. SUFFICES ASSUME T # {} PROVE FALSE
    OBVIOUS
  <2> HIDE DEF k
  <2>2. T \in SUBSET Nat
    BY <1>1
  <2>3. PICK n \in T : \A i \in T : n <= i
    BY <2>1, <2>2, LeastOf
  <2>4. n \in 0..k /\ n \in Nat /\ ~UpTo(f, r[n], n)
    BY <2>2, <2>3
  <2>5. CASE n = 0
    <3>1. UpTo(f, Start, 0)
      BY EmptySeq DEF UpTo, Start, Readings
    <3>. QED
      BY <1>3, <2>4, <2>5, <3>1
  <2>6. CASE n # 0
    <3>1. n - 1 \in 0..k /\ n - 1 \notin T /\ n \in 1..k
      BY <1>1, <2>3, <2>4, <2>6
    <3>2. UpTo(f, r[n - 1], n - 1)
      BY <3>1
    <3>3. UpTo(f, Visit(r[n - 1], f[n], n), n)
      BY <3>1, <3>2, VisitUpTo DEF k
    <3>. QED
      BY <1>3, <2>4, <2>6, <3>3
  <2>. QED
    BY <2>5, <2>6
<1>. QED
  BY <1>1, <1>2, <1>4

\* Without its torn last line a file is as well based as with it.
LEMMA CutBased ==
  ASSUME NEW f \in Seq(Lines), Based(f) PROVE Cut(f) \in Seq(Lines) /\ Based(Cut(f))
<1>1. CASE f = <<>>
  BY <1>1 DEF Cut
<1>2. CASE f # <<>>
  <2>1. Torn \in Lines /\ Torn.type = "torn"
    BY EmptySeq DEF Torn, Lines
  <2>2. Len(f) \in 1..Len(f) /\ Len(f) \in Nat
    BY <1>2, EmptySeq, LenProperties
  <2>3. /\ Cut(f) \in Seq(Lines) /\ Len(Cut(f)) = Len(f)
        /\ \A j \in 1..Len(f) : Cut(f)[j] = IF j = Len(f) THEN Torn ELSE f[j]
    <3>1. Cut(f) = [f EXCEPT ![Len(f)] = Torn]
      BY <1>2 DEF Cut
    <3>. QED
      BY <2>1, <2>2, <3>1, ExceptSeq
  <2>4. DOMAIN Cut(f) = 1..Len(f) /\ DOMAIN f = 1..Len(f)
    BY <2>3, LenProperties
  <2> DEFINE c == Cut(f)
  <2>5. ASSUME NEW i \in 1..Len(f), c[i].type = "delta"
        PROVE  /\ c[i].base \in 1..i - 1 /\ ReplayLine(c[c[i].base])
               /\ \A j \in c[i].base + 1..i - 1 : ~ReplayLine(c[j])
    <3>1. i # Len(f) /\ c[i] = f[i]
      BY <2>1, <2>3, <2>5
    <3>2. \A j \in 1..i : c[j] = f[j]
      BY <2>2, <2>3, <3>1
    <3>3. /\ f[i].base \in 1..i - 1 /\ ReplayLine(f[f[i].base])
          /\ \A j \in f[i].base + 1..i - 1 : ~ReplayLine(f[j])
      BY <2>4, <2>5, <3>1 DEF Based
    <3> DEFINE d == f[i].base
    <3>4. d \in 1..i - 1 /\ ReplayLine(f[d]) /\ \A j \in d + 1..i - 1 : ~ReplayLine(f[j])
      BY <3>3
    <3>5. c[i].base = d
      BY <3>1
    <3> HIDE DEF c, d
    <3>6. d \in 1..i /\ \A j \in d + 1..i - 1 : j \in 1..i
      BY <3>4
    <3>7. ReplayLine(c[d]) /\ \A j \in d + 1..i - 1 : ~ReplayLine(c[j])
      BY <3>2, <3>4, <3>6
    <3>. QED
      BY <3>4, <3>5, <3>7
  <2>6. DOMAIN c = 1..Len(f) /\ c \in Seq(Lines)
    BY <2>3, <2>4
  <2> HIDE DEF c
  <2>7. Based(c)
    BY <2>5, <2>6 DEF Based
  <2>. QED
    BY <2>6, <2>7 DEF c
<1>. QED
  BY <1>1, <1>2

\* LoadMessages refuses neither the file nor the file cut off within its last
\* line, whoever failed and however the processes interleaved, with flock or
\* without.
THEOREM LoadsAlways == Spec => []LoadNeverFails
<1>1. IInv => LoadNeverFails
  <2> SUFFICES ASSUME IInv PROVE LoadNeverFails
    OBVIOUS
  <2>1. file \in Seq(Lines) /\ Based(file)
    BY DEF IInv, TypeOK, BasesMatch, Based
  <2>2. Cut(file) \in Seq(Lines) /\ Based(Cut(file))
    BY <2>1, CutBased
  <2>3. UpTo(file, Scan(file), Len(file)) /\ UpTo(Cut(file), Scan(Cut(file)), Len(Cut(file)))
    BY <2>1, <2>2, ScanUpTo
  <2>. QED
    BY <2>3 DEF LoadNeverFails, UpTo
<1>. QED
  BY <1>1, Inductive, PTL

-----------------------------------------------------------------------------
(* The file is the register of ReplayLog.                                  *)

\* A base that is still good is what a reader finds.
Held ==
  \A w \in Writers : Locking /\ snap[w] # <<>> /\ end[w][1] = Len(file) => snap[w] = Scan(file).snap

\* The line a Store is about to write makes its request what a reader finds.
Planned ==
  \A w \in Writers : Busy(w) =>
    /\ old[w] # <<>> => old[w] = Scan(file).snap
    /\ rec[w].type # "torn"
    /\ rec[w].type # "delta" => rec[w].msgs = req[w].msgs
    /\ rec[w].type = "delta" => Scan(file).snap \o rec[w].msgs = req[w].msgs

Waiting == \A w \in Writers : wpc[w] = "idle" => req[w] = None

LogInv == IInv /\ Held /\ Planned /\ Waiting

\* What a reader has of the file, and which record it is.
LEMMA FileRead ==
  ASSUME IInv
  PROVE  /\ Scan(file) \in Readings /\ Len(file) \in Nat
         /\ \A b : Latest(b, Len(file)) => Scan(file).off = b
<1>1. file \in Seq(Lines) /\ Len(file) \in Nat
  BY LenProperties DEF IInv, TypeOK
<1>2. Based(file)
  BY DEF IInv, BasesMatch, Based
<1>3. UpTo(file, Scan(file), Len(file))
  BY <1>1, <1>2, ScanUpTo
<1>4. ASSUME NEW b, Latest(b, Len(file)) PROVE Scan(file).off = b
  <2> DEFINE o == Scan(file).off
  <2>1. o \in 0..Len(file) /\ (o # 0 => ReplayLine(file[o])) /\ \A j \in o + 1..Len(file) : ~ReplayLine(file[j])
    BY <1>3 DEF UpTo
  <2>2. b \in 1..Len(file) /\ ReplayLine(file[b]) /\ \A j \in b + 1..Len(file) : ~ReplayLine(file[j])
    BY <1>4 DEF Latest
  <2> HIDE DEF o
  <2>3. ~(o < b) /\ ~(b < o)
    BY <1>1, <2>1, <2>2
  <2>4. o = b
    BY <1>1, <2>1, <2>2, <2>3
  <2>. QED
    BY <2>4 DEF o
<1>. QED
  BY <1>1, <1>3, <1>4 DEF UpTo

\* A whole line at the end of the file.
LEMMA Landed ==
  ASSUME IInv, open = FALSE, NEW line \in Lines, file' = Land(line)
  PROVE  Follows(Scan(file), line, Len(file) + 1, Scan(file)')
<1>1. Len(file) \in Nat /\ Scan(file) \in Readings
  BY FileRead
<1>2. Len(file') = Len(file) + 1 /\ (\A i \in 1..Len(file) : file'[i] = file[i])
      /\ file'[Len(file) + 1] = line
  BY LandWhole DEF IInv
<1>3. Scan(file') = Visit(Scan(file), line, Len(file) + 1)
  BY <1>1, <1>2, ScanAppend
<1>. QED
  BY <1>1, <1>3, VisitIs

\* A torn line changes nothing of what a scan reads.
LEMMA TornLanded ==
  ASSUME IInv, open = FALSE, file' = Land(Torn)
  PROVE  Scan(file)' = Scan(file)
<1>1. Torn \in Lines /\ Torn.type = "torn"
  BY EmptySeq DEF Torn, Lines
<1>. QED
  BY <1>1, Landed DEF Follows

\* The chosen line makes the request what a reader finds.
LEMMA RequestLanded ==
  ASSUME LogInv, open = FALSE, NEW w \in Writers, wpc[w] = "write", file' = Land(rec[w])
  PROVE  /\ req[w].kind = "snapshot" =>
              /\ Scan(file)'.snap = req[w].msgs /\ Scan(file)'.off # 0
              /\ Scan(file)'.turns = Scan(file).turns
         /\ req[w].kind = "turn" =>
              /\ Scan(file)'.snap = Scan(file).snap /\ Scan(file)'.off = Scan(file).off
              /\ Scan(file)'.turns = Scan(file).turns \o req[w].msgs
<1>1. Busy(w) /\ rec[w] \in Lines /\ IInv
  BY DEF LogInv, IInv, TypeOK, Busy
<1>2. Follows(Scan(file), rec[w], Len(file) + 1, Scan(file)')
  BY <1>1, Landed
<1>3. Len(file) + 1 # 0 /\ Scan(file) \in Readings
  BY <1>1, FileRead
<1>4. /\ rec[w].type \in {"full", "delta", "turn"}
      /\ rec[w].type \in {"full", "delta"} <=> req[w].kind = "snapshot"
      /\ rec[w].type # "delta" => rec[w].msgs = req[w].msgs
      /\ rec[w].type = "delta" =>
           Scan(file).snap \o rec[w].msgs = req[w].msgs /\ rec[w].base = Scan(file).off
  <2>1. rec[w].type \in {"full", "delta", "turn", "torn"}
    BY <1>1 DEF Lines
  <2>2. rec[w].type = "delta" => Latest(rec[w].base, Len(file))
    BY <1>1 DEF IInv, Decided
  <2>3. rec[w].type = "delta" => rec[w].base = Scan(file).off
    BY <1>1, <2>2, FileRead
  <2>4. ReplayLine(rec[w]) <=> req[w].kind = "snapshot"
    BY <1>1 DEF IInv, Decided
  <2>. QED
    BY <1>1, <2>1, <2>3, <2>4 DEF LogInv, Planned, ReplayLine
<1>5. CASE req[w].kind = "snapshot"
  BY <1>2, <1>3, <1>4, <1>5 DEF Follows
<1>6. CASE req[w].kind = "turn"
  BY <1>2, <1>3, <1>4, <1>6 DEF Follows
<1>. QED
  BY <1>5, <1>6

\* A history is the base and what it grew by.
LEMMA GrewBy ==
  ASSUME NEW s \in Seq(Messages), NEW h \in Seq(Messages), IsStrictPrefix(s, h)
  PROVE  s \o SubSeq(h, Len(s) + 1, Len(h)) = h
<1>1. Len(s) \in Nat /\ Len(h) \in Nat /\ Len(s) <= Len(h) /\ SubSeq(s, 1, Len(s)) = SubSeq(h, 1, Len(s))
  BY LenProperties DEF IsStrictPrefix, IsPrefix
<1>2. \A i \in 1..Len(s) : s[i] = h[i]
  BY <1>1
<1> DEFINE t == SubSeq(h, Len(s) + 1, Len(h))
<1>3. t \in Seq(Messages) /\ Len(t) = Len(h) - Len(s) /\ \A i \in 1..Len(t) : t[i] = h[Len(s) + i]
  BY <1>1
<1> HIDE DEF t
<1>4. s \o t \in Seq(Messages) /\ Len(s \o t) = Len(h)
  BY <1>1, <1>3
<1>5. \A i \in 1..Len(h) : (s \o t)[i] = h[i]
  BY <1>1, <1>2, <1>3
<1>6. s \o t = h
  BY <1>4, <1>5, SeqEqual
<1>. QED
  BY <1>6 DEF t

\* The line an append decides to write, of a request and a base that is good.
LEMMA LineSays ==
  ASSUME LogInv, NEW w \in Writers, req[w] \in Requests
  PROVE  /\ Base(w) # <<>> => Base(w) = Scan(file).snap /\ Latest(off[w], Len(file))
         /\ Line(w).type # "torn"
         /\ Line(w).type # "delta" => Line(w).msgs = req[w].msgs
         /\ Line(w).type = "delta" => Scan(file).snap \o Line(w).msgs = req[w].msgs
<1>1. Base(w) # <<>> => Base(w) = Scan(file).snap /\ Latest(off[w], Len(file))
  <2> SUFFICES ASSUME Base(w) # <<>> PROVE Base(w) = Scan(file).snap /\ Latest(off[w], Len(file))
    OBVIOUS
  <2>1. Locking /\ end[w] = Size /\ Base(w) = snap[w] /\ snap[w] # <<>>
    BY DEF Base
  <2>2. end[w][1] = Len(file)
    BY <2>1 DEF Size
  <2>. QED
    BY <2>1, <2>2, BaseLatest DEF LogInv, IInv, Held
<1> DEFINE h == req[w].msgs
<1>2. CASE req[w].kind = "turn"
  <2>1. Line(w) = Turn(h)
    BY <1>2 DEF Line
  <2>. QED
    BY <1>1, <2>1 DEF Turn
<1>3. CASE req[w].kind = "snapshot" /\ ~Grew(w, h)
  <2>1. Line(w) = Full(h)
    BY <1>3 DEF Line
  <2>. QED
    BY <1>1, <2>1 DEF Full
<1>4. CASE req[w].kind = "snapshot" /\ Grew(w, h)
  <2>1. Line(w) = Delta(SubSeq(h, Len(Base(w)) + 1, Len(h)), off[w])
    BY <1>4 DEF Line
  <2>2. h \in Seq(Messages) /\ Base(w) \in Seq(Messages)
    BY <1>4, EmptySeq, HistoriesAssumption DEF Requests, Base, LogInv, IInv, TypeOK
  <2>3. Base(w) # <<>> /\ IsStrictPrefix(Base(w), h)
    BY <1>4 DEF Grew
  <2>4. Base(w) \o SubSeq(h, Len(Base(w)) + 1, Len(h)) = h
    BY <2>2, <2>3, GrewBy
  <2>5. Line(w).type = "delta" /\ Line(w).msgs = SubSeq(h, Len(Base(w)) + 1, Len(h))
    BY <2>1 DEF Delta
  <2>6. Scan(file).snap \o Line(w).msgs = h
    BY <1>1, <2>3, <2>4, <2>5
  <2>. QED
    BY <1>1, <2>5, <2>6
<1>. QED
  BY <1>2, <1>3, <1>4 DEF Requests

\* A Store whose fingerprint is the file remembers what the file says.
LEMMA HeldStep ==
  ASSUME LogInv, IInv', NEW w \in Writers, Act(w) PROVE Held'
<1> SUFFICES ASSUME Locking, NEW v \in Writers, snap'[v] # <<>>, end'[v][1] = Len(file')
             PROVE  snap'[v] = Scan(file)'.snap
  BY DEF Held
<1> USE DEF LogInv, IInv
<1>0. /\ Len(file) \in Nat
      /\ file' = file \/ Len(file') = Len(file) + 1
  BY FileRead, FileStep
<1>1. CASE snap'[v] = snap[v] /\ end'[v] = end[v]
  <2>1. end[v] # None /\ end[v][1] <= Len(file) /\ end[v][1] \in Nat
    BY <1>1 DEF Remembers, TypeOK
  <2>2. file' = file
    BY <1>0, <1>1, <2>1
  <2>. QED
    BY <1>1, <2>2 DEF Held
<1>2. CASE v # w
  BY <1>1, <1>2, Others DEF Same
<1>3. CASE v = w /\ Write(w)
  <2>1. /\ wpc[w] = "write" /\ file' = Land(rec[w]) /\ Busy(w) /\ req[w] \in Requests
        /\ open = FALSE
    BY <1>3 DEF Write, Busy, TypeOK, Decided
  <2>2. CASE req[w].kind = "snapshot"
    <3>1. snap'[w] = req[w].msgs
      BY <1>3, <2>2 DEF Write, TypeOK
    <3>2. Scan(file)'.snap = req[w].msgs
      BY <2>1, <2>2, RequestLanded
    <3>. QED
      BY <1>3, <3>1, <3>2
  <2>3. CASE req[w].kind # "snapshot"
    <3>1. req[w].kind = "turn"
      BY <2>1, <2>3 DEF Requests
    <3>2. snap'[w] = old[w]
      BY <1>3, <2>3 DEF Write, TypeOK
    <3>. QED
      BY <1>3, <2>1, <3>1, <3>2, RequestLanded DEF Planned
  <2>. QED
    BY <2>2, <2>3
<1>4. CASE v = w /\ ~Write(w)
  <2>1. (snap'[w] = snap[w] /\ end'[w] = end[w]) \/ snap'[w] = <<>>
    BY <1>4 DEF Act, Request, Decide, RepairTail, Fail, Restart, store, TypeOK
  <2>. QED
    BY <1>1, <1>4, <2>1
<1>. QED
  BY <1>2, <1>3, <1>4

\* Who holds the lock has read the file, and what it is about to write yields its request.
LEMMA PlannedStep ==
  ASSUME LogInv, NEW w \in Writers, Act(w) PROVE Planned'
<1> SUFFICES ASSUME NEW v \in Writers, Busy(v)'
             PROVE  /\ old'[v] # <<>> => old'[v] = Scan(file)'.snap
                    /\ rec'[v].type # "torn"
                    /\ rec'[v].type # "delta" => rec'[v].msgs = req'[v].msgs
                    /\ rec'[v].type = "delta" => Scan(file)'.snap \o rec'[v].msgs = req'[v].msgs
  BY DEF Planned
<1> USE DEF LogInv, IInv
<1>1. CASE v # w
  <2>1. Same(v)
    BY <1>1, Others
  <2>2. Busy(v)
    BY <2>1 DEF Same, Busy
  <2>3. old[v] # <<>> \/ rec[v].type = "delta" => file' = file
    BY <1>1, <2>2, Excluded DEF Decided
  <2>. QED
    BY <2>1, <2>2, <2>3 DEF Same, Planned
<1>2. CASE v = w
  <2>1. CASE Decide(w)
    <3>1. ~Unchanged(w) /\ req[w] \in Requests
      BY <1>2, <2>1 DEF Decide, Done, Busy, TypeOK
    <3>2. rec'[w] = Line(w) /\ old'[w] = Base(w) /\ file' = file /\ req' = req
      BY <2>1, <3>1 DEF Decide, TypeOK
    <3>. QED
      BY <1>2, <3>1, <3>2, LineSays
  <2>2. CASE RepairTail(w)
    <3>1. Busy(w)
      BY <2>2 DEF RepairTail, Busy
    <3>2. UNCHANGED <<file, rec, old, req>>
      BY <2>2 DEF RepairTail
    <3>. QED
      BY <1>2, <3>1, <3>2 DEF Planned
  <2>3. CASE ~Decide(w) /\ ~RepairTail(w)
    <3>1. wpc'[w] \in {"open", "idle"}
      BY <2>3 DEF Act, Request, Write, Fail, Restart, Done, TypeOK, call
    <3>. QED
      BY <1>2, <3>1 DEF Busy
  <2>. QED
    BY <2>1, <2>2, <2>3
<1>. QED
  BY <1>1, <1>2

\* A Store that is at rest has no request.
LEMMA WaitingStep ==
  ASSUME LogInv, NEW w \in Writers, Act(w) PROVE Waiting'
<1> SUFFICES ASSUME NEW v \in Writers, wpc'[v] = "idle" PROVE req'[v] = None
  BY DEF Waiting
<1> USE DEF LogInv, IInv
<1>1. CASE v # w
  BY <1>1, Others DEF Same, Waiting
<1>2. CASE v = w
  <2>1. CASE \E how : Done(w, how)
    BY <1>2, <2>1 DEF Done, TypeOK
  <2>2. CASE ~\E how : Done(w, how)
    <3>1. wpc'[w] # "idle" \/ Restart(w)
      BY <2>2 DEF Act, Request, Decide, RepairTail, Write, Fail, TypeOK
    <3>. QED
      BY <1>2, <3>1 DEF Restart, call, Waiting
  <2>. QED
    BY <2>1, <2>2
<1>. QED
  BY <1>1, <1>2

\* A step of w is a step of ReplayLog: an append asks, and takes effect with its
\* write, with the decision that nothing changed, or not at all.
LEMMA LogStep ==
  ASSUME LogInv, LogInv', Locking, NEW w \in Writers, Act(w) PROVE Log!Next \/ UNCHANGED Log!vars
<1> USE DEF LogInv, IInv
<1>1. CASE \E r \in Requests : Request(w, r)
  <2>1. PICK r \in Requests : Request(w, r)
    BY <1>1
  <2>2. Log!Ask(w, r)
    BY <2>1 DEF Request, Log!Ask, Waiting
  <2>. QED
    BY <2>2 DEF Log!Next
<1>2. CASE Decide(w) /\ Unchanged(w)
  <2>1. Done(w, "ok") /\ file' = file /\ wpc[w] = "open" /\ req[w] \in Requests
    BY <1>2 DEF Decide, TypeOK
  <2>2. req[w] # None
    BY <2>1, NoneAssumption
  <2>3. Base(w) # <<>> /\ req[w].msgs = Base(w) /\ req[w].kind = "snapshot"
    BY <1>2 DEF Unchanged
  <2>4. Base(w) = Scan(file).snap /\ Latest(off[w], Len(file))
    BY <2>1, <2>3, LineSays
  <2>5. Scan(file).off # 0
    <3>1. Scan(file).off = off[w]
      BY <2>4, FileRead
    <3>. QED
      BY <2>4, <3>1 DEF Latest
  <2>6. Log!Effect(req[w])
    BY <2>1, <2>3, <2>4, <2>5 DEF Log!Effect
  <2>7. Log!Succeed(w)
    BY <2>1, <2>2, <2>6 DEF Log!Succeed, Log!Finish, Done
  <2>. QED
    BY <2>7 DEF Log!Next
<1>3. CASE (Decide(w) /\ ~Unchanged(w)) \/ RepairTail(w) \/ Restart(w)
  <2>1. UNCHANGED <<file, req, ret>>
    BY <1>3 DEF Decide, RepairTail, Restart, call
  <2>. QED
    BY <2>1 DEF Log!vars
<1>4. CASE wpc[w] = "write" /\ file' = Land(rec[w]) /\ \E how \in {"ok", "error"} : Done(w, how)
  <2>1. req[w] \in Requests /\ req[w] # None
    BY <1>4, NoneAssumption DEF TypeOK
  <2>2. Log!Effect(req[w])
    <3>0. open = FALSE
      BY <1>4 DEF Decided, Busy
    <3>1. CASE req[w].kind = "snapshot"
      BY <1>4, <3>0, <3>1, RequestLanded DEF Log!Effect
    <3>2. CASE req[w].kind = "turn"
      BY <1>4, <3>0, <3>2, RequestLanded DEF Log!Effect
    <3>. QED
      BY <2>1, <3>1, <3>2 DEF Requests
  <2>3. Log!Succeed(w) \/ Log!Fail(w)
    BY <1>4, <2>1, <2>2 DEF Log!Succeed, Log!Fail, Log!Finish, Done
  <2>. QED
    BY <2>3 DEF Log!Next
<1>5. CASE Write(w)
  BY <1>4, <1>5 DEF Write
<1>6. CASE Fail(w)
  <2>1. req[w] \in Requests /\ req[w] # None /\ Done(w, "error")
    BY <1>6, NoneAssumption DEF Fail, TypeOK
  <2>2. CASE file' = Land(rec[w]) /\ wpc[w] = "write"
    BY <1>4, <2>1, <2>2
  <2>3. CASE file' = file \/ (wpc[w] = "write" /\ file' = Land(Torn))
    <3>1. Scan(file)' = Scan(file)
      <4>1. wpc[w] = "write" => open = FALSE
        BY DEF Decided, Busy
      <4>. QED
        BY <2>3, <4>1, TornLanded
    <3>2. Log!Fail(w)
      BY <2>1, <3>1 DEF Log!Fail, Log!Finish, Done
    <3>. QED
      BY <3>2 DEF Log!Next
  <2>4. file' = file \/ (wpc[w] = "write" /\ (file' = Land(Torn) \/ file' = Land(rec[w])))
    BY <1>6 DEF Fail
  <2>. QED
    BY <2>2, <2>3, <2>4
<1>. QED
  BY <1>1, <1>2, <1>3, <1>5, <1>6 DEF Act


-----------------------------------------------------------------------------
(* repairToolCalls: functions on the number of messages or calls read.     *)

\* What holds at 0 and passes from each number to the next holds up to n.
LEMMA Climb ==
  ASSUME NEW n \in Nat, NEW T, 0 \in T, \A i \in 1..n : i - 1 \in T => i \in T
  PROVE  \A i \in 0..n : i \in T
<1> DEFINE U == {i \in 0..n : i \notin T}
<1>1. SUFFICES ASSUME U # {} PROVE FALSE
  OBVIOUS
<1>2. U \in SUBSET Nat
  OBVIOUS
<1>3. PICK i \in U : \A j \in U : i <= j
  BY <1>1, <1>2, LeastOf
<1>4. i \in 1..n /\ i - 1 \in 0..n /\ i - 1 \notin U
  BY <1>3
<1>. QED
  BY <1>3, <1>4

\* r starts from a and takes the first k steps of F.
Takes(r, k, A, a, F) ==
  r \in [0..k -> A] /\ r[0] = a /\ \A i \in 1..k : r[i] = F[i][r[i - 1]]

\* A function given at 0 and step by step exists.
LEMMA StepsExist ==
  ASSUME NEW n \in Nat, NEW A, NEW a \in A, NEW F \in [1..n -> [A -> A]]
  PROVE  \E r : Takes(r, n, A, a, F)
<1> DEFINE T == {k \in 0..n : \E r : Takes(r, k, A, a, F)}
<1>1. 0 \in T
  <2> DEFINE r == [i \in 0..0 |-> a]
  <2>1. Takes(r, 0, A, a, F)
    BY DEF Takes
  <2>. QED
    BY <2>1
<1>2. ASSUME NEW k \in 1..n, k - 1 \in T PROVE k \in T
  <2>1. PICK r : Takes(r, k - 1, A, a, F)
    BY <1>2
  <2>2. r \in [0..(k - 1) -> A] /\ r[0] = a /\ \A i \in 1..(k - 1) : r[i] = F[i][r[i - 1]]
    BY <2>1 DEF Takes
  <2> DEFINE g == [i \in 0..k |-> IF i = k THEN F[k][r[k - 1]] ELSE r[i]]
  <2>3. /\ \A i \in 0..k : i = k \/ i \in 0..(k - 1)
        /\ k \in 1..n /\ k - 1 \in 0..(k - 1) /\ k # 0 /\ 0 \in 0..k
        /\ \A i \in 1..k : (i = k \/ i \in 1..(k - 1)) /\ i - 1 \in 0..(k - 1) /\ i - 1 # k
        /\ \A i \in 1..(k - 1) : i # k /\ i \in 0..k
    OBVIOUS
  <2>4. F[k][r[k - 1]] \in A
    BY <2>2, <2>3
  <2>5. g \in [0..k -> A] /\ g[0] = a
    BY <2>2, <2>3, <2>4
  <2>6. \A i \in 1..k : g[i] = F[i][g[i - 1]]
    <3>1. \A i \in 1..k : g[i - 1] = r[i - 1]
      BY <2>3
    <3>2. \A i \in 1..(k - 1) : g[i] = r[i]
      BY <2>3
    <3>3. g[k] = F[k][r[k - 1]]
      BY <2>3
    <3>. QED
      BY <2>2, <2>3, <3>1, <3>2, <3>3
  <2> HIDE DEF g
  <2>7. Takes(g, k, A, a, F)
    BY <2>5, <2>6 DEF Takes
  <2>. QED
    BY <2>7
<1>3. \A i \in 0..n : i \in T
  <2> HIDE DEF T
  <2>. QED
    BY <1>1, <1>2, Climb
<1>. QED
  BY <1>3

\* What Without keeps: all but drop, in sequence, each once.
LEMMA WithoutIs ==
  ASSUME NEW C, NEW calls \in Seq(C), NEW drop
  PROVE  /\ Without(calls, drop) \in Seq(C)
         /\ ToSet(Without(calls, drop)) = ToSet(calls) \ drop
         /\ \A i, j \in DOMAIN Without(calls, drop) :
              Without(calls, drop)[i] = Without(calls, drop)[j] => i = j
<1> DEFINE n == Len(calls)
           Next1(s, i) == IF calls[i] \in drop \cup ToSet(s) THEN s ELSE Append(s, calls[i])
           Is(r) == r = [i \in 0..n |-> IF i = 0 THEN <<>> ELSE Next1(r[i - 1], i)]
<1>1. n \in Nat /\ \A i \in 1..n : calls[i] \in C
  BY LenProperties
<1>2. \E r : Is(r)
  <2> DEFINE F == [i \in 1..n |-> [s \in Seq(C) |-> Next1(s, i)]]
  <2>1. F \in [1..n -> [Seq(C) -> Seq(C)]] /\ <<>> \in Seq(C)
    <3>1. \A s \in Seq(C), i \in 1..n : Next1(s, i) \in Seq(C)
      BY <1>1
    <3>. QED
      BY <3>1, EmptySeq
  <2> HIDE DEF n
  <2>2. \E r : Takes(r, n, Seq(C), <<>>, F)
    <3> HIDE DEF F
    <3>. QED
      BY <1>1, <2>1, StepsExist
  <2>3. PICK r : /\ r \in [0..n -> Seq(C)] /\ r[0] = <<>>
                 /\ \A i \in 1..n : r[i] = F[i][r[i - 1]]
    <3> HIDE DEF F
    <3>. QED
      BY <2>2 DEF Takes
  <2>4. \A i \in 1..n : r[i] = Next1(r[i - 1], i)
    <3>1. \A i \in 1..n : i - 1 \in 0..n
      BY <1>1
    <3>. QED
      BY <2>3, <3>1
  <2> HIDE DEF Next1
  <2>5. \A i \in 0..n : r[i] = IF i = 0 THEN <<>> ELSE Next1(r[i - 1], i)
    BY <1>1, <2>3, <2>4
  <2>6. Is(r)
    BY <2>3, <2>5
  <2>. QED
    BY <2>6
<1> DEFINE q == CHOOSE r : Is(r)
<1>3. Without(calls, drop) = q[n]
  BY DEF Without
<1>4. Is(q)
  <2> HIDE DEF Is
  <2>. QED
    BY <1>2
<1>5. q[0] = <<>> /\ \A i \in 1..n : q[i] = Next1(q[i - 1], i)
  <2>1. \A i \in 0..n : q[i] = IF i = 0 THEN <<>> ELSE Next1(q[i - 1], i)
    <3> HIDE DEF Next1, q
    <3>. QED
      BY <1>4
  <2> HIDE DEF Next1, q, Is
  <2>. QED
    BY <1>1, <2>1
<1> HIDE DEF q, Is
<1> DEFINE Kept(s, k) == /\ s \in Seq(C)
                         /\ ToSet(s) = {calls[j] : j \in 1..k} \ drop
                         /\ \A i, j \in 1..Len(s) : s[i] = s[j] => i = j
           T == {k \in 0..n : Kept(q[k], k)}
<1>6. 0 \in T
  <2>1. ToSet(<<>>) = {} /\ Len(<<>>) = 0 /\ <<>> \in Seq(C)
    BY EmptySeq DEF ToSet
  <2>2. {calls[j] : j \in 1..0} = {} /\ \A i, j \in 1..0 : FALSE
    OBVIOUS
  <2>3. Kept(<<>>, 0)
    BY <2>1, <2>2
  <2> HIDE DEF Kept
  <2>. QED
    BY <1>1, <1>5, <2>3
<1>7. ASSUME NEW k \in 1..n, k - 1 \in T PROVE k \in T
  <2> DEFINE s == q[k - 1]
             c == calls[k]
             t == Next1(s, k)
             D == {calls[j] : j \in 1..(k - 1)} \ drop
  <2>1. q[k] = t
    BY <1>5
  <2>2. s \in Seq(C) /\ ToSet(s) = D /\ \A i, j \in 1..Len(s) : s[i] = s[j] => i = j
    BY <1>7
  <2>3. c \in C /\ {calls[j] : j \in 1..k} = {calls[j] : j \in 1..(k - 1)} \cup {c}
    BY <1>1
  <2>4. ToSet(s) = {s[i] : i \in 1..Len(s)} /\ Len(s) \in Nat
    BY <2>2, LenProperties DEF ToSet
  <2> HIDE DEF s, c
  <2>5. CASE c \in drop \cup ToSet(s)
    <3>1. t = s
      BY <2>5 DEF c
    <3>2. {calls[j] : j \in 1..k} \ drop = D
      BY <2>2, <2>3, <2>5
    <3>3. Kept(s, k)
      BY <2>2, <3>2
    <3> HIDE DEF Kept, t
    <3>. QED
      BY <1>1, <2>1, <3>1, <3>3
  <2>6. CASE c \notin drop \cup ToSet(s)
    <3>1. t = Append(s, c)
      BY <2>6 DEF c
    <3>2. /\ t \in Seq(C) /\ Len(t) = Len(s) + 1 /\ t[Len(s) + 1] = c
          /\ \A i \in 1..Len(s) : t[i] = s[i]
      BY <2>2, <2>3, <3>1
    <3> HIDE DEF t
    <3>3. ToSet(t) = ToSet(s) \cup {c}
      <4>1. ToSet(t) = {t[i] : i \in 1..(Len(s) + 1)}
        BY <3>2, LenProperties DEF ToSet
      <4>2. 1..(Len(s) + 1) = (1..Len(s)) \cup {Len(s) + 1}
        BY <2>4
      <4>. QED
        BY <2>4, <3>2, <4>1, <4>2
    <3>4. \A i \in 1..Len(s) : s[i] # c
      BY <2>4, <2>6
    <3>5. \A i, j \in 1..Len(t) : t[i] = t[j] => i = j
      BY <2>2, <2>4, <3>2, <3>4
    <3>6. {calls[j] : j \in 1..k} \ drop = D \cup {c}
      BY <2>3, <2>6
    <3>7. Kept(t, k)
      BY <2>2, <3>2, <3>3, <3>5, <3>6
    <3> HIDE DEF Kept
    <3>. QED
      BY <1>1, <2>1, <3>7
  <2>. QED
    BY <2>5, <2>6
<1>8. Kept(q[n], n)
  <2> HIDE DEF Kept
  <2>1. \A i \in 0..n : i \in T
    BY <1>1, <1>6, <1>7, Climb
  <2>. QED
    BY <1>1, <2>1
<1>9. ToSet(calls) = {calls[j] : j \in 1..n}
  BY LenProperties DEF ToSet
<1>10. DOMAIN q[n] = 1..Len(q[n])
  BY <1>8, LenProperties
<1>. QED
  BY <1>3, <1>8, <1>9, <1>10

\* What messages are made of, those a repair makes with them.
Called == UNION {ToSet(m.calls) : m \in Messages}
Named == {m.id : m \in Messages} \cup Called \cup {NoId}
Parts == [role  : {m.role : m \in Messages} \cup {"tool"},
          text  : {m.text : m \in Messages} \cup {"interrupted"},
          calls : Seq(Called),
          id    : Named]

\* The messages that are saved are such parts.
LEMMA MessagesAreParts == Messages \subseteq Parts
<1> SUFFICES ASSUME NEW m \in Messages PROVE m \in Parts
  OBVIOUS
<1>1. /\ m = [role |-> m.role, text |-> m.text, calls |-> m.calls, id |-> m.id]
      /\ m.calls \in Seq(ToSet(m.calls))
  BY MessagesAssumption
<1>2. ToSet(m.calls) \subseteq Called
  BY DEF Called
<1>3. m.calls \in Seq(Called)
  BY <1>1, <1>2, SeqMonotonic
<1>. QED
  BY <1>1, <1>3 DEF Parts, Named

\* The first pass keeps a message, its calls without the malformed ones, or
\* leaves it out.
Cleaned == [out : Seq(Parts), valid : SUBSET Called]

Stray(acc, m) == m.role = "tool" /\ m.id # NoId /\ m.id \notin acc.valid

\* A message of the first pass is left out when stray, or kept.
LEMMA HeedIs ==
  ASSUME NEW acc \in Cleaned, NEW m \in Parts
  PROVE  /\ Heed(acc, m) \in Cleaned
         /\ Stray(acc, m) => Heed(acc, m) = acc
         /\ ~Stray(acc, m) => \E d \in Parts :
              /\ d.role = m.role /\ d.id = m.id /\ d.calls = Without(m.calls, {NoId})
              /\ Heed(acc, m).out = Append(acc.out, d)
              /\ Heed(acc, m).valid = acc.valid \cup Ids(m.calls)
<1>1. CASE Stray(acc, m)
  BY <1>1 DEF Heed, Stray
<1>2. CASE ~Stray(acc, m)
  <2> DEFINE d == [m EXCEPT !.calls = Without(@, {NoId})]
  <2>1. m.calls \in Seq(Called) /\ Without(m.calls, {NoId}) \in Seq(Called)
    BY WithoutIs DEF Parts
  <2>2. d \in Parts /\ d.role = m.role /\ d.id = m.id /\ d.calls = Without(m.calls, {NoId})
    BY <2>1 DEF Parts
  <2>3. Heed(acc, m) = [out |-> Append(acc.out, d), valid |-> acc.valid \cup Ids(m.calls)]
    BY <1>2 DEF Heed, Stray
  <2> HIDE DEF d
  <2>4. Ids(m.calls) \subseteq Called
    BY <2>1, LenProperties DEF Ids, ToSet
  <2>5. Append(acc.out, d) \in Seq(Parts) /\ acc.valid \cup Ids(m.calls) \in SUBSET Called
    BY <2>2, <2>4, AppendProperties DEF Cleaned
  <2>6. Heed(acc, m) \in Cleaned
    BY <2>3, <2>5 DEF Cleaned
  <2>. QED
    BY <1>2, <2>2, <2>3, <2>6
<1>. QED
  BY <1>1, <1>2

\* The first pass goes through the history message by message.
LEMMA CleanRuns ==
  ASSUME NEW h \in Seq(Parts)
  PROVE  \E acc : /\ acc[0] = [out |-> <<>>, valid |-> {}]
                  /\ \A i \in 1..Len(h) : acc[i] = Heed(acc[i - 1], h[i])
                  /\ Clean(h) = acc[Len(h)].out
<1> DEFINE n == Len(h)
           start == [out |-> <<>>, valid |-> {}]
           Is(r) == r = [i \in 0..n |-> IF i = 0 THEN start ELSE Heed(r[i - 1], h[i])]
<1>1. n \in Nat /\ \A i \in 1..n : h[i] \in Parts
  BY LenProperties
<1>2. \E r : Is(r)
  <2> DEFINE F == [i \in 1..n |-> [s \in Cleaned |-> Heed(s, h[i])]]
  <2>1. F \in [1..n -> [Cleaned -> Cleaned]] /\ start \in Cleaned
    <3>1. \A s \in Cleaned, i \in 1..n : Heed(s, h[i]) \in Cleaned
      BY <1>1, HeedIs
    <3>2. start \in Cleaned
      BY EmptySeq DEF Cleaned
    <3> HIDE DEF n, start
    <3>. QED
      BY <3>1, <3>2
  <2> HIDE DEF n, start
  <2>2. \E r : Takes(r, n, Cleaned, start, F)
    <3> HIDE DEF F
    <3>. QED
      BY <1>1, <2>1, StepsExist
  <2>3. PICK r : /\ r \in [0..n -> Cleaned] /\ r[0] = start
                 /\ \A i \in 1..n : r[i] = F[i][r[i - 1]]
    <3> HIDE DEF F
    <3>. QED
      BY <2>2 DEF Takes
  <2>4. \A i \in 1..n : r[i] = Heed(r[i - 1], h[i])
    <3>1. \A i \in 1..n : i - 1 \in 0..n
      BY <1>1
    <3>. QED
      BY <2>3, <3>1
  <2>5. \A i \in 0..n : r[i] = IF i = 0 THEN start ELSE Heed(r[i - 1], h[i])
    BY <1>1, <2>3, <2>4
  <2>6. Is(r)
    BY <2>3, <2>5
  <2>. QED
    BY <2>6
<1> DEFINE q == CHOOSE r : Is(r)
<1>3. Clean(h) = q[n].out
  BY DEF Clean
<1>4. Is(q)
  <2> HIDE DEF Is
  <2>. QED
    BY <1>2
<1> HIDE DEF n, start, q
<1>5. \A i \in 0..n : q[i] = IF i = 0 THEN start ELSE Heed(q[i - 1], h[i])
  BY <1>4
<1> HIDE DEF Is
<1>6. q[0] = start /\ \A i \in 1..n : q[i] = Heed(q[i - 1], h[i])
  BY <1>1, <1>5
<1>. QED
  BY <1>3, <1>6 DEF n, start

\* The second pass copies a result, or flushes what the batch before is owed.
Filling == [out : Seq(Parts), calls : Seq(Called), answered : SUBSET Named]

Due(acc) == Without(acc.calls, {Signed} \cup acc.answered)

\* What is flushed is a result for each call that is due.
LEMMA FlushIs ==
  ASSUME NEW acc \in Filling
  PROVE  \E u \in Seq(Parts) :
           /\ Flush(acc) = acc.out \o u /\ Len(u) = Len(Due(acc))
           /\ \A j \in 1..Len(u) : u[j].role = "tool" /\ u[j].id = Due(acc)[j] /\ u[j].calls = <<>>
<1> DEFINE due == Due(acc)
           u == [j \in DOMAIN due |-> Interrupted(due[j])]
<1>1. due \in Seq(Called)
  BY WithoutIs DEF Filling, Due
<1>2. Flush(acc) = acc.out \o u
  BY DEF Flush, Due
<1> HIDE DEF due
<1>3. DOMAIN due = 1..Len(due) /\ Len(due) \in Nat /\ \A j \in 1..Len(due) : due[j] \in Called
  BY <1>1, LenProperties
<1>4. \A j \in 1..Len(due) : Interrupted(due[j]) \in Parts
  BY <1>3, EmptySeq DEF Interrupted, Answer, Parts, Named
<1>5. \A j \in 1..Len(due) : Interrupted(due[j]).role = "tool" /\ Interrupted(due[j]).id = due[j]
                             /\ Interrupted(due[j]).calls = <<>>
  BY DEF Interrupted, Answer
<1>6. u \in Seq(Parts) /\ Len(u) = Len(due) /\ \A j \in 1..Len(due) : u[j] = Interrupted(due[j])
  <2>1. u \in [1..Len(due) -> Parts]
    BY <1>3, <1>4
  <2>2. u \in Seq(Parts) /\ Len(u) = Len(due)
    BY <1>3, <2>1
  <2>. QED
    BY <1>3, <2>2
<1> HIDE DEF u
<1>7. \A j \in 1..Len(u) : u[j].role = "tool" /\ u[j].id = due[j] /\ u[j].calls = <<>>
  BY <1>5, <1>6
<1> HIDE DEF due
<1>8. \E v \in Seq(Parts) :
        /\ Flush(acc) = acc.out \o v /\ Len(v) = Len(due)
        /\ \A j \in 1..Len(v) : v[j].role = "tool" /\ v[j].id = due[j] /\ v[j].calls = <<>>
  BY <1>2, <1>6, <1>7
<1>. QED
  BY <1>8 DEF due

\* A message of the second pass is copied, behind what was due if it is no result.
LEMMA PutIs ==
  ASSUME NEW acc \in Filling, NEW m \in Parts
  PROVE  /\ Put(acc, m) \in Filling
         /\ m.role = "tool" =>
              /\ Put(acc, m).out = Append(acc.out, m) /\ Put(acc, m).calls = acc.calls
              /\ Put(acc, m).answered = acc.answered \cup {m.id}
         /\ m.role # "tool" =>
              /\ Put(acc, m).out = Append(Flush(acc), m) /\ Put(acc, m).calls = m.calls
              /\ Put(acc, m).answered = {}
<1>1. m.id \in Named /\ m.calls \in Seq(Called)
  BY DEF Parts, Named
<1>2. acc.out \in Seq(Parts) /\ acc.calls \in Seq(Called) /\ acc.answered \in SUBSET Named
  BY DEF Filling
<1>3. CASE m.role = "tool"
  <2>1. Append(acc.out, m) \in Seq(Parts) /\ acc.answered \cup {m.id} \in SUBSET Named
    BY <1>1, <1>2, AppendProperties
  <2>2. Put(acc, m) = [out |-> Append(acc.out, m), calls |-> acc.calls,
                       answered |-> acc.answered \cup {m.id}]
    BY <1>3 DEF Put, Filling
  <2>. QED
    BY <1>2, <1>3, <2>1, <2>2 DEF Filling
<1>4. CASE m.role # "tool"
  <2>1. Flush(acc) \in Seq(Parts)
    BY <1>2, FlushIs, ConcatProperties
  <2>2. Append(Flush(acc), m) \in Seq(Parts)
    BY <2>1, AppendProperties
  <2>3. Put(acc, m) = [out |-> Append(Flush(acc), m), calls |-> m.calls, answered |-> {}]
    BY <1>4 DEF Put
  <2>. QED
    BY <1>1, <1>4, <2>2, <2>3 DEF Filling
<1>. QED
  BY <1>3, <1>4

\* The second pass goes through the history message by message.
LEMMA FillRuns ==
  ASSUME NEW h \in Seq(Parts)
  PROVE  \E acc : /\ acc[0] = [out |-> <<>>, calls |-> <<>>, answered |-> {}]
                  /\ \A i \in 1..Len(h) : acc[i] = Put(acc[i - 1], h[i])
                  /\ Fill(h) = Flush(acc[Len(h)])
<1> DEFINE n == Len(h)
           start == [out |-> <<>>, calls |-> <<>>, answered |-> {}]
           Is(r) == r = [i \in 0..n |-> IF i = 0 THEN start ELSE Put(r[i - 1], h[i])]
<1>1. n \in Nat /\ \A i \in 1..n : h[i] \in Parts
  BY LenProperties
<1>2. \E r : Is(r)
  <2> DEFINE F == [i \in 1..n |-> [s \in Filling |-> Put(s, h[i])]]
  <2>1. F \in [1..n -> [Filling -> Filling]] /\ start \in Filling
    <3>1. \A s \in Filling, i \in 1..n : Put(s, h[i]) \in Filling
      BY <1>1, PutIs
    <3>2. start \in Filling
      BY EmptySeq DEF Filling
    <3> HIDE DEF n, start
    <3>. QED
      BY <3>1, <3>2
  <2> HIDE DEF n, start
  <2>2. \E r : Takes(r, n, Filling, start, F)
    <3> HIDE DEF F
    <3>. QED
      BY <1>1, <2>1, StepsExist
  <2>3. PICK r : /\ r \in [0..n -> Filling] /\ r[0] = start
                 /\ \A i \in 1..n : r[i] = F[i][r[i - 1]]
    <3> HIDE DEF F
    <3>. QED
      BY <2>2 DEF Takes
  <2>4. \A i \in 1..n : r[i] = Put(r[i - 1], h[i])
    <3>1. \A i \in 1..n : i - 1 \in 0..n
      BY <1>1
    <3>. QED
      BY <2>3, <3>1
  <2>5. \A i \in 0..n : r[i] = IF i = 0 THEN start ELSE Put(r[i - 1], h[i])
    BY <1>1, <2>3, <2>4
  <2>6. Is(r)
    BY <2>3, <2>5
  <2>. QED
    BY <2>6
<1> DEFINE q == CHOOSE r : Is(r)
<1>3. Fill(h) = Flush(q[n])
  BY DEF Fill
<1>4. Is(q)
  <2> HIDE DEF Is
  <2>. QED
    BY <1>2
<1> HIDE DEF n, start, q
<1>5. \A i \in 0..n : q[i] = IF i = 0 THEN start ELSE Put(q[i - 1], h[i])
  BY <1>4
<1> HIDE DEF Is
<1>6. q[0] = start /\ \A i \in 1..n : q[i] = Put(q[i - 1], h[i])
  BY <1>1, <1>5
<1>. QED
  BY <1>3, <1>6 DEF n, start

-----------------------------------------------------------------------------
(* Runs of results.                                                        *)

\* Message b is the one that the results up to n, if any, are behind.
Lead(s, n, b) == b \in 1..n /\ s[b].role # "tool" /\ \A j \in b + 1..n : s[j].role = "tool"

\* There is one such message.
LEMMA LeadUnique ==
  ASSUME NEW s, NEW n \in Nat, NEW b, NEW c, Lead(s, n, b), Lead(s, n, c) PROVE b = c
<1>1. b \in 1..n /\ c \in 1..n /\ ~(b < c) /\ ~(c < b)
  BY DEF Lead
<1>. QED
  BY <1>1

\* t goes on from s.
GoesOn(s, t) == /\ s \in Seq(Parts) /\ t \in Seq(Parts) /\ Len(s) <= Len(t)
                /\ \A i \in 1..Len(s) : t[i] = s[i]

\* What was a result of a batch stays one, and becomes none.
LEMMA StaysResult ==
  ASSUME NEW s, NEW t, GoesOn(s, t)
  PROVE  \A k \in 1..Len(s) : \A b : ResultOf(t, k, b) <=> ResultOf(s, k, b)
<1>1. Len(s) \in Nat
  BY LenProperties DEF GoesOn
<1> TAKE k \in 1..Len(s)
<1> TAKE b
<1>2. \A j \in 1..k : t[j] = s[j]
  BY <1>1 DEF GoesOn
<1>3. ASSUME b \in 1..k - 1 PROVE t[b] = s[b] /\ \A j \in b + 1..k : t[j] = s[j]
  BY <1>1, <1>2, <1>3
<1>. QED
  BY <1>3 DEF ResultOf

\* Results that are added are behind the last batch.
LEMMA ResultsAdded ==
  ASSUME NEW s, NEW t, GoesOn(s, t), \A k \in Len(s) + 1..Len(t) : t[k].role = "tool"
  PROVE  /\ \A k \in Len(s) + 1..Len(t) : \A b : ResultOf(t, k, b) <=> Lead(s, Len(s), b)
         /\ \A b : Lead(t, Len(t), b) <=> Lead(s, Len(s), b)
<1> DEFINE n == Len(s)
           m == Len(t)
<1>1. n \in Nat /\ m \in Nat /\ n <= m /\ (\A i \in 1..n : t[i] = s[i])
      /\ \A k \in n + 1..m : t[k].role = "tool"
  BY LenProperties DEF GoesOn
<1> HIDE DEF n, m
<1>2. ASSUME NEW k \in n + 1..m, NEW b PROVE ResultOf(t, k, b) <=> Lead(s, n, b)
  <2>1. ASSUME ResultOf(t, k, b) PROVE Lead(s, n, b)
    <3>1. b \in 1..k - 1 /\ t[b].role # "tool" /\ \A j \in b + 1..k : t[j].role = "tool"
      BY <2>1 DEF ResultOf
    <3>2. b \in 1..n
      BY <1>1, <3>1
    <3>. QED
      BY <1>1, <3>1, <3>2 DEF Lead
  <2>2. ASSUME Lead(s, n, b) PROVE ResultOf(t, k, b)
    <3>1. b \in 1..n /\ s[b].role # "tool" /\ \A j \in b + 1..n : s[j].role = "tool"
      BY <2>2 DEF Lead
    <3>2. \A j \in b + 1..k : j \in n + 1..m \/ (j \in b + 1..n /\ j \in 1..n)
      BY <1>1, <3>1
    <3>3. \A j \in b + 1..k : t[j].role = "tool"
      BY <1>1, <3>1, <3>2
    <3>. QED
      BY <1>1, <3>1, <3>3 DEF ResultOf
  <2>. QED
    BY <2>1, <2>2
<1>3. ASSUME NEW b PROVE Lead(t, m, b) <=> Lead(s, n, b)
  <2>1. ASSUME Lead(t, m, b) PROVE Lead(s, n, b)
    <3>1. b \in 1..m /\ t[b].role # "tool" /\ \A j \in b + 1..m : t[j].role = "tool"
      BY <2>1 DEF Lead
    <3>2. b \in 1..n
      BY <1>1, <3>1
    <3>. QED
      BY <1>1, <3>1, <3>2 DEF Lead
  <2>2. ASSUME Lead(s, n, b) PROVE Lead(t, m, b)
    <3>1. b \in 1..n /\ s[b].role # "tool" /\ \A j \in b + 1..n : s[j].role = "tool"
      BY <2>2 DEF Lead
    <3>2. \A j \in b + 1..m : j \in n + 1..m \/ (j \in b + 1..n /\ j \in 1..n)
      BY <1>1, <3>1
    <3>3. \A j \in b + 1..m : t[j].role = "tool"
      BY <1>1, <3>1, <3>2
    <3>. QED
      BY <1>1, <3>1, <3>3 DEF Lead
  <2>. QED
    BY <2>1, <2>2
<1>. QED
  BY <1>2, <1>3 DEF n, m

\* Another message begins a run of its own.
LEMMA RunBegun ==
  ASSUME NEW s, NEW t, GoesOn(s, t), Len(t) = Len(s) + 1, t[Len(t)].role # "tool"
  PROVE  /\ \A b : ~ResultOf(t, Len(t), b)
         /\ \A b : Lead(t, Len(t), b) <=> b = Len(t)
<1> DEFINE m == Len(t)
<1>1. m \in Nat /\ m >= 1 /\ t[m].role # "tool"
  BY LenProperties DEF GoesOn
<1> HIDE DEF m
<1>2. \A b : b \in 1..m - 1 => m \in b + 1..m
  BY <1>1
<1>3. \A b : ~ResultOf(t, m, b)
  BY <1>1, <1>2 DEF ResultOf
<1>4. ASSUME NEW b PROVE Lead(t, m, b) <=> b = m
  BY <1>1, <1>2 DEF Lead
<1>. QED
  BY <1>3, <1>4 DEF m

-----------------------------------------------------------------------------
(* What a provider accepts, message by message.                            *)

\* The calls of a message have ids, each its own.
TidyAt(s, b) ==
  /\ NoId \notin ToSet(s[b].calls)
  /\ \A i, j \in DOMAIN s[b].calls : s[b].calls[i] = s[b].calls[j] => i = j

Tidy(s) == \A b \in DOMAIN s : s[b].role # "tool" => TidyAt(s, b)

\* A result is of a call of the batch it is behind.
Fit(s) == \A k, b \in DOMAIN s : ResultOf(s, k, b) => s[k].id \in Ids(s[b].calls) \cup {NoId}

Answered(s, b) == \A id \in Ids(s[b].calls) : \E k \in DOMAIN s : ResultOf(s, k, b) /\ s[k].id = id

\* All batches but the last are answered.
AnsweredSoFar(s) ==
  \A b \in DOMAIN s : s[b].role # "tool" /\ ~Lead(s, Len(s), b) => Answered(s, b)

\* What a provider accepts, said batch by batch.
LEMMA SendableIs ==
  ASSUME NEW s \in Seq(Parts), Tidy(s), Fit(s),
         \A b \in DOMAIN s : s[b].role # "tool" => Answered(s, b)
  PROVE  Sendable(s)
<1> SUFFICES ASSUME NEW b \in DOMAIN s, s[b].role # "tool"
             PROVE  /\ {s[k].id : k \in {j \in DOMAIN s : ResultOf(s, j, b)}} \ {NoId} = Ids(s[b].calls)
                    /\ TidyAt(s, b)
  BY DEF Sendable, TidyAt
<1>1. TidyAt(s, b)
  BY DEF Tidy
<1>2. NoId \notin Ids(s[b].calls)
  BY DEF Ids
<1>3. \A k \in DOMAIN s : ResultOf(s, k, b) => s[k].id \in Ids(s[b].calls) \cup {NoId}
  BY DEF Fit
<1>4. \A id \in Ids(s[b].calls) : \E k \in DOMAIN s : ResultOf(s, k, b) /\ s[k].id = id
  BY DEF Answered
<1>. QED
  BY <1>1, <1>2, <1>3, <1>4

\* What is answered stays answered.
LEMMA StaysAnswered ==
  ASSUME NEW s, NEW t, GoesOn(s, t), NEW b \in 1..Len(s), Answered(s, b)
  PROVE  Answered(t, b)
<1>1. DOMAIN s = 1..Len(s) /\ DOMAIN t = 1..Len(t) /\ Len(s) \in Nat /\ Len(t) \in Nat
  BY LenProperties DEF GoesOn
<1>2. 1..Len(s) \subseteq 1..Len(t) /\ \A i \in 1..Len(s) : t[i] = s[i]
  BY <1>1 DEF GoesOn
<1>3. \A k \in 1..Len(s) : ResultOf(t, k, b) <=> ResultOf(s, k, b)
  BY StaysResult
<1>. QED
  BY <1>1, <1>2, <1>3 DEF Answered

\* Results of calls of the last batch may be added.
LEMMA AddedFit ==
  ASSUME NEW s, NEW t, NEW b, GoesOn(s, t), Lead(s, Len(s), b),
         \A k \in Len(s) + 1..Len(t) : t[k].role = "tool" /\ t[k].id \in Ids(s[b].calls) \cup {NoId},
         Tidy(s), Fit(s)
  PROVE  /\ Tidy(t) /\ Fit(t)
         /\ AnsweredSoFar(s) => AnsweredSoFar(t)
<1>1. DOMAIN s = 1..Len(s) /\ DOMAIN t = 1..Len(t) /\ Len(s) \in Nat /\ Len(t) \in Nat
  BY LenProperties DEF GoesOn
<1>2. /\ 1..Len(s) \subseteq 1..Len(t) /\ \A i \in 1..Len(s) : t[i] = s[i]
      /\ \A i \in 1..Len(t) : i \in 1..Len(s) \/ i \in Len(s) + 1..Len(t)
  BY <1>1 DEF GoesOn
<1>3. Tidy(t)
  <2> SUFFICES ASSUME NEW i \in 1..Len(t), t[i].role # "tool" PROVE TidyAt(t, i)
    BY <1>1 DEF Tidy
  <2>1. i \in 1..Len(s) /\ t[i] = s[i]
    BY <1>2
  <2>2. TidyAt(s, i)
    BY <1>1, <2>1 DEF Tidy
  <2>. QED
    BY <2>1, <2>2 DEF TidyAt
<1>4. /\ \A k \in 1..Len(s) : \A c : ResultOf(t, k, c) <=> ResultOf(s, k, c)
      /\ \A k \in Len(s) + 1..Len(t) : \A c : ResultOf(t, k, c) => c = b
      /\ \A c : Lead(t, Len(t), c) <=> Lead(s, Len(s), c)
  BY <1>1, StaysResult, ResultsAdded, LeadUnique
<1>5. \A k \in 1..Len(s) : \A c : ResultOf(s, k, c) => c \in 1..Len(s)
  BY <1>1 DEF ResultOf
<1>6. b \in 1..Len(s)
  BY DEF Lead
<1>7. Fit(t)
  <2> SUFFICES ASSUME NEW k \in 1..Len(t), NEW c \in 1..Len(t), ResultOf(t, k, c)
               PROVE  t[k].id \in Ids(t[c].calls) \cup {NoId}
    BY <1>1 DEF Fit
  <2>1. CASE k \in 1..Len(s)
    BY <1>1, <1>2, <1>4, <1>5, <2>1 DEF Fit
  <2>2. CASE k \in Len(s) + 1..Len(t)
    BY <1>2, <1>4, <1>6, <2>2
  <2>. QED
    BY <1>2, <2>1, <2>2
<1>8. ASSUME AnsweredSoFar(s) PROVE AnsweredSoFar(t)
  <2> SUFFICES ASSUME NEW c \in 1..Len(t), t[c].role # "tool", ~Lead(t, Len(t), c)
               PROVE  Answered(t, c)
    BY <1>1 DEF AnsweredSoFar
  <2>1. c \in 1..Len(s) /\ s[c].role # "tool" /\ ~Lead(s, Len(s), c)
    BY <1>2, <1>4
  <2>2. Answered(s, c)
    BY <1>1, <1>8, <2>1 DEF AnsweredSoFar
  <2>. QED
    BY <2>1, <2>2, StaysAnswered
<1>. QED
  BY <1>3, <1>7, <1>8

\* Of calls that have none yet, each once.
LEMMA AddedOnce ==
  ASSUME NEW s, NEW t, NEW b, GoesOn(s, t), Lead(s, Len(s), b), Once(s),
         \A k \in Len(s) + 1..Len(t) :
           /\ t[k].role = "tool"
           /\ \A j \in b + 1..k - 1 : t[j].id # t[k].id
           /\ t[k].id = NoId => Signed \in ToSet(s[b].calls)
  PROVE  Once(t)
<1>1. DOMAIN s = 1..Len(s) /\ DOMAIN t = 1..Len(t) /\ Len(s) \in Nat /\ Len(t) \in Nat
  BY LenProperties DEF GoesOn
<1>2. /\ 1..Len(s) \subseteq 1..Len(t) /\ \A i \in 1..Len(s) : t[i] = s[i]
      /\ \A i \in 1..Len(t) : i \in 1..Len(s) \/ i \in Len(s) + 1..Len(t)
  BY <1>1 DEF GoesOn
<1>3. /\ \A k \in 1..Len(s) : \A c : ResultOf(t, k, c) <=> ResultOf(s, k, c)
      /\ \A k \in Len(s) + 1..Len(t) : \A c : ResultOf(t, k, c) => c = b
  BY <1>1, StaysResult, ResultsAdded, LeadUnique
<1>4. b \in 1..Len(s)
  BY DEF Lead
<1> SUFFICES ASSUME NEW k \in 1..Len(t), NEW c \in 1..Len(t), ResultOf(t, k, c)
             PROVE  /\ \A j \in c + 1..k - 1 : t[j].id # t[k].id
                    /\ t[k].id = NoId => Signed \in ToSet(t[c].calls)
  BY <1>1 DEF Once
<1>5. CASE k \in 1..Len(s)
  <2>1. ResultOf(s, k, c)
    BY <1>3, <1>5
  <2>2. c \in 1..Len(s) /\ \A j \in c + 1..k - 1 : j \in 1..Len(s)
    BY <1>1, <1>5, <2>1 DEF ResultOf
  <2>3. (\A j \in c + 1..k - 1 : s[j].id # s[k].id) /\ (s[k].id = NoId => Signed \in ToSet(s[c].calls))
    BY <1>1, <1>5, <2>1, <2>2 DEF Once
  <2>. QED
    BY <1>2, <1>5, <2>2, <2>3
<1>6. CASE k \in Len(s) + 1..Len(t)
  <2>1. c = b /\ t[b] = s[b]
    BY <1>2, <1>3, <1>4, <1>6
  <2>. QED
    BY <1>6, <2>1
<1>. QED
  BY <1>2, <1>5, <1>6

\* A message that is no result may follow when all before it is answered.
LEMMA BegunFit ==
  ASSUME NEW s, NEW t, GoesOn(s, t), Len(t) = Len(s) + 1, t[Len(t)].role # "tool",
         Tidy(s), Fit(s), TidyAt(t, Len(t))
  PROVE  /\ Tidy(t) /\ Fit(t)
         /\ (\A b \in DOMAIN s : s[b].role # "tool" => Answered(s, b)) => AnsweredSoFar(t)
         /\ Once(s) => Once(t)
<1>1. DOMAIN s = 1..Len(s) /\ DOMAIN t = 1..Len(t) /\ Len(s) \in Nat /\ Len(t) \in Nat
  BY LenProperties DEF GoesOn
<1>2. /\ 1..Len(s) \subseteq 1..Len(t) /\ \A i \in 1..Len(s) : t[i] = s[i]
      /\ \A i \in 1..Len(t) : i \in 1..Len(s) \/ i = Len(t)
  BY <1>1 DEF GoesOn
<1>3. /\ \A k \in 1..Len(s) : \A c : ResultOf(t, k, c) <=> ResultOf(s, k, c)
      /\ \A c : ~ResultOf(t, Len(t), c)
      /\ \A c : Lead(t, Len(t), c) <=> c = Len(t)
  BY StaysResult, RunBegun
<1>4. \A k \in 1..Len(s) : \A c : ResultOf(s, k, c) =>
        c \in 1..Len(s) /\ \A j \in c + 1..k - 1 : j \in 1..Len(s)
  BY <1>1 DEF ResultOf
<1>5. Tidy(t)
  <2> SUFFICES ASSUME NEW i \in 1..Len(t), t[i].role # "tool" PROVE TidyAt(t, i)
    BY <1>1 DEF Tidy
  <2>1. CASE i \in 1..Len(s)
    <3>1. TidyAt(s, i) /\ t[i] = s[i]
      BY <1>1, <1>2, <2>1 DEF Tidy
    <3>. QED
      BY <3>1 DEF TidyAt
  <2>. QED
    BY <1>2, <2>1
<1>6. Fit(t)
  <2> SUFFICES ASSUME NEW k \in 1..Len(t), NEW c \in 1..Len(t), ResultOf(t, k, c)
               PROVE  t[k].id \in Ids(t[c].calls) \cup {NoId}
    BY <1>1 DEF Fit
  <2>1. k \in 1..Len(s) /\ ResultOf(s, k, c) /\ c \in 1..Len(s)
    BY <1>2, <1>3, <1>4
  <2>. QED
    BY <1>1, <1>2, <2>1 DEF Fit
<1>7. ASSUME \A b \in DOMAIN s : s[b].role # "tool" => Answered(s, b) PROVE AnsweredSoFar(t)
  <2> SUFFICES ASSUME NEW c \in 1..Len(t), t[c].role # "tool", ~Lead(t, Len(t), c)
               PROVE  Answered(t, c)
    BY <1>1 DEF AnsweredSoFar
  <2>1. c \in 1..Len(s) /\ Answered(s, c)
    BY <1>1, <1>2, <1>3, <1>7
  <2>. QED
    BY <2>1, StaysAnswered
<1>8. ASSUME Once(s) PROVE Once(t)
  <2> SUFFICES ASSUME NEW k \in 1..Len(t), NEW c \in 1..Len(t), ResultOf(t, k, c)
               PROVE  /\ \A j \in c + 1..k - 1 : t[j].id # t[k].id
                      /\ t[k].id = NoId => Signed \in ToSet(t[c].calls)
    BY <1>1 DEF Once
  <2>1. k \in 1..Len(s) /\ ResultOf(s, k, c) /\ c \in 1..Len(s) /\ \A j \in c + 1..k - 1 : j \in 1..Len(s)
    BY <1>2, <1>3, <1>4
  <2>2. (\A j \in c + 1..k - 1 : s[j].id # s[k].id) /\ (s[k].id = NoId => Signed \in ToSet(s[c].calls))
    BY <1>1, <1>8, <2>1 DEF Once
  <2>. QED
    BY <1>2, <2>1, <2>2
<1>. QED
  BY <1>5, <1>6, <1>7, <1>8

-----------------------------------------------------------------------------
(* The first pass.                                                         *)

\* The last batch of out, and results behind it, are those of h's first i messages.
Mirrors(out, h, i, b, c) ==
  /\ Lead(out, Len(out), b) /\ Lead(h, i, c)
  /\ ToSet(out[b].calls) = ToSet(h[c].calls) \ {NoId}
  /\ \A j \in b + 1..Len(out) : \E l \in c + 1..i : h[l].id = out[j].id

\* What the first pass has of the first i messages.
CleanAs(h, i, acc) ==
  /\ acc \in Cleaned
  /\ \A id \in acc.valid : \E j \in 1..i : id \in Ids(h[j].calls)
  /\ Tidy(acc.out) /\ Fit(acc.out)
  /\ Once(h) => Once(acc.out)
  /\ i # 0 => /\ acc.out # <<>> /\ acc.out[1].role # "tool"
              /\ \E b, c : Mirrors(acc.out, h, i, b, c)
  /\ i = 0 => acc.out = <<>>

\* A message appended.
LEMMA AppendGoesOn ==
  ASSUME NEW s \in Seq(Parts), NEW d \in Parts
  PROVE  /\ GoesOn(s, Append(s, d)) /\ Len(Append(s, d)) = Len(s) + 1 /\ Len(s) \in Nat
         /\ Append(s, d)[Len(s) + 1] = d /\ Append(s, d) # <<>>
         /\ \A k \in Len(s) + 1..Len(Append(s, d)) : k = Len(s) + 1
<1>1. Len(s) \in Nat
  BY LenProperties
<1>. QED
  BY <1>1, AppendProperties DEF GoesOn

\* A history that starts with no result still does with a message more.
LEMMA FirstStays ==
  ASSUME NEW s \in Seq(Parts), NEW d \in Parts, s # <<>> => s[1].role # "tool",
         s = <<>> => d.role # "tool"
  PROVE  Append(s, d)[1].role # "tool"
<1>1. CASE s = <<>>
  <2>1. Len(s) + 1 = 1
    BY <1>1, EmptySeq
  <2>. QED
    BY <1>1, <2>1, AppendGoesOn
<1>2. CASE s # <<>>
  <2>1. 1 \in 1..Len(s)
    BY <1>2, EmptySeq, LenProperties
  <2>. QED
    BY <1>2, <2>1, AppendGoesOn DEF GoesOn
<1>. QED
  BY <1>1, <1>2

\* The first pass keeps what it has so far in order with one message more.
LEMMA CleanStep ==
  ASSUME NEW h \in Seq(Parts), NEW i \in 1..Len(h), h[1].role # "tool", InPlace(h),
         NEW acc, CleanAs(h, i - 1, acc)
  PROVE  CleanAs(h, i, Heed(acc, h[i]))
<1> DEFINE m == h[i]
           out == acc.out
           n == Len(out)
           g == Heed(acc, m)
<1>1. /\ m \in Parts /\ acc \in Cleaned /\ out \in Seq(Parts) /\ n \in Nat
      /\ Len(h) \in Nat /\ DOMAIN h = 1..Len(h) /\ i \in Nat /\ i - 1 \in Nat
  <2>1. acc \in Cleaned /\ out \in Seq(Parts)
    BY DEF CleanAs, Cleaned
  <2>. QED
    BY <2>1, LenProperties, ElementOfSeq
<1>2. /\ \A id \in acc.valid : \E j \in 1..i - 1 : id \in Ids(h[j].calls)
      /\ Tidy(out) /\ Fit(out) /\ (Once(h) => Once(out))
      /\ i # 1 => /\ out # <<>> /\ out[1].role # "tool"
                  /\ \E b, c : Mirrors(out, h, i - 1, b, c)
      /\ i = 1 => out = <<>>
  BY <1>1 DEF CleanAs
<1>3. \A j \in 1..i - 1 : j \in 1..i
  BY <1>1
<1>4. CASE m.role # "tool"
  <2>1. PICK d \in Parts : /\ d.role = m.role /\ d.id = m.id /\ d.calls = Without(m.calls, {NoId})
                           /\ g.out = Append(out, d) /\ g.valid = acc.valid \cup Ids(m.calls)
    BY <1>1, <1>4, HeedIs DEF Stray
  <2>2. g \in Cleaned
    BY <1>1, HeedIs
  <2> DEFINE t == Append(out, d)
  <2> HIDE DEF g
  <2>3. /\ GoesOn(out, t) /\ Len(t) = n + 1 /\ t[n + 1] = d /\ t # <<>>
    BY <1>1, AppendGoesOn
  <2>4. /\ ToSet(d.calls) = ToSet(m.calls) \ {NoId}
        /\ \A x, y \in DOMAIN d.calls : d.calls[x] = d.calls[y] => x = y
    <3>1. m.calls \in Seq(Called)
      BY <1>1 DEF Parts
    <3> DEFINE w == Without(m.calls, {NoId})
    <3>2. /\ ToSet(w) = ToSet(m.calls) \ {NoId}
          /\ \A x, y \in DOMAIN w : w[x] = w[y] => x = y
      BY <3>1, WithoutIs
    <3>3. d.calls = w
      BY <2>1
    <3> HIDE DEF w
    <3>. QED
      BY <3>2, <3>3
  <2>5. t[1].role # "tool"
    BY <1>1, <1>2, <1>4, <2>1, FirstStays
  <2> HIDE DEF t
  <2>6. TidyAt(t, Len(t))
    BY <2>3, <2>4 DEF TidyAt
  <2>7. Tidy(t) /\ Fit(t) /\ (Once(h) => Once(t)) /\ \A b : Lead(t, Len(t), b) <=> b = Len(t)
    BY <1>2, <1>4, <2>1, <2>3, <2>6, BegunFit, RunBegun
  <2>8. Mirrors(t, h, i, Len(t), i)
    <3>1. Lead(h, i, i)
      BY <1>1, <1>4 DEF Lead
    <3>2. \A j \in Len(t) + 1..Len(t) : FALSE
      BY <1>1, <2>3
    <3>. QED
      BY <2>3, <2>4, <2>7, <3>1, <3>2 DEF Mirrors
  <2>9. \A id \in g.valid : \E j \in 1..i : id \in Ids(h[j].calls)
    <3>1. i \in 1..i
      BY <1>1
    <3>. QED
      BY <1>2, <1>3, <2>1, <3>1
  <2>. QED
    BY <1>1, <2>1, <2>2, <2>3, <2>5, <2>7, <2>8, <2>9 DEF t, g, CleanAs
<1>5. CASE m.role = "tool"
  <2>1. i # 1 /\ out # <<>> /\ out[1].role # "tool"
    BY <1>2, <1>5
  <2>2. PICK b, c : Mirrors(out, h, i - 1, b, c)
    BY <1>2, <2>1
  <2>3. Lead(out, n, b) /\ Lead(h, i - 1, c) /\ ToSet(out[b].calls) = ToSet(h[c].calls) \ {NoId}
        /\ \A j \in b + 1..n : \E l \in c + 1..i - 1 : h[l].id = out[j].id
    BY <2>2 DEF Mirrors
  <2>4. Lead(h, i, c) /\ ResultOf(h, i, c) /\ c \in 1..Len(h)
    <3>1. c \in 1..i - 1 /\ h[c].role # "tool" /\ \A j \in c + 1..i - 1 : h[j].role = "tool"
      BY <2>3 DEF Lead
    <3>2. \A j \in c + 1..i : j = i \/ j \in c + 1..i - 1
      BY <1>1, <3>1
    <3>3. \A j \in c + 1..i : h[j].role = "tool"
      BY <1>5, <3>1, <3>2
    <3>. QED
      BY <1>1, <3>1, <3>3 DEF Lead, ResultOf
  <2>5. CASE Stray(acc, m)
    <3>1. g = acc
      BY <1>1, <2>5, HeedIs
    <3>2. \A l \in c + 1..i - 1 : l \in c + 1..i
      BY <1>1, <2>4
    <3>3. Mirrors(out, h, i, b, c)
      BY <2>3, <2>4, <3>2 DEF Mirrors
    <3> HIDE DEF g
    <3>. QED
      BY <1>1, <1>2, <1>3, <2>1, <3>1, <3>3 DEF CleanAs, g
  <2>6. CASE ~Stray(acc, m)
    <3>1. PICK d \in Parts : /\ d.role = m.role /\ d.id = m.id /\ d.calls = Without(m.calls, {NoId})
                             /\ g.out = Append(out, d) /\ g.valid = acc.valid \cup Ids(m.calls)
      BY <1>1, <2>6, HeedIs
    <3>2. g \in Cleaned
      BY <1>1, HeedIs
    <3> DEFINE t == Append(out, d)
    <3> HIDE DEF g
    <3>3. /\ GoesOn(out, t) /\ Len(t) = n + 1 /\ t[n + 1] = d /\ t # <<>>
          /\ \A k \in n + 1..Len(t) : k = n + 1
      BY <1>1, AppendGoesOn
    <3>4. t[1].role # "tool"
      BY <1>1, <2>1, FirstStays
    <3> HIDE DEF t
    <3>5. m.id \in Ids(out[b].calls) \cup {NoId}
      <4>1. \/ m.id \in Ids(h[c].calls) \cup {NoId}
            \/ \A j \in 1..i - 1 : m.id \notin Ids(h[j].calls)
        BY <1>1, <2>4 DEF InPlace
      <4>2. m.id = NoId \/ \E j \in 1..i - 1 : m.id \in Ids(h[j].calls)
        BY <1>2, <1>5, <2>6 DEF Stray
      <4>3. Ids(h[c].calls) = Ids(out[b].calls)
        BY <2>3 DEF Ids
      <4>. QED
        BY <4>1, <4>2, <4>3
    <3>6. Tidy(t) /\ Fit(t)
      BY <1>2, <1>5, <2>3, <3>1, <3>3, <3>5, AddedFit
    <3>7. ASSUME Once(h) PROVE Once(t)
      <4>1. /\ \A l \in c + 1..i - 1 : h[l].id # m.id
            /\ m.id = NoId => Signed \in ToSet(h[c].calls)
        BY <1>1, <2>4, <3>7 DEF Once
      <4>2. \A j \in b + 1..n : out[j].id # m.id
        BY <2>3, <4>1
      <4>3. \A j \in b + 1..n : t[j] = out[j]
        BY <1>1, <2>3, <3>3 DEF GoesOn, Lead
      <4>4. \A j \in b + 1..(n + 1) - 1 : t[j].id # t[n + 1].id
        BY <1>1, <3>1, <3>3, <4>2, <4>3
      <4>5. t[n + 1].id = NoId => Signed \in ToSet(out[b].calls)
        BY <2>3, <3>1, <3>3, <4>1, IdsAssumption
      <4>6. \A k \in n + 1..Len(t) :
              /\ t[k].role = "tool"
              /\ \A j \in b + 1..k - 1 : t[j].id # t[k].id
              /\ t[k].id = NoId => Signed \in ToSet(out[b].calls)
        BY <1>5, <3>1, <3>3, <4>4, <4>5
      <4>. QED
        BY <1>2, <2>3, <3>3, <3>7, <4>6, AddedOnce
    <3>8. Mirrors(t, h, i, b, c)
      <4>1. Lead(t, Len(t), b)
        BY <1>5, <2>3, <3>1, <3>3, ResultsAdded
      <4>2. t[b] = out[b]
        BY <2>3, <3>3 DEF GoesOn, Lead
      <4>3. ASSUME NEW j \in b + 1..Len(t) PROVE \E l \in c + 1..i : h[l].id = t[j].id
        <5>1. CASE j = n + 1
          <6>1. i \in c + 1..i
            BY <1>1, <2>4 DEF ResultOf
          <6>. QED
            BY <3>1, <3>3, <5>1, <6>1
        <5>2. CASE j # n + 1
          <6>1. j \in b + 1..n /\ j \in 1..n
            BY <1>1, <2>3, <3>3, <5>2 DEF Lead
          <6>2. PICK l \in c + 1..i - 1 : h[l].id = out[j].id
            BY <2>3, <6>1
          <6>3. l \in c + 1..i /\ t[j] = out[j]
            BY <1>1, <2>4, <3>3, <6>1 DEF GoesOn
          <6>. QED
            BY <6>2, <6>3
        <5>. QED
          BY <5>1, <5>2
      <4>. QED
        BY <2>3, <2>4, <4>1, <4>2, <4>3 DEF Mirrors
    <3>9. \A id \in g.valid : \E j \in 1..i : id \in Ids(h[j].calls)
      <4>1. i \in 1..i
        BY <1>1
      <4>. QED
        BY <1>2, <1>3, <3>1, <4>1
    <3>. QED
      BY <1>1, <3>1, <3>2, <3>3, <3>4, <3>6, <3>7, <3>8, <3>9 DEF t, g, CleanAs
  <2>. QED
    BY <2>5, <2>6
<1>. QED
  BY <1>4, <1>5

\* What the first pass makes of a history: calls have ids of their own, results
\* are of calls of the batch they are behind, and it answers nothing again.
LEMMA CleanIs ==
  ASSUME NEW h \in Seq(Parts), h # <<>>, h[1].role # "tool", InPlace(h)
  PROVE  /\ Clean(h) \in Seq(Parts) /\ Tidy(Clean(h)) /\ Fit(Clean(h))
         /\ Clean(h) # <<>> /\ Clean(h)[1].role # "tool"
         /\ Once(h) => Once(Clean(h))
<1>1. PICK acc : /\ acc[0] = [out |-> <<>>, valid |-> {}]
                 /\ \A i \in 1..Len(h) : acc[i] = Heed(acc[i - 1], h[i])
                 /\ Clean(h) = acc[Len(h)].out
  BY CleanRuns
<1>2. Len(h) \in Nat /\ Len(h) # 0
  BY EmptySeq
<1> DEFINE T == {i \in 0..Len(h) : CleanAs(h, i, acc[i])}
<1>3. 0 \in T
  <2>1. DOMAIN <<>> = {} /\ <<>> \in Seq(Parts)
    BY EmptySeq
  <2>2. CleanAs(h, 0, [out |-> <<>>, valid |-> {}])
    BY <2>1 DEF CleanAs, Cleaned, Tidy, Fit, Once
  <2>. QED
    BY <1>1, <1>2, <2>2
<1>4. \A i \in 1..Len(h) : i - 1 \in T => i \in T
  <2> TAKE i \in 1..Len(h)
  <2> HAVE i - 1 \in T
  <2>1. CleanAs(h, i - 1, acc[i - 1])
    OBVIOUS
  <2>2. CleanAs(h, i, Heed(acc[i - 1], h[i]))
    BY <2>1, CleanStep
  <2>. QED
    BY <1>1, <1>2, <2>2
<1>5. CleanAs(h, Len(h), acc[Len(h)])
  <2>1. \A i \in 0..Len(h) : i \in T
    <3> HIDE DEF T
    <3>. QED
      BY <1>2, <1>3, <1>4, Climb
  <2>. QED
    BY <1>2, <2>1
<1>. QED
  BY <1>1, <1>2, <1>5 DEF CleanAs, Cleaned

-----------------------------------------------------------------------------
(* The second pass.                                                        *)

\* The last batch of out is that of s's first i messages, and has had the same results.
Copies(acc, s, i, b, c) ==
  /\ Lead(acc.out, Len(acc.out), b) /\ Lead(s, i, c)
  /\ acc.out[b].calls = acc.calls /\ s[c].calls = acc.calls
  /\ acc.answered = {acc.out[j].id : j \in b + 1..Len(acc.out)}
  /\ acc.answered = {s[j].id : j \in c + 1..i}

\* What the second pass has of the first i messages.
FillAs(s, i, acc) ==
  /\ acc \in Filling
  /\ Tidy(acc.out) /\ Fit(acc.out) /\ AnsweredSoFar(acc.out)
  /\ Once(s) => Once(acc.out)
  /\ i # 0 => \E b, c : Copies(acc, s, i, b, c)
  /\ i = 0 => acc.out = <<>> /\ acc.calls = <<>>

\* When a run has ended, the calls it has no result of get one.
LEMMA FlushAnswers ==
  ASSUME NEW s, NEW i, NEW acc, FillAs(s, i, acc)
  PROVE  /\ Flush(acc) \in Seq(Parts) /\ Tidy(Flush(acc)) /\ Fit(Flush(acc))
         /\ \A b \in DOMAIN Flush(acc) : Flush(acc)[b].role # "tool" => Answered(Flush(acc), b)
         /\ Once(s) => Once(Flush(acc))
<1> DEFINE out == acc.out
           n == Len(out)
           due == Due(acc)
           f == Flush(acc)
<1>1. acc \in Filling /\ out \in Seq(Parts) /\ n \in Nat /\ acc.calls \in Seq(Called)
      /\ DOMAIN out = 1..n
  <2>1. acc \in Filling /\ out \in Seq(Parts) /\ acc.calls \in Seq(Called)
    BY DEF FillAs, Filling
  <2>. QED
    BY <2>1, LenProperties
<1>2. /\ due \in Seq(Called)
      /\ ToSet(due) = ToSet(acc.calls) \ ({Signed} \cup acc.answered)
      /\ \A x, y \in DOMAIN due : due[x] = due[y] => x = y
  <2> DEFINE cs == acc.calls
             drop == {Signed} \cup acc.answered
             w == Without(cs, drop)
  <2>1. /\ w \in Seq(Called) /\ ToSet(w) = ToSet(cs) \ drop
        /\ \A x, y \in DOMAIN w : w[x] = w[y] => x = y
    <3>1. cs \in Seq(Called)
      BY <1>1
    <3> HIDE DEF cs, drop
    <3>. QED
      BY <3>1, WithoutIs
  <2>2. due = w
    BY DEF Due
  <2> HIDE DEF due, w
  <2>. QED
    BY <2>1, <2>2
<1>3. PICK u \in Seq(Parts) :
        /\ f = out \o u /\ Len(u) = Len(due)
        /\ \A j \in 1..Len(u) : u[j].role = "tool" /\ u[j].id = due[j] /\ u[j].calls = <<>>
  BY <1>1, FlushIs
<1> HIDE DEF due, f
<1>4. DOMAIN due = 1..Len(due) /\ Len(due) \in Nat /\ ToSet(due) = {due[x] : x \in 1..Len(due)}
  BY <1>2, LenProperties DEF ToSet
<1>5. CASE i = 0
  <2>1. out = <<>> /\ acc.calls = <<>>
    BY <1>5 DEF FillAs
  <2>2. ToSet(acc.calls) = {}
    BY <2>1 DEF ToSet
  <2>3. Len(u) = 0
    <3>1. ASSUME 1 \in 1..Len(due) PROVE FALSE
      <4>1. due[1] \in ToSet(due)
        BY <1>4, <3>1
      <4>2. ToSet(due) = {}
        BY <1>2, <2>2
      <4>. QED
        BY <4>1, <4>2
    <3>. QED
      BY <1>3, <1>4, <3>1
  <2>4. f = <<>> /\ DOMAIN f = {} /\ f \in Seq(Parts)
    BY <1>3, <2>1, <2>3, EmptySeq
  <2>5. Tidy(f) /\ Fit(f) /\ Once(f)
    BY <2>4 DEF Tidy, Fit, Once
  <2>. QED
    BY <2>4, <2>5 DEF f
<1>6. CASE i # 0
  <2>1. /\ Tidy(out) /\ Fit(out) /\ AnsweredSoFar(out) /\ (Once(s) => Once(out))
        /\ \E b, c : Copies(acc, s, i, b, c)
    BY <1>6 DEF FillAs
  <2>2. PICK b, c : Copies(acc, s, i, b, c)
    BY <2>1
  <2>3. /\ Lead(out, n, b) /\ out[b].calls = acc.calls
        /\ acc.answered = {out[j].id : j \in b + 1..n}
    BY <2>2 DEF Copies
  <2>4. b \in 1..n /\ out[b].role # "tool"
    BY <2>3 DEF Lead
  <2> HIDE DEF out, n
  <2>5. /\ f \in Seq(Parts) /\ Len(f) = n + Len(u)
        /\ \A j \in 1..n : f[j] = out[j]
        /\ \A j \in 1..Len(u) : f[n + j] = u[j]
    <3>1. Len(u) \in Nat
      BY LenProperties
    <3>2. /\ out \o u \in Seq(Parts) /\ Len(out \o u) = Len(out) + Len(u)
          /\ \A j \in 1..Len(out) + Len(u) : (out \o u)[j] = IF j <= Len(out) THEN out[j] ELSE u[j - Len(out)]
      BY <1>1, ConcatProperties
    <3>3. Len(out) = n
      BY DEF n
    <3>4. /\ f \in Seq(Parts) /\ Len(f) = n + Len(u)
          /\ \A j \in 1..n + Len(u) : f[j] = IF j <= n THEN out[j] ELSE u[j - n]
      BY <1>3, <3>2, <3>3
    <3>. QED
      BY <1>1, <3>1, <3>4
  <2>6. GoesOn(out, f) /\ DOMAIN f = 1..Len(f) /\ Len(f) \in Nat /\ Len(out) = n
    BY <1>1, <1>3, <1>4, <2>5, LenProperties DEF GoesOn, n
  <2>7. ASSUME NEW k \in n + 1..Len(f)
        PROVE  /\ k - n \in 1..Len(due) /\ f[k].role = "tool" /\ f[k].id = due[k - n]
               /\ f[k].id \in ToSet(acc.calls) /\ f[k].id \notin acc.answered /\ f[k].id # Signed
    <3>1. k - n \in 1..Len(u) /\ n + (k - n) = k
      BY <1>1, <1>3, <1>4, <2>5
    <3>2. f[k] = u[k - n]
      BY <2>5, <3>1
    <3> DEFINE x == k - n
    <3>3. x \in 1..Len(due) /\ x \in 1..Len(u) /\ f[k] = u[x]
      BY <1>3, <3>1, <3>2
    <3> HIDE DEF x
    <3>4. f[k].role = "tool" /\ f[k].id = due[x] /\ due[x] \in ToSet(due)
      BY <1>3, <1>4, <3>3
    <3>5. f[k].id \in ToSet(acc.calls) /\ f[k].id \notin acc.answered /\ f[k].id # Signed
      BY <1>2, <3>4
    <3>. QED
      BY <3>3, <3>4, <3>5 DEF x
  <2>8. NoId \notin ToSet(acc.calls)
    BY <1>1, <2>1, <2>3, <2>4 DEF Tidy, TidyAt
  <2>9. \A k \in n + 1..Len(f) : f[k].role = "tool" /\ f[k].id \in Ids(out[b].calls) \cup {NoId}
    BY <2>3, <2>7, <2>8 DEF Ids
  <2>10. Tidy(f) /\ Fit(f) /\ AnsweredSoFar(f)
    BY <2>1, <2>3, <2>6, <2>9, AddedFit
  <2>11. /\ \A k \in 1..n : \A d : ResultOf(f, k, d) <=> ResultOf(out, k, d)
         /\ \A k \in n + 1..Len(f) : \A d : ResultOf(f, k, d) <=> Lead(out, n, d)
         /\ \A d : Lead(f, Len(f), d) <=> Lead(out, n, d)
    BY <2>6, <2>9, StaysResult, ResultsAdded
  <2>12. Answered(f, b)
    <3> SUFFICES ASSUME NEW id \in Ids(f[b].calls)
                 PROVE  \E k \in 1..Len(f) : ResultOf(f, k, b) /\ f[k].id = id
      BY <2>6 DEF Answered
    <3>1. f[b].calls = acc.calls
      BY <2>3, <2>4, <2>5
    <3>2. id \in ToSet(acc.calls) /\ id # Signed
      BY <3>1 DEF Ids
    <3>3. CASE id \in acc.answered
      <4>1. PICK j \in b + 1..n : id = out[j].id
        BY <2>3, <3>3
      <4>2. j \in 1..n /\ ResultOf(out, j, b)
        <5>1. j \in 1..n /\ b \in 1..j - 1 /\ \A l \in b + 1..j : l \in b + 1..n
          BY <1>1, <2>4, <4>1
        <5>. QED
          BY <2>3, <5>1 DEF Lead, ResultOf
      <4>3. j \in 1..Len(f) /\ f[j] = out[j]
        BY <1>1, <1>3, <1>4, <2>5, <4>2
      <4>. QED
        BY <2>11, <4>1, <4>2, <4>3
    <3>4. CASE id \notin acc.answered
      <4>1. PICK x \in 1..Len(due) : id = due[x]
        BY <1>2, <1>4, <3>2, <3>4
      <4>2. n + x \in n + 1..Len(f) /\ n + x \in 1..Len(f) /\ (n + x) - n = x
        BY <1>1, <1>3, <1>4, <2>5
      <4>3. f[n + x].id = due[x]
        BY <2>7, <4>2
      <4>. QED
        BY <2>3, <2>11, <4>1, <4>2, <4>3
    <3>. QED
      BY <3>3, <3>4
  <2>13. ASSUME NEW d \in DOMAIN f, f[d].role # "tool" PROVE Answered(f, d)
    <3>1. CASE Lead(f, Len(f), d)
      <4>1. d = b
        BY <1>1, <2>3, <2>11, <3>1, LeadUnique
      <4>. QED
        BY <2>12, <4>1
    <3>2. CASE ~Lead(f, Len(f), d)
      BY <2>10, <2>13, <3>2 DEF AnsweredSoFar
    <3>. QED
      BY <3>1, <3>2
  <2>14. ASSUME Once(s) PROVE Once(f)
    <3>1. ASSUME NEW k \in n + 1..Len(f), NEW j \in b + 1..k - 1 PROVE f[j].id # f[k].id
      <4>1. CASE j <= n
        <5>1. j \in b + 1..n /\ j \in 1..n
          BY <1>1, <2>4, <3>1, <4>1
        <5>2. f[j].id \in acc.answered
          BY <2>3, <2>5, <5>1
        <5>. QED
          BY <2>7, <5>2
      <4>2. CASE ~(j <= n)
        <5>1. j \in n + 1..Len(f) /\ j - n # k - n
          BY <1>1, <2>4, <2>6, <3>1, <4>2
        <5>2. f[j].id = due[j - n] /\ j - n \in 1..Len(due) /\ f[k].id = due[k - n] /\ k - n \in 1..Len(due)
          BY <2>7, <5>1
        <5> DEFINE x == j - n
                   y == k - n
        <5>3. due[x] # due[y]
          <6>1. x # y /\ x \in 1..Len(due) /\ y \in 1..Len(due)
            BY <5>1, <5>2
          <6> HIDE DEF x, y
          <6>. QED
            BY <1>2, <1>4, <6>1
        <5>. QED
          BY <5>2, <5>3
      <4>. QED
        BY <4>1, <4>2
    <3>2. \A k \in n + 1..Len(f) :
            /\ f[k].role = "tool"
            /\ \A j \in b + 1..k - 1 : f[j].id # f[k].id
            /\ f[k].id = NoId => Signed \in ToSet(out[b].calls)
      BY <2>7, <2>8, <3>1
    <3>3. Once(out)
      BY <2>1, <2>14
    <3>. QED
      BY <2>3, <2>6, <3>2, <3>3, AddedOnce
  <2>. QED
    BY <2>5, <2>10, <2>13, <2>14 DEF f
<1>. QED
  BY <1>5, <1>6

\* A message is copied.
LEMMA FillStep ==
  ASSUME NEW s \in Seq(Parts), NEW i \in 1..Len(s), s[1].role # "tool", Tidy(s), Fit(s),
         NEW acc, FillAs(s, i - 1, acc)
  PROVE  FillAs(s, i, Put(acc, s[i]))
<1> DEFINE m == s[i]
           out == acc.out
           n == Len(out)
           g == Put(acc, m)
<1>1. /\ m \in Parts /\ acc \in Filling /\ out \in Seq(Parts) /\ n \in Nat
      /\ Len(s) \in Nat /\ DOMAIN s = 1..Len(s) /\ i \in Nat /\ i - 1 \in Nat /\ i # 0
  <2>1. acc \in Filling /\ out \in Seq(Parts)
    BY DEF FillAs, Filling
  <2>. QED
    BY <2>1, LenProperties, ElementOfSeq
<1>2. /\ Tidy(out) /\ Fit(out) /\ AnsweredSoFar(out) /\ (Once(s) => Once(out))
      /\ i # 1 => \E b, c : Copies(acc, s, i - 1, b, c)
  BY <1>1 DEF FillAs
<1>3. CASE m.role # "tool"
  <2> DEFINE f == Flush(acc)
             t == Append(f, m)
  <2>1. /\ g \in Filling /\ g.out = t /\ g.calls = m.calls /\ g.answered = {}
    <3> HIDE DEF m
    <3>1. /\ Put(acc, m) \in Filling /\ Put(acc, m).out = Append(Flush(acc), m)
          /\ Put(acc, m).calls = m.calls /\ Put(acc, m).answered = {}
      BY <1>1, <1>3, PutIs
    <3>. QED
      BY <3>1
  <2>2. /\ f \in Seq(Parts) /\ Tidy(f) /\ Fit(f)
        /\ \A b \in DOMAIN f : f[b].role # "tool" => Answered(f, b)
        /\ Once(s) => Once(f)
    BY FlushAnswers
  <2> HIDE DEF g, f
  <2>3. GoesOn(f, t) /\ Len(t) = Len(f) + 1 /\ t[Len(f) + 1] = m /\ Len(f) \in Nat
    BY <1>1, <2>2, AppendGoesOn
  <2> HIDE DEF t
  <2>4. TidyAt(t, Len(t))
    <3>1. TidyAt(s, i)
      BY <1>1, <1>3 DEF Tidy
    <3>2. t[Len(t)] = s[i]
      BY <2>3
    <3>. QED
      BY <3>1, <3>2 DEF TidyAt
  <2>5. t[Len(t)].role # "tool"
    BY <1>3, <2>3
  <2>6. Tidy(t) /\ Fit(t) /\ AnsweredSoFar(t) /\ (Once(s) => Once(t))
    BY <2>2, <2>3, <2>4, <2>5, BegunFit
  <2>7. Copies(g, s, i, Len(t), i)
    <3>1. Lead(t, Len(t), Len(t)) /\ Lead(s, i, i)
      BY <1>1, <1>3, <2>3, <2>5, RunBegun DEF Lead
    <3>2. {t[j].id : j \in Len(t) + 1..Len(t)} = {} /\ {s[j].id : j \in i + 1..i} = {}
      BY <1>1, <2>3
    <3>. QED
      BY <2>1, <2>3, <3>1, <3>2 DEF Copies
  <2>. QED
    BY <1>1, <2>1, <2>6, <2>7 DEF FillAs, g
<1>4. CASE m.role = "tool"
  <2> DEFINE t == Append(out, m)
  <2>1. i # 1
    BY <1>4
  <2>2. PICK b, c : Copies(acc, s, i - 1, b, c)
    BY <1>2, <2>1
  <2>3. /\ Lead(out, n, b) /\ Lead(s, i - 1, c) /\ out[b].calls = acc.calls /\ s[c].calls = acc.calls
        /\ acc.answered = {out[j].id : j \in b + 1..n}
        /\ acc.answered = {s[j].id : j \in c + 1..i - 1}
    BY <2>2 DEF Copies
  <2>4. Lead(s, i, c) /\ ResultOf(s, i, c) /\ c \in 1..Len(s) /\ c \in 1..i - 1
    <3>1. c \in 1..i - 1 /\ s[c].role # "tool" /\ \A j \in c + 1..i - 1 : s[j].role = "tool"
      BY <2>3 DEF Lead
    <3>2. \A j \in c + 1..i : j = i \/ j \in c + 1..i - 1
      BY <1>1, <3>1
    <3>3. \A j \in c + 1..i : s[j].role = "tool"
      BY <1>4, <3>1, <3>2
    <3>. QED
      BY <1>1, <3>1, <3>3 DEF Lead, ResultOf
  <2>5. g \in Filling /\ g.out = t /\ g.calls = acc.calls /\ g.answered = acc.answered \cup {m.id}
    BY <1>1, <1>4, PutIs
  <2> HIDE DEF g
  <2>6. /\ GoesOn(out, t) /\ Len(t) = n + 1 /\ t[n + 1] = m
        /\ \A k \in n + 1..Len(t) : k = n + 1
    BY <1>1, AppendGoesOn
  <2> HIDE DEF t
  <2>7. m.id \in Ids(out[b].calls) \cup {NoId}
    BY <1>1, <2>3, <2>4 DEF Fit
  <2>8. Tidy(t) /\ Fit(t) /\ AnsweredSoFar(t)
    BY <1>2, <1>4, <2>3, <2>6, <2>7, AddedFit
  <2>9. b \in 1..n /\ \A j \in b + 1..n : j \in 1..n /\ t[j] = out[j]
    <3>1. b \in 1..n /\ \A j \in b + 1..n : j \in 1..n
      BY <1>1, <2>3 DEF Lead
    <3>. QED
      BY <2>6, <3>1 DEF GoesOn
  <2>10. ASSUME Once(s) PROVE Once(t)
    <3>1. /\ \A l \in c + 1..i - 1 : s[l].id # m.id
          /\ m.id = NoId => Signed \in ToSet(s[c].calls)
      BY <1>1, <2>4, <2>10 DEF Once
    <3>2. ASSUME NEW j \in b + 1..n PROVE out[j].id # m.id
      <4>1. out[j].id \in acc.answered
        BY <2>3
      <4>2. m.id \notin acc.answered
        <5> HIDE DEF m
        <5>. QED
          BY <2>3, <3>1
      <4>. QED
        BY <4>1, <4>2
    <3>3. \A j \in b + 1..(n + 1) - 1 : t[j].id # t[n + 1].id
      BY <1>1, <2>6, <2>9, <3>2
    <3>4. t[n + 1].id = NoId => Signed \in ToSet(out[b].calls)
      BY <2>3, <2>6, <3>1
    <3>5. \A k \in n + 1..Len(t) :
            /\ t[k].role = "tool"
            /\ \A j \in b + 1..k - 1 : t[j].id # t[k].id
            /\ t[k].id = NoId => Signed \in ToSet(out[b].calls)
      BY <1>4, <2>6, <3>3, <3>4
    <3>. QED
      BY <1>2, <2>3, <2>6, <2>10, <3>5, AddedOnce
  <2>11. Copies(g, s, i, b, c)
    <3>1. Lead(t, Len(t), b)
      BY <1>4, <2>3, <2>6, ResultsAdded
    <3>2. t[b] = out[b]
      BY <2>6, <2>9 DEF GoesOn
    <3>3. {t[j].id : j \in b + 1..Len(t)} = acc.answered \cup {m.id}
      <4>1. b + 1..Len(t) = (b + 1..n) \cup {n + 1}
        BY <1>1, <2>6, <2>9
      <4>2. {t[j].id : j \in b + 1..Len(t)} = {t[j].id : j \in b + 1..n} \cup {t[n + 1].id}
        BY <4>1
      <4>3. {t[j].id : j \in b + 1..n} = {out[j].id : j \in b + 1..n}
        BY <2>9
      <4>. QED
        BY <2>3, <2>6, <4>2, <4>3
    <3>4. {s[j].id : j \in c + 1..i} = acc.answered \cup {m.id}
      <4>1. c + 1..i = (c + 1..i - 1) \cup {i}
        BY <1>1, <2>4
      <4>. QED
        BY <2>3, <4>1
    <3>. QED
      BY <2>3, <2>4, <2>5, <3>1, <3>2, <3>3, <3>4 DEF Copies
  <2>. QED
    BY <1>1, <2>5, <2>8, <2>10, <2>11 DEF FillAs, g
<1>. QED
  BY <1>3, <1>4

\* The second pass answers each call of a tidy history.
LEMMA FillIs ==
  ASSUME NEW s \in Seq(Parts), s # <<>>, s[1].role # "tool", Tidy(s), Fit(s)
  PROVE  Sendable(Fill(s)) /\ (Once(s) => Once(Fill(s)))
<1>1. PICK acc : /\ acc[0] = [out |-> <<>>, calls |-> <<>>, answered |-> {}]
                 /\ \A i \in 1..Len(s) : acc[i] = Put(acc[i - 1], s[i])
                 /\ Fill(s) = Flush(acc[Len(s)])
  BY FillRuns
<1>2. Len(s) \in Nat
  BY LenProperties
<1> DEFINE T == {i \in 0..Len(s) : FillAs(s, i, acc[i])}
<1>3. 0 \in T
  <2>1. DOMAIN <<>> = {} /\ <<>> \in Seq(Parts) /\ <<>> \in Seq(Called)
    BY EmptySeq
  <2>2. FillAs(s, 0, [out |-> <<>>, calls |-> <<>>, answered |-> {}])
    BY <2>1 DEF FillAs, Filling, Tidy, Fit, AnsweredSoFar, Once
  <2>. QED
    BY <1>1, <1>2, <2>2
<1>4. \A i \in 1..Len(s) : i - 1 \in T => i \in T
  <2> TAKE i \in 1..Len(s)
  <2> HAVE i - 1 \in T
  <2>1. FillAs(s, i - 1, acc[i - 1])
    OBVIOUS
  <2>2. FillAs(s, i, Put(acc[i - 1], s[i]))
    BY <2>1, FillStep
  <2>. QED
    BY <1>1, <1>2, <2>2
<1>5. FillAs(s, Len(s), acc[Len(s)])
  <2>1. \A i \in 0..Len(s) : i \in T
    <3> HIDE DEF T
    <3>. QED
      BY <1>2, <1>3, <1>4, Climb
  <2>. QED
    BY <1>2, <2>1
<1> DEFINE f == Flush(acc[Len(s)])
<1>6. /\ f \in Seq(Parts) /\ Tidy(f) /\ Fit(f)
      /\ \A b \in DOMAIN f : f[b].role # "tool" => Answered(f, b)
      /\ Once(s) => Once(f)
  BY <1>5, FlushAnswers
<1> HIDE DEF f
<1>7. Sendable(f)
  BY <1>6, SendableIs
<1>. QED
  BY <1>1, <1>6, <1>7 DEF f

\* A repaired history can be sent, and answers nothing again (repairToolCalls).
LEMMA RepairIs ==
  ASSUME NEW h \in Seq(Parts), h # <<>>, h[1].role # "tool", InPlace(h)
  PROVE  Sendable(Repair(h)) /\ (Once(h) => Once(Repair(h)))
BY CleanIs, FillIs DEF Repair

-----------------------------------------------------------------------------
\* What a base remembers, and what a line will say, stay true.
LEMMA LogInductive == Spec => []LogInv
<1> DEFINE J == Held /\ Planned /\ Waiting
<1>1. Init => J
  BY DEF Init, Held, Planned, Waiting, Busy
<1>2. IInv /\ IInv' /\ J /\ [Next]_vars => J'
  <2> SUFFICES ASSUME LogInv, IInv', [Next]_vars PROVE J'
    BY DEF LogInv
  <2>1. CASE Next
    <3>1. PICK w \in Writers : Act(w)
      BY <2>1 DEF Next, Act
    <3>. QED
      BY <3>1, HeldStep, PlannedStep, WaitingStep
  <2>2. CASE UNCHANGED vars
    <3>1. UNCHANGED <<file, wpc, req, rec, old, snap, end>>
      BY <2>2 DEF vars, store, call
    <3>. QED
      BY <3>1 DEF LogInv, Held, Planned, Waiting, Busy
  <2>. QED
    BY <2>1, <2>2
<1>3. IInv /\ J <=> LogInv
  BY DEF LogInv
<1>4. Spec => []IInv
  BY Inductive
<1> HIDE DEF J
<1>. QED
  BY <1>1, <1>2, <1>3, <1>4, PTL DEF Spec

\* LoadMessages finds the last history that was saved and the turns that were
\* logged, deltas and checkpoints notwithstanding, whichever process saved and
\* whatever failed or died: with flock, the file implements ReplayLog.
THEOREM LogImplemented == ASSUME Locking PROVE Spec => LogSpec
<1>1. Init => Log!Init
  <2> SUFFICES ASSUME Init PROVE Log!Init
    OBVIOUS
  <2>1. Scan(file).off = 0 /\ Scan(file).turns = <<>>
    BY ScanEmpty DEF Init, Start
  <2>. QED
    BY <2>1 DEF Init, Log!Init
<1>2. LogInv /\ LogInv' /\ [Next]_vars => [Log!Next]_Log!vars
  <2> SUFFICES ASSUME LogInv, LogInv', [Next]_vars PROVE Log!Next \/ UNCHANGED Log!vars
    OBVIOUS
  <2>1. CASE Next
    <3>1. PICK w \in Writers : Act(w)
      BY <2>1 DEF Next, Act
    <3>. QED
      BY <3>1, LogStep
  <2>2. CASE UNCHANGED vars
    BY <2>2 DEF vars, store, call, Log!vars
  <2>. QED
    BY <2>1, <2>2
<1>3. Spec => []LogInv
  BY LogInductive
<1>. QED
  BY <1>1, <1>2, <1>3, PTL DEF Spec, LogSpec, Log!Spec

-----------------------------------------------------------------------------
(* What a file that loads holds.                                           *)

\* A reader of f finds a history that was saved, or none, and turns that were.
Known(f) == Scan(f).snap \in Histories \cup {<<>>} /\ Scan(f).turns \in Seq(Turns)

Kept == Known(file) /\ Known(Cut(file))

\* A line that is cut off says nothing.
LEMMA CutLanded ==
  ASSUME IInv, open = FALSE, NEW line \in Lines
  PROVE  Cut(Land(line)) = Append(file, Torn) /\ Scan(Append(file, Torn)) = Scan(file)
<1>1. file \in Seq(Lines) /\ Len(file) \in Nat /\ Scan(file) \in Readings
  BY FileRead DEF IInv, TypeOK
<1>2. Torn \in Lines /\ Torn.type = "torn"
  BY EmptySeq DEF Torn, Lines
<1>3. Land(line) = Append(file, line)
  BY DEF Land
<1>4. Cut(Append(file, line)) = Append(file, Torn)
  <2> DEFINE f == Append(file, line)
             g == Append(file, Torn)
  <2>1. /\ f \in Seq(Lines) /\ Len(f) = Len(file) + 1 /\ \A i \in 1..Len(file) : f[i] = file[i]
        /\ g \in Seq(Lines) /\ Len(g) = Len(file) + 1 /\ \A i \in 1..Len(file) : g[i] = file[i]
        /\ g[Len(file) + 1] = Torn
    BY <1>1, <1>2, AppendProperties
  <2> HIDE DEF f, g
  <2>2. f # <<>> /\ Len(f) \in 1..Len(f)
    BY <1>1, <2>1, EmptySeq
  <2>3. /\ Cut(f) \in Seq(Lines) /\ Len(Cut(f)) = Len(f)
        /\ \A j \in 1..Len(f) : Cut(f)[j] = IF j = Len(f) THEN Torn ELSE f[j]
    <3>1. Cut(f) = [f EXCEPT ![Len(f)] = Torn]
      BY <2>2 DEF Cut
    <3>. QED
      BY <1>2, <2>1, <2>2, <3>1, ExceptSeq
  <2>4. \A j \in 1..Len(f) : Cut(f)[j] = g[j]
    BY <1>1, <2>1, <2>3
  <2>5. Cut(f) = g
    BY <2>1, <2>3, <2>4, SeqEqual
  <2>. QED
    BY <2>5 DEF f, g
<1>5. Scan(Append(file, Torn)) = Scan(file)
  <2> DEFINE g == Append(file, Torn)
  <2>1. /\ Len(g) = Len(file) + 1 /\ \A i \in 1..Len(file) : g[i] = file[i]
        /\ g[Len(file) + 1] = Torn
    BY <1>1, <1>2, AppendProperties
  <2> HIDE DEF g
  <2>2. Scan(g) = Visit(Scan(file), Torn, Len(file) + 1)
    BY <1>1, <2>1, ScanAppend
  <2>3. Follows(Scan(file), Torn, Len(file) + 1, Scan(g))
    BY <1>1, <1>2, <2>2, VisitIs
  <2>. QED
    BY <1>2, <2>3 DEF Follows, g
<1>. QED
  BY <1>3, <1>4, <1>5

\* What is written behind an unfinished line leaves the file as if cut.
LEMMA SpoiledIsCut ==
  ASSUME TypeOK, open = TRUE, NEW line PROVE Land(line) = Cut(file) /\ Cut(Cut(file)) = Cut(file)
<1>1. file \in Seq(Lines) /\ Len(file) \in Nat /\ file \in [1..Len(file) -> Lines]
  BY LenProperties DEF TypeOK
<1>2. Torn \in Lines
  BY EmptySeq DEF Torn, Lines
<1>3. Land(line) = [file EXCEPT ![Len(file)] = Torn]
  BY DEF Land
<1>4. CASE file = <<>>
  <2>1. Len(file) = 0
    BY <1>4, EmptySeq
  <2>2. [file EXCEPT ![Len(file)] = Torn] = file
    BY <1>1, <2>1
  <2>. QED
    BY <1>3, <1>4, <2>2 DEF Cut
<1>5. CASE file # <<>>
  <2> DEFINE c == [file EXCEPT ![Len(file)] = Torn]
  <2>1. Len(file) \in 1..Len(file)
    BY <1>1, <1>5, EmptySeq
  <2>2. c \in Seq(Lines) /\ Len(c) = Len(file)
    BY <1>1, <1>2, <2>1, ExceptSeq
  <2>3. [c EXCEPT ![Len(c)] = Torn] = c
    BY <1>1, <2>1, <2>2
  <2>4. c # <<>>
    BY <2>1, <2>2, EmptySeq
  <2>5. Cut(file) = c
    BY <1>5 DEF Cut
  <2> HIDE DEF c
  <2>6. Cut(c) = c
    BY <2>3, <2>4 DEF Cut
  <2>. QED
    BY <1>3, <2>5, <2>6 DEF c
<1>. QED
  BY <1>4, <1>5

\* What a reader finds is what was asked to be saved.
LEMMA KeptStep ==
  ASSUME LogInv, Kept, NEW w \in Writers, Act(w) PROVE Kept'
<1> USE DEF LogInv, IInv
<1>1. CASE file' = file
  BY <1>1 DEF Kept, Known
<1>2. CASE wpc[w] = "write" /\ file' \in {Land(Torn), Land(rec[w])}
  <2>1. req[w] \in Requests /\ rec[w] \in Lines /\ Torn \in Lines
    BY <1>2, EmptySeq DEF TypeOK, Torn, Lines
  <2>2. CASE open = TRUE
    <3>1. file' = Cut(file) /\ Cut(Cut(file)) = Cut(file)
      BY <1>2, <2>2, SpoiledIsCut
    <3>2. Cut(file)' = Cut(file)
      BY <3>1
    <3>. QED
      BY <3>1, <3>2 DEF Kept, Known
  <2>3. CASE open = FALSE
    <3>1. Scan(Cut(file)') = Scan(file)
      <4>1. PICK line \in Lines : file' = Land(line)
        BY <1>2, <2>1
      <4>2. Cut(Land(line)) = Append(file, Torn) /\ Scan(Append(file, Torn)) = Scan(file)
        BY <2>3, CutLanded
      <4>3. Cut(file)' = Cut(Land(line))
        BY <4>1
      <4>. QED
        BY <4>2, <4>3
    <3>2. CASE file' = Land(Torn)
      <4>1. Scan(file)' = Scan(file)
        BY <2>3, <3>2, TornLanded
      <4>. QED
        BY <3>1, <4>1 DEF Kept, Known
    <3>3. CASE file' = Land(rec[w])
      <4>1. CASE req[w].kind = "snapshot"
        <5>1. Scan(file)'.snap = req[w].msgs /\ Scan(file)'.turns = Scan(file).turns
          BY <1>2, <2>3, <3>3, <4>1, RequestLanded
        <5>2. req[w].msgs \in Histories
          BY <2>1, <4>1 DEF Requests
        <5>. QED
          BY <3>1, <5>1, <5>2 DEF Kept, Known
      <4>2. CASE req[w].kind = "turn"
        <5>1. Scan(file)'.snap = Scan(file).snap /\ Scan(file)'.turns = Scan(file).turns \o req[w].msgs
          BY <1>2, <2>3, <3>3, <4>2, RequestLanded
        <5>2. PICK t \in Turns : req[w].msgs = <<t>>
          BY <2>1, <4>2 DEF Requests
        <5>3. Scan(file).turns \o <<t>> \in Seq(Turns)
          BY DEF Kept, Known
        <5>. QED
          BY <3>1, <5>1, <5>2, <5>3 DEF Kept, Known
      <4>. QED
        BY <2>1, <4>1, <4>2 DEF Requests
    <3>. QED
      BY <1>2, <3>2, <3>3
  <2>. QED
    BY <2>2, <2>3 DEF TypeOK
<1>. QED
  BY <1>1, <1>2 DEF Act, Request, Decide, RepairTail, Write, Fail, Restart

\* Turns have no calls and no results: they can be sent as they are.
LEMMA TurnsSendable == ASSUME NEW s \in Seq(Turns) PROVE Sendable(s) /\ Once(s)
<1>1. \A k \in DOMAIN s : s[k].role # "tool" /\ s[k].calls = <<>>
  BY TurnsAssumption, ElementOfSeq, LenProperties
<1>2. DOMAIN s = 1..Len(s) /\ Len(s) \in Nat
  BY LenProperties
<1>3. ASSUME NEW k \in DOMAIN s, NEW b, ResultOf(s, k, b) PROVE FALSE
  <2>1. k \in b + 1..k
    BY <1>2, <1>3 DEF ResultOf
  <2>. QED
    BY <1>1, <1>3, <2>1 DEF ResultOf
<1>4. Once(s)
  BY <1>3 DEF Once
<1>5. Sendable(s)
  <2> SUFFICES ASSUME NEW b \in DOMAIN s
               PROVE  /\ {s[k].id : k \in {k \in DOMAIN s : ResultOf(s, k, b)}} \ {NoId} = Ids(s[b].calls)
                      /\ NoId \notin ToSet(s[b].calls)
                      /\ \A i, j \in DOMAIN s[b].calls : s[b].calls[i] = s[b].calls[j] => i = j
    BY DEF Sendable
  <2>1. s[b].calls = <<>>
    BY <1>1
  <2>2. DOMAIN <<>> = {}
    BY EmptySeq
  <2>3. ToSet(s[b].calls) = {} /\ Ids(s[b].calls) = {}
    BY <2>1, <2>2 DEF ToSet, Ids
  <2>4. {k \in DOMAIN s : ResultOf(s, k, b)} = {}
    BY <1>3
  <2>. QED
    BY <2>1, <2>2, <2>3, <2>4
<1>. QED
  BY <1>4, <1>5

\* What LoadMessages makes of a history that was saved can be sent.
LEMMA LoadSendable ==
  ASSUME NEW f, Known(f)
  PROVE  Sendable(LoadMessages(f)) /\ (Once(Scan(f).snap) => Once(LoadMessages(f)))
<1> DEFINE h == Scan(f).snap
<1>1. CASE h \in Histories
  <2>1. h \in Seq(Messages) /\ h # <<>> /\ h[1].role = "system" /\ InPlace(h)
    BY <1>1, HistoriesAssumption
  <2>2. LoadMessages(f) = Repair(h)
    BY <2>1 DEF LoadMessages
  <2> HIDE DEF h
  <2>3. h \in Seq(Parts)
    BY <2>1, MessagesAreParts, SeqMonotonic
  <2>4. h[1].role # "tool"
    BY <2>1
  <2>5. Sendable(Repair(h)) /\ (Once(h) => Once(Repair(h)))
    BY <2>1, <2>3, <2>4, RepairIs
  <2>. QED
    BY <2>2, <2>5 DEF h
<1>2. CASE h = <<>>
  <2>1. LoadMessages(f) = Scan(f).turns /\ Scan(f).turns \in Seq(Turns)
    BY <1>2 DEF LoadMessages, Known
  <2>. QED
    BY <2>1, TurnsSendable
<1>. QED
  BY <1>1, <1>2 DEF Known

\* The file loads, as it is and cut off within its last line, whatever failed or
\* died and however the processes interleaved, with flock or without, and what
\* repairToolCalls makes of any history that was saved can be sent.
THEOREM FilesLoad == Spec => []FileLoads
<1>1. Init => Kept
  <2> SUFFICES ASSUME Init PROVE Kept
    OBVIOUS
  <2>1. file = <<>> /\ Cut(file) = <<>>
    BY DEF Init, Cut
  <2>2. Known(<<>>)
    <3>1. Scan(<<>>).snap = <<>> /\ Scan(<<>>).turns = <<>>
      BY ScanEmpty DEF Start
    <3>2. <<>> \in Seq(Turns)
      BY EmptySeq
    <3>. QED
      BY <3>1, <3>2 DEF Known
  <2>. QED
    BY <2>1, <2>2 DEF Kept
<1>2. LogInv /\ Kept /\ [Next]_vars => Kept'
  <2> SUFFICES ASSUME LogInv, Kept, [Next]_vars PROVE Kept'
    OBVIOUS
  <2>1. CASE Next
    <3>1. PICK w \in Writers : Act(w)
      BY <2>1 DEF Next, Act
    <3>. QED
      BY <3>1, KeptStep
  <2>2. CASE UNCHANGED vars
    BY <2>2 DEF vars, Kept, Known
  <2>. QED
    BY <2>1, <2>2
<1>3. Kept => ResumeSendable
  <2> SUFFICES ASSUME Kept, NEW f \in {file, Cut(file)}
               PROVE  Sendable(LoadMessages(f)) /\ (Once(Scan(f).snap) => Once(LoadMessages(f)))
    BY DEF ResumeSendable
  <2>. QED
    BY LoadSendable DEF Kept
<1>4. Spec => []LogInv
  BY LogInductive
<1>5. Spec => []LoadNeverFails
  BY LoadsAlways
<1>. QED
  BY <1>1, <1>2, <1>3, <1>4, <1>5, PTL DEF Spec, FileLoads

-----------------------------------------------------------------------------
(* The history an engine keeps.                                            *)

Typed ==
  /\ prior \in Seq(Spoken) /\ transcript \in Seq(Spoken) /\ sess \in History!Sessions
  /\ disk \in [History!Sessions -> [hist : Seq(Spoken), turns : Seq(Spoken)]]
  /\ run \in Runs \cup {None}
  /\ asked \in [History!Sessions -> SUBSET Texts]
  /\ gone \in Texts \cup {None}

\* None of the messages was injected by the host.
Unmarked(msgs) == \A i \in DOMAIN msgs : ~msgs[i].synthetic

\* Files hold what was saved, those of later sessions nothing.
Files ==
  \A s \in History!Sessions :
    /\ Unmarked(disk[s].hist) /\ Unmarked(disk[s].turns)
    /\ s > sess => disk[s] = [hist |-> <<>>, turns |-> <<>>]

\* A run works from the history there is, and it is the run of this session.
Running ==
  run # None =>
    /\ run.sess = sess
    /\ run.at = "run" => run.base = prior
    /\ run.at # "run" => /\ ~run.ephemeral /\ edited
                         /\ run.result # <<>> /\ History!Own(run.result, sess)
    /\ ~run.ephemeral => run.text \in asked[sess] /\ (gone # None => run.text # gone)

\* Compact works on the history there is, and no run does.
Copied == copy # None => copy = prior /\ run = None

\* An aside changes nothing that a resume would find.
Resumable ==
  ~edited /\ (run = None \/ run.ephemeral) => History!Saved(prior) = History!Resumed(disk[sess])

\* Until something is compacted or resumed, the users' messages that the host did
\* not inject are prompts, and no others are.
Plain ==
  plain =>
    /\ History!PromptsIn(prior) = History!PromptsIn(transcript)
    /\ \A i \in DOMAIN prior : prior[i].text \in Texts <=> prior[i].role = "user" /\ ~prior[i].synthetic
    /\ \A i \in DOMAIN transcript : transcript[i].text \in Texts <=> transcript[i].role = "user"

HistoryInv ==
  Typed /\ History!OwnTurns /\ Files /\ Running /\ Copied /\ Resumable /\ Plain /\ History!RewoundStaysOut

\* r is the prompts among the first i messages, for each i.
Counts(s, r) ==
  /\ r[0] = <<>>
  /\ \A i \in 1..Len(s) : r[i] = IF s[i].text \in Texts THEN Append(r[i - 1], s[i].text) ELSE r[i - 1]

\* The prompts are found message by message.
LEMMA PromptsRun ==
  ASSUME NEW s \in Seq(Spoken) PROVE \E r : Counts(s, r) /\ History!PromptsIn(s) = r[Len(s)]
<1> DEFINE n == Len(s)
           Step(i, b) == IF s[i].text \in Texts THEN Append(b, s[i].text) ELSE b
           Is(r) == r = [i \in 0..n |-> IF i = 0 THEN <<>>
                                        ELSE IF s[i].text \in Texts THEN Append(r[i - 1], s[i].text)
                                        ELSE r[i - 1]]
<1>1. n \in Nat
  BY LenProperties
<1>2. \E r : Is(r)
  <2> DEFINE F == [i \in 1..n |-> [b \in Seq(Texts) |-> Step(i, b)]]
  <2>1. F \in [1..n -> [Seq(Texts) -> Seq(Texts)]] /\ <<>> \in Seq(Texts)
    <3>1. \A b \in Seq(Texts), i \in 1..n : Step(i, b) \in Seq(Texts)
      BY AppendProperties
    <3>2. <<>> \in Seq(Texts)
      BY EmptySeq
    <3> HIDE DEF n, Step
    <3>. QED
      BY <3>1, <3>2
  <2> HIDE DEF n
  <2>2. \E r : Takes(r, n, Seq(Texts), <<>>, F)
    <3> HIDE DEF F
    <3>. QED
      BY <1>1, <2>1, StepsExist
  <2>3. PICK r : /\ r \in [0..n -> Seq(Texts)] /\ r[0] = <<>>
                 /\ \A i \in 1..n : r[i] = F[i][r[i - 1]]
    <3> HIDE DEF F
    <3>. QED
      BY <2>2 DEF Takes
  <2>4. \A i \in 1..n : r[i] = Step(i, r[i - 1])
    <3>1. \A i \in 1..n : i - 1 \in 0..n
      BY <1>1
    <3> HIDE DEF Step
    <3>. QED
      BY <2>3, <3>1
  <2>5. \A i \in 0..n : r[i] = IF i = 0 THEN <<>> ELSE Step(i, r[i - 1])
    <3>1. \A i \in 0..n : i = 0 \/ i \in 1..n
      BY <1>1
    <3>2. r[0] = <<>>
      BY <2>3
    <3> HIDE DEF Step, F
    <3>. QED
      BY <2>4, <3>1, <3>2
  <2>6. Is(r)
    <3> HIDE DEF F
    <3>. QED
      BY <2>3, <2>5
  <2>. QED
    BY <2>6
<1> DEFINE q == CHOOSE r : Is(r)
<1>3. History!PromptsIn(s) = q[n]
  BY DEF History!PromptsIn
<1>4. Is(q)
  <2> HIDE DEF Is
  <2>. QED
    BY <1>2
<1> HIDE DEF n, q
<1>5. \A i \in 0..n : q[i] = IF i = 0 THEN <<>> ELSE IF s[i].text \in Texts THEN Append(q[i - 1], s[i].text)
                                                ELSE q[i - 1]
  BY <1>4
<1> HIDE DEF Is
<1>6. q[0] = <<>> /\ \A i \in 1..n : q[i] = IF s[i].text \in Texts THEN Append(q[i - 1], s[i].text) ELSE q[i - 1]
  BY <1>1, <1>5
<1>. QED
  BY <1>3, <1>6 DEF Counts, n

\* The first n messages are the same.
Alike(s, t, n) == /\ n <= Len(s) /\ n <= Len(t) /\ Len(s) \in Nat /\ Len(t) \in Nat
                  /\ \A i \in 1..n : s[i] = t[i]

\* Lists with the same first messages have the same prompts so far.
LEMMA CountsAgree ==
  ASSUME NEW s, NEW t, NEW r, NEW q, NEW n \in Nat, Counts(s, r), Counts(t, q), Alike(s, t, n)
  PROVE  r[n] = q[n]
<1> DEFINE T == {i \in 0..n : r[i] = q[i]}
<1>1. 0 \in T
  BY DEF Counts
<1>2. ASSUME NEW i \in 1..n, i - 1 \in T PROVE i \in T
  <2>1. i \in 1..Len(s) /\ i \in 1..Len(t) /\ s[i] = t[i] /\ r[i - 1] = q[i - 1]
    BY <1>2 DEF Alike
  <2>. QED
    BY <2>1 DEF Counts
<1>3. n \in T
  <2> HIDE DEF T
  <2>1. \A i \in 0..n : i \in T
    BY <1>1, <1>2, Climb
  <2>. QED
    BY <2>1
<1>. QED
  BY <1>3

\* A message more.
LEMMA PromptsAppend ==
  ASSUME NEW s \in Seq(Spoken), NEW m \in Spoken
  PROVE  History!PromptsIn(Append(s, m)) = IF m.text \in Texts THEN Append(History!PromptsIn(s), m.text) ELSE History!PromptsIn(s)
<1> DEFINE t == Append(s, m)
           n == Len(s)
<1>1. /\ t \in Seq(Spoken) /\ Len(t) = n + 1 /\ t[n + 1] = m /\ n \in Nat
      /\ \A i \in 1..n : t[i] = s[i]
  BY AppendProperties, LenProperties
<1>2. PICK r : Counts(s, r) /\ History!PromptsIn(s) = r[n]
  BY PromptsRun
<1> HIDE DEF t
<1>3. PICK q : Counts(t, q) /\ History!PromptsIn(t) = q[Len(t)]
  BY <1>1, PromptsRun
<1>4. r[n] = q[n]
  <2>1. Alike(s, t, n)
    BY <1>1 DEF Alike
  <2>. QED
    BY <1>1, <1>2, <1>3, <2>1, CountsAgree
<1> HIDE DEF n
<1>5. n + 1 \in 1..Len(t) /\ (n + 1) - 1 = n
  BY <1>1
<1>6. q[n + 1] = IF t[n + 1].text \in Texts THEN Append(q[(n + 1) - 1], t[n + 1].text) ELSE q[(n + 1) - 1]
  BY <1>3, <1>5 DEF Counts
<1>. QED
  BY <1>1, <1>2, <1>3, <1>4, <1>5, <1>6 DEF t, n

\* The last prompt, and those before it.
LEMMA PromptsLast ==
  ASSUME NEW s \in Seq(Spoken), NEW k \in 1..Len(s), s[k].text \in Texts,
         \A j \in k + 1..Len(s) : s[j].text \notin Texts
  PROVE  History!PromptsIn(s) = Append(History!PromptsIn(SubSeq(s, 1, k - 1)), s[k].text)
<1> DEFINE n == Len(s)
           t == SubSeq(s, 1, k - 1)
<1>1. n \in Nat /\ k \in Nat /\ k - 1 \in Nat /\ k \in 1..n
  BY LenProperties
<1>2. t \in Seq(Spoken) /\ Len(t) = k - 1 /\ \A i \in 1..k - 1 : t[i] = s[i]
  BY <1>1
<1>3. PICK r : Counts(s, r) /\ History!PromptsIn(s) = r[n]
  BY PromptsRun
<1> HIDE DEF t
<1>4. PICK q : Counts(t, q) /\ History!PromptsIn(t) = q[Len(t)]
  BY <1>2, PromptsRun
<1>5. r[k - 1] = q[k - 1]
  <2>1. Alike(s, t, k - 1)
    BY <1>1, <1>2 DEF Alike
  <2>. QED
    BY <1>1, <1>3, <1>4, <2>1, CountsAgree
<1>6. r[k] = Append(r[k - 1], s[k].text)
  BY <1>3 DEF Counts
<1> DEFINE T == {i \in 0..n - k : r[k + i] = r[k]}
<1>7. 0 \in T
  BY <1>1
<1>8. ASSUME NEW i \in 1..n - k, i - 1 \in T PROVE i \in T
  <2> DEFINE j == k + i
  <2>1. j \in 1..Len(s) /\ j \in k + 1..Len(s) /\ j - 1 = k + (i - 1) /\ r[k + (i - 1)] = r[k]
    BY <1>1, <1>8
  <2> HIDE DEF j
  <2>2. r[j] = r[j - 1]
    BY <1>3, <2>1 DEF Counts
  <2>. QED
    BY <2>1, <2>2 DEF j
<1>9. n - k \in Nat
  BY <1>1
<1>10. n - k \in T
  <2> HIDE DEF T
  <2>1. \A i \in 0..n - k : i \in T
    BY <1>7, <1>8, <1>9, Climb
  <2>. QED
    BY <1>9, <2>1
<1>11. r[n] = r[k]
  <2>1. k + (n - k) = n
    BY <1>1
  <2>. QED
    BY <1>10, <2>1
<1>. QED
  BY <1>2, <1>3, <1>4, <1>5, <1>6, <1>11 DEF t

\* c is made of messages of s and the stub.
Made(c, s) ==
  /\ c \in Seq(Spoken) /\ (s # <<>> => c # <<>>)
  /\ \A j \in DOMAIN c : c[j] = History!Stub \/ \E k \in DOMAIN s : c[j] = s[k]

\* What Compact makes of a history.
LEMMA CompactedIs == ASSUME NEW s \in Seq(Spoken), NEW c \in History!Compacted(s) PROVE Made(c, s)
<1>1. DOMAIN s = 1..Len(s) /\ Len(s) \in Nat
  BY LenProperties
<1>2. CASE c = s
  BY <1>2 DEF Made
<1>3. ASSUME NEW i \in 2..Len(s) - 1, c = <<History!Stub>> \o History!AlignKeepAtUser(SubSeq(s, i, Len(s))) PROVE Made(c, s)
  <2> DEFINE t == SubSeq(s, i, Len(s))
             u == History!AlignKeepAtUser(t)
  <2>1. t \in Seq(Spoken) /\ Len(t) \in Nat /\ \A j \in 1..Len(t) : \E k \in DOMAIN s : t[j] = s[k]
    <3>1. t \in Seq(Spoken) /\ Len(t) = Len(s) - i + 1 /\ \A j \in 1..Len(t) : t[j] = s[i + j - 1]
      BY <1>1
    <3>2. \A j \in 1..Len(t) : i + j - 1 \in DOMAIN s
      BY <1>1, <3>1
    <3>. QED
      BY <1>1, <3>1, <3>2
  <2> HIDE DEF t
  <2>2. u \in Seq(Spoken) /\ Len(u) \in Nat /\ \A j \in 1..Len(u) : \E k \in DOMAIN s : u[j] = s[k]
    <3>1. CASE \E j \in DOMAIN t : t[j].role = "user"
      <4> DEFINE I == {j \in 1..Len(t) : t[j].role = "user"}
                 m == History!SelectInSeq(t, LAMBDA x : x.role = "user")
      <4>1. I # {} /\ I \in SUBSET Nat
        <5>1. DOMAIN t = 1..Len(t)
          BY <2>1, LenProperties
        <5>2. PICK j \in 1..Len(t) : t[j].role = "user"
          BY <3>1, <5>1
        <5>3. j \in I
          BY <5>2
        <5>. QED
          BY <5>3
      <4>2. PICK n \in I : \A j \in I : n <= j
        <5> HIDE DEF I
        <5>. QED
          BY <4>1, LeastOf
      <4>3. m = CHOOSE x \in I : \A y \in I : x <= y
        BY <4>1 DEF History!SelectInSeq, History!Min
      <4>4. m \in 1..Len(t)
        <5>1. m \in I
          <6> HIDE DEF I, m
          <6>. QED
            BY <4>2, <4>3
        <5>. QED
          BY <5>1
      <4>5. u = SubSeq(t, m, Len(t))
        BY <3>1 DEF History!AlignKeepAtUser
      <4> HIDE DEF m
      <4>6. u \in Seq(Spoken) /\ Len(u) \in Nat /\ \A j \in 1..Len(u) : u[j] = t[m + j - 1] /\ m + j - 1 \in 1..Len(t)
        <5>1. SubSeq(t, m, Len(t)) \in Seq(Spoken)
          BY <2>1, <4>4
        <5>2. /\ Len(SubSeq(t, m, Len(t))) = Len(t) - m + 1
              /\ \A j \in 1..Len(t) - m + 1 : SubSeq(t, m, Len(t))[j] = t[m + j - 1] /\ m + j - 1 \in 1..Len(t)
          <6>1. m \in Nat /\ m >= 1 /\ m <= Len(t) /\ Len(t) \in Nat
            BY <2>1, <4>4
          <6>2. \A j \in 1..Len(t) - m + 1 : m + j - 1 \in 1..Len(t)
            BY <6>1
          <6>3. /\ Len(SubSeq(t, m, Len(t))) = Len(t) - m + 1
                /\ \A j \in 1..Len(t) - m + 1 : SubSeq(t, m, Len(t))[j] = t[m + j - 1]
            BY <2>1, <6>1
          <6>. QED
            BY <6>2, <6>3
        <5>3. Len(t) - m + 1 \in Nat
          BY <2>1, <4>4
        <5>. QED
          BY <4>5, <5>1, <5>2, <5>3
      <4>. QED
        BY <2>1, <4>6
    <3>2. CASE ~\E j \in DOMAIN t : t[j].role = "user"
      <4>1. u = t
        BY <3>2 DEF History!AlignKeepAtUser
      <4>. QED
        BY <2>1, <4>1
    <3>. QED
      BY <3>1, <3>2
  <2> HIDE DEF u
  <2>3. History!Stub \in Spoken
    BY DEF History!Stub, Spoken
  <2>4. c = <<History!Stub>> \o u
    BY <1>3 DEF u, t
  <2>5. /\ c \in Seq(Spoken) /\ Len(c) = Len(u) + 1 /\ c[1] = History!Stub
        /\ \A j \in 2..Len(u) + 1 : c[j] = u[j - 1]
    BY <2>2, <2>3, <2>4
  <2>6. \A j \in DOMAIN c : j = 1 \/ (j \in 2..Len(u) + 1 /\ j - 1 \in 1..Len(u))
    <3>1. DOMAIN c = 1..Len(u) + 1
      BY <2>5, LenProperties
    <3>. QED
      BY <2>2, <3>1
  <2>7. c # <<>>
    BY <2>2, <2>5, EmptySeq
  <2>8. \A j \in DOMAIN c : c[j] = History!Stub \/ \E k \in DOMAIN s : c[j] = s[k]
    BY <2>2, <2>5, <2>6
  <2>. QED
    BY <2>5, <2>7, <2>8 DEF Made
<1>. QED
  BY <1>2, <1>3 DEF History!Compacted

\* What is saved of a list of messages.
LEMMA SavedIs ==
  ASSUME NEW s \in Seq(Spoken)
  PROVE  /\ History!Saved(s) \in Seq(Spoken) /\ DOMAIN History!Saved(s) = DOMAIN s /\ Unmarked(History!Saved(s))
         /\ \A i \in DOMAIN s : History!Saved(s)[i].text = s[i].text
         /\ Unmarked(s) => History!Saved(s) = s
         /\ s # <<>> => History!Saved(s) # <<>>
         /\ s = <<>> => History!Saved(s) = <<>>
<1>1. DOMAIN s = 1..Len(s) /\ Len(s) \in Nat /\ s \in [1..Len(s) -> Spoken]
  BY LenProperties
<1> DEFINE E(m) == [m EXCEPT !.synthetic = FALSE]
<1>2. \A m \in Spoken : /\ E(m) \in Spoken /\ ~E(m).synthetic /\ E(m).text = m.text
                        /\ ~m.synthetic => E(m) = m
  BY DEF Spoken
<1>3. History!Saved(s) = [i \in 1..Len(s) |-> E(s[i])]
  BY <1>1 DEF History!Saved
<1> HIDE DEF E
<1> DEFINE t == [i \in 1..Len(s) |-> E(s[i])]
<1>4. t \in [1..Len(s) -> Spoken]
  BY <1>1, <1>2
<1>5. t \in Seq(Spoken) /\ Len(t) = Len(s) /\ DOMAIN t = DOMAIN s
  BY <1>1, <1>4
<1>6. \A i \in DOMAIN s : ~t[i].synthetic /\ t[i].text = s[i].text
  BY <1>1, <1>2
<1>7. ASSUME Unmarked(s) PROVE t = s
  <2>1. \A i \in 1..Len(s) : t[i] = s[i]
    BY <1>1, <1>2, <1>7 DEF Unmarked
  <2>. QED
    BY <1>1, <1>4, <2>1
<1>8. (s # <<>> => t # <<>>) /\ (s = <<>> => t = <<>>)
  <2> HIDE DEF t
  <2>. QED
    BY <1>1, <1>5, EmptySeq
<1>. QED
  BY <1>3, <1>5, <1>6, <1>7, <1>8 DEF Unmarked

\* A set of numbers up to n has a greatest one.
LEMMA GreatestOf ==
  ASSUME NEW n \in Nat, NEW I \in SUBSET (1..n), I # {}
  PROVE  \E k \in I : \A y \in I : k >= y
<1> DEFINE J == {n - i : i \in I}
<1>1. J \in SUBSET Nat /\ J # {}
  <2>1. \A i \in I : n - i \in Nat
    OBVIOUS
  <2>2. PICK i \in I : TRUE
    OBVIOUS
  <2>3. n - i \in J
    OBVIOUS
  <2>. QED
    BY <2>1, <2>3
<1>2. PICK j \in J : \A m \in J : j <= m
  <2> HIDE DEF J
  <2>. QED
    BY <1>1, LeastOf
<1>3. PICK k \in I : j = n - k
  BY <1>2
<1>4. ASSUME NEW y \in I PROVE k >= y
  <2>1. n - y \in J
    OBVIOUS
  <2>2. j <= n - y
    BY <1>2, <2>1
  <2>. QED
    BY <1>3, <2>2
<1>. QED
  BY <1>4

\* A run that asks, and one that has an answer.
LEMMA SentIs ==
  ASSUME NEW base \in Seq(Spoken), NEW t \in Texts, NEW sent \in History!Sent(base, t),
         NEW answer \in {<<>>, <<History!Reply>>}
  PROVE  /\ sent \in Seq(Spoken) /\ sent # <<>> /\ sent \o answer \in Seq(Spoken)
         /\ History!PromptsIn(sent \o answer) = Append(History!PromptsIn(base), t)
         /\ \A i \in DOMAIN sent : sent[i] \in {History!User(t), History!Reply, History!Note} \/ \E k \in DOMAIN base : sent[i] = base[k]
<1>1. History!User(t) \in Spoken /\ History!Reply \in Spoken /\ History!Note \in Spoken /\ History!User(t).text = t
      /\ History!Reply.text \notin Texts /\ History!Note.text \notin Texts
  BY TextsAssumption DEF History!User, History!Reply, History!Note, Spoken
<1> DEFINE a == Append(base, History!User(t))
           c == Append(a, History!Reply)
           b == Append(c, History!Note)
<1>2. a \in Seq(Spoken) /\ b \in Seq(Spoken) /\ a # <<>> /\ b # <<>>
      /\ History!PromptsIn(a) = Append(History!PromptsIn(base), t) /\ History!PromptsIn(b) = History!PromptsIn(a)
  <2>1. a \in Seq(Spoken) /\ a # <<>> /\ History!PromptsIn(a) = Append(History!PromptsIn(base), t)
    BY <1>1, PromptsAppend, AppendProperties
  <2> HIDE DEF a
  <2>2. c \in Seq(Spoken) /\ History!PromptsIn(c) = History!PromptsIn(a)
    BY <1>1, <2>1, PromptsAppend, AppendProperties
  <2> HIDE DEF c
  <2>3. b \in Seq(Spoken) /\ b # <<>> /\ History!PromptsIn(b) = History!PromptsIn(c)
    BY <1>1, <2>2, PromptsAppend, AppendProperties
  <2>. QED
    BY <2>1, <2>2, <2>3
<1>3. sent = a \/ sent = b
  <2>1. base \o <<History!User(t), History!Reply, History!Note>> = b
    BY <1>1
  <2>. QED
    BY <2>1 DEF History!Sent
<1>4. \A i \in DOMAIN sent : sent[i] \in {History!User(t), History!Reply, History!Note} \/ \E k \in DOMAIN base : sent[i] = base[k]
  <2>1. DOMAIN base = 1..Len(base) /\ Len(base) \in Nat
    BY LenProperties
  <2>2. /\ Len(a) = Len(base) + 1 /\ a[Len(base) + 1] = History!User(t) /\ \A i \in 1..Len(base) : a[i] = base[i]
        /\ DOMAIN a = 1..Len(base) + 1
    BY <1>1, <2>1
  <2>3. /\ b[Len(base) + 1] = History!User(t) /\ b[Len(base) + 2] = History!Reply /\ b[Len(base) + 3] = History!Note
        /\ \A i \in 1..Len(base) : b[i] = base[i]
        /\ DOMAIN b = 1..Len(base) + 3
    BY <1>1, <1>2, <2>1
  <2> HIDE DEF a, b
  <2>. QED
    BY <1>3, <2>1, <2>2, <2>3
<1> HIDE DEF a, b
<1>5. sent \in Seq(Spoken) /\ sent # <<>> /\ History!PromptsIn(sent) = Append(History!PromptsIn(base), t)
  BY <1>2, <1>3
<1>6. CASE answer = <<>>
  BY <1>4, <1>5, <1>6
<1>7. CASE answer = <<History!Reply>>
  <2>1. sent \o answer = Append(sent, History!Reply)
    BY <1>1, <1>5, <1>7
  <2>2. Append(sent, History!Reply) \in Seq(Spoken) /\ History!PromptsIn(Append(sent, History!Reply)) = History!PromptsIn(sent)
    BY <1>1, <1>5, PromptsAppend
  <2>. QED
    BY <1>4, <1>5, <2>1, <2>2
<1>. QED
  BY <1>6, <1>7

\* Where the last message is that fits.
LEMMA LastPromptIs ==
  ASSUME NEW s \in Seq(Spoken)
  PROVE  /\ History!LastPrompt(s) \in 0..Len(s)
         /\ History!LastPrompt(s) # 0 => s[History!LastPrompt(s)].role = "user" /\ ~s[History!LastPrompt(s)].synthetic
         /\ \A j \in History!LastPrompt(s) + 1..Len(s) : ~(s[j].role = "user" /\ ~s[j].synthetic)
<1> DEFINE I == {i \in 1..Len(s) : s[i].role = "user" /\ ~s[i].synthetic}
           k == History!LastPrompt(s)
<1>1. Len(s) \in Nat
  BY LenProperties
<1>2. k = IF I # {} THEN CHOOSE x \in I : \A y \in I : x >= y ELSE 0
  BY DEF History!LastPrompt, History!SelectLastInSeq, History!Max
<1>3. CASE I = {}
  BY <1>1, <1>2, <1>3
<1>4. CASE I # {}
  <2>1. I \in SUBSET (1..Len(s))
    OBVIOUS
  <2>2. PICK n \in I : \A y \in I : n >= y
    <3> HIDE DEF I
    <3>. QED
      BY <1>1, <1>4, <2>1, GreatestOf
  <2>3. k \in I /\ \A y \in I : k >= y
    <3> HIDE DEF I, k
    <3>. QED
      BY <1>2, <1>4, <2>2
  <2> HIDE DEF k
  <2>. QED
    BY <1>1, <2>3 DEF k
<1>. QED
  BY <1>3, <1>4

\* The same, injected by the host or not.
LEMMA LastUserIs ==
  ASSUME NEW s \in Seq(Spoken)
  PROVE  /\ History!LastUser(s) \in 0..Len(s)
         /\ History!LastUser(s) # 0 => s[History!LastUser(s)].role = "user"
         /\ \A j \in History!LastUser(s) + 1..Len(s) : s[j].role # "user"
<1> DEFINE I == {i \in 1..Len(s) : s[i].role = "user"}
           k == History!LastUser(s)
<1>1. Len(s) \in Nat
  BY LenProperties
<1>2. k = IF I # {} THEN CHOOSE x \in I : \A y \in I : x >= y ELSE 0
  BY DEF History!LastUser, History!SelectLastInSeq, History!Max
<1>3. CASE I = {}
  BY <1>1, <1>2, <1>3
<1>4. CASE I # {}
  <2>1. I \in SUBSET (1..Len(s))
    OBVIOUS
  <2>2. PICK n \in I : \A y \in I : n >= y
    <3> HIDE DEF I
    <3>. QED
      BY <1>1, <1>4, <2>1, GreatestOf
  <2>3. k \in I /\ \A y \in I : k >= y
    <3> HIDE DEF I, k
    <3>. QED
      BY <1>2, <1>4, <2>2
  <2> HIDE DEF k
  <2>. QED
    BY <1>1, <2>3 DEF k
<1>. QED
  BY <1>3, <1>4

\* A reply behind a list, if there is one.
LEMMA AnswerAdded ==
  ASSUME NEW s \in Seq(Spoken), NEW answer \in {<<>>, <<History!Reply>>}
  PROVE  /\ s \o answer \in Seq(Spoken) /\ History!PromptsIn(s \o answer) = History!PromptsIn(s)
         /\ s # <<>> => s \o answer # <<>>
         /\ \A i \in DOMAIN (s \o answer) : (s \o answer)[i] = History!Reply \/ \E k \in DOMAIN s : (s \o answer)[i] = s[k]
<1>1. History!Reply \in Spoken /\ History!Reply.text \notin Texts
  BY TextsAssumption DEF History!Reply, Spoken
<1>2. CASE answer = <<>>
  <2>1. s \o answer = s
    BY <1>2
  <2>. QED
    BY <2>1
<1>3. CASE answer = <<History!Reply>>
  <2> DEFINE t == Append(s, History!Reply)
  <2>1. s \o answer = t
    BY <1>1, <1>3
  <2>2. /\ t \in Seq(Spoken) /\ History!PromptsIn(t) = History!PromptsIn(s) /\ Len(t) = Len(s) + 1 /\ Len(s) \in Nat
        /\ t[Len(s) + 1] = History!Reply /\ \A i \in 1..Len(s) : t[i] = s[i]
    BY <1>1, PromptsAppend, AppendProperties, LenProperties
  <2>3. DOMAIN t = 1..Len(s) + 1 /\ DOMAIN s = 1..Len(s)
    BY <2>2, LenProperties
  <2>4. t # <<>>
    BY <2>2, EmptySeq
  <2> HIDE DEF t
  <2>5. \A i \in DOMAIN t : t[i] = History!Reply \/ \E k \in DOMAIN s : t[i] = s[k]
    BY <2>2, <2>3
  <2>. QED
    BY <2>1, <2>2, <2>4, <2>5
<1>. QED
  BY <1>2, <1>3

\* A prompt starts: an aside leaves no trace, a turn is logged.
LEMMA StartStep ==
  ASSUME HistoryInv, Turnwise, NEW t \in Texts, NEW ephemeral \in BOOLEAN, History!PromptStart(t, ephemeral)
  PROVE  HistoryInv'
<1> USE DEF HistoryInv
<1>1. /\ run = None /\ copy = None /\ UNCHANGED <<prior, transcript, sess, copy, edited, plain>>
      /\ run' = [text |-> t, ephemeral |-> ephemeral, base |-> prior, sess |-> sess,
                 at |-> "run", result |-> <<>>, answer |-> <<>>]
  BY DEF History!PromptStart, History!Quiet, History!live
<1>2. run' \in Runs /\ run' # None
  <2>1. run' \in Runs
    BY <1>1, EmptySeq DEF Typed, Runs
  <2>. QED
    BY <2>1, RunsAssumption DEF Runs
<1>3. CASE ephemeral
  <2>1. UNCHANGED <<disk, asked, gone>>
    BY <1>3 DEF History!PromptStart
  <2>2. Typed'
    BY <1>1, <1>2, <2>1 DEF Typed
  <2>3. Running'
    BY <1>1, <1>3 DEF Running
  <2>4. History!OwnTurns' /\ Files' /\ Plain' /\ History!RewoundStaysOut' /\ Copied' /\ Resumable'
    BY <1>1, <2>1 DEF History!OwnTurns, History!Own, Files, Plain, History!RewoundStaysOut, Copied, Resumable
  <2>. QED
    BY <2>2, <2>3, <2>4
<1>4. CASE ~ephemeral
  <2>1. /\ disk' \in {disk, [disk EXCEPT ![sess].turns = Append(@, History!User(t))]}
        /\ asked' = [asked EXCEPT ![sess] = @ \cup {t}]
        /\ gone' = IF gone = t THEN None ELSE gone
    BY <1>4 DEF History!PromptStart
  <2>2. /\ History!User(t) \in Spoken /\ History!User(t).text = t /\ ~History!User(t).synthetic
    BY DEF History!User, Spoken
  <2> DEFINE turns == disk[sess].turns
             more  == Append(turns, History!User(t))
  <2>3. /\ sess \in History!Sessions /\ asked \in [History!Sessions -> SUBSET Texts]
        /\ disk \in [History!Sessions -> [hist : Seq(Spoken), turns : Seq(Spoken)]]
        /\ turns \in Seq(Spoken)
    BY DEF Typed
  <2>4. /\ asked'[sess] = asked[sess] \cup {t} /\ (\A s \in History!Sessions : asked[s] \subseteq asked'[s])
        /\ asked' \in [History!Sessions -> SUBSET Texts]
    BY <2>1, <2>3
  <2>5. /\ more \in Seq(Spoken)
        /\ \A i \in DOMAIN more : (i \in DOMAIN turns /\ more[i] = turns[i]) \/ more[i] = History!User(t)
    <3> HIDE DEF turns
    <3>1. /\ more \in Seq(Spoken) /\ Len(more) = Len(turns) + 1 /\ Len(turns) \in Nat
          /\ \A i \in 1..Len(turns) : more[i] = turns[i]
          /\ more[Len(turns) + 1] = History!User(t)
      BY <2>2, <2>3
    <3>2. DOMAIN more = 1..Len(turns) + 1 /\ DOMAIN turns = 1..Len(turns)
      BY <2>3, <3>1, LenProperties
    <3> HIDE DEF more
    <3>. QED
      BY <3>1, <3>2
  <2> HIDE DEF more
  <2>6. ASSUME NEW s \in History!Sessions
        PROVE  /\ disk'[s].hist = disk[s].hist
               /\ disk'[s].turns = disk[s].turns \/ (s = sess /\ disk'[s].turns = more)
               /\ s # sess => disk'[s] = disk[s]
    BY <2>1, <2>3 DEF more
  <2>7. disk' \in [History!Sessions -> [hist : Seq(Spoken), turns : Seq(Spoken)]]
    BY <2>1, <2>3, <2>5 DEF more
  <2> HIDE DEF turns
  <2>8. Typed'
    BY <1>1, <1>2, <2>1, <2>4, <2>7 DEF Typed
  <2>9. History!OwnTurns'
    <3>1. History!Own(prior, sess)' /\ History!Own(transcript, sess)'
      BY <1>1, <2>3, <2>4 DEF History!OwnTurns, History!Own
    <3>2. ASSUME NEW s \in History!Sessions PROVE History!Own(disk[s].hist, s)' /\ History!Own(disk[s].turns, s)'
      <4>1. \A i \in DOMAIN disk[s].hist : disk[s].hist[i].text \in Texts => disk[s].hist[i].text \in asked'[s]
        BY <2>4 DEF History!OwnTurns, History!Own
      <4>2. \A i \in DOMAIN disk[s].turns : disk[s].turns[i].text \in Texts => disk[s].turns[i].text \in asked'[s]
        BY <2>4 DEF History!OwnTurns, History!Own
      <4>3. s = sess => \A i \in DOMAIN more : more[i].text \in Texts => more[i].text \in asked'[s]
        BY <2>2, <2>4, <2>5, <4>2 DEF turns
      <4>. QED
        BY <2>6, <4>1, <4>2, <4>3 DEF History!Own
    <3>. QED
      BY <3>1, <3>2 DEF History!OwnTurns
  <2>10. Files'
    <3>1. Unmarked(more)
      BY <2>2, <2>3, <2>5 DEF Files, Unmarked, turns
    <3>2. ~(sess > sess)
      BY <2>3, SessionsAssumption DEF History!Sessions
    <3>3. ASSUME NEW s \in History!Sessions
          PROVE  /\ Unmarked(disk'[s].hist) /\ Unmarked(disk'[s].turns)
                 /\ s > sess => disk'[s] = [hist |-> <<>>, turns |-> <<>>]
      <4>1. /\ Unmarked(disk[s].hist) /\ Unmarked(disk[s].turns)
            /\ s > sess => disk[s] = [hist |-> <<>>, turns |-> <<>>]
        BY DEF Files
      <4>. QED
        BY <2>6, <3>1, <3>2, <4>1
    <3>. QED
      BY <1>1, <3>3 DEF Files, Unmarked
  <2>11. Running'
    BY <1>1, <1>4, <2>1, <2>3, <2>4 DEF Running
  <2>12. Resumable' /\ Copied' /\ Plain'
    BY <1>1, <1>2, <1>4 DEF Resumable, Copied, Plain
  <2>13. History!RewoundStaysOut'
    BY <1>1, <2>1 DEF History!RewoundStaysOut
  <2>. QED
    BY <2>8, <2>9, <2>10, <2>11, <2>12, <2>13
<1>. QED
  BY <1>3, <1>4

\* A run returns: its turn is the history, compacted or not, and the transcript.
LEMMA CommitStep ==
  ASSUME HistoryInv, Turnwise, History!PromptCommit PROVE HistoryInv'
<1> USE DEF HistoryInv
<1>1. /\ run # None /\ run.at = "run" /\ run \in Runs /\ run.sess = sess /\ run.base = prior /\ copy = None
      /\ ~run.ephemeral => run.text \in asked[sess] /\ (gone # None => run.text # gone)
      /\ UNCHANGED <<sess, disk, copy, asked, gone>>
  BY DEF History!PromptCommit, Running, Typed, Copied
<1>2. CASE run.ephemeral
  <2>1. run' = None /\ UNCHANGED <<prior, transcript, edited, plain>>
    BY <1>2 DEF History!PromptCommit
  <2>2. Running'
    BY <2>1 DEF Running
  <2>. QED
    BY <1>1, <1>2, <2>1, <2>2 DEF Typed, History!OwnTurns, History!Own, Files, Copied, Resumable, Plain, History!RewoundStaysOut
<1>3. CASE ~run.ephemeral
  <2>1. PICK sent \in History!Sent(run.base, run.text), answer \in {<<>>, <<History!Reply>>} :
          /\ prior' \in {h \o answer : h \in History!Compacted(sent)}
          /\ transcript' = Append(transcript, History!User(run.text)) \o answer
          /\ run' = [run EXCEPT !.at = "log", !.result = prior', !.answer = answer]
          /\ edited' = TRUE
          /\ plain' = (plain /\ prior' = sent \o answer)
    BY <1>3 DEF History!PromptCommit
  <2> DEFINE t == run.text
             asks == Append(transcript, History!User(t))
  <2>2. t \in Texts /\ prior \in Seq(Spoken) /\ transcript \in Seq(Spoken) /\ sess \in History!Sessions
    BY <1>1 DEF Runs, Typed
  <2>3. /\ sent \in Seq(Spoken) /\ sent # <<>> /\ sent \o answer \in Seq(Spoken)
        /\ History!PromptsIn(sent \o answer) = Append(History!PromptsIn(prior), t)
        /\ \A i \in DOMAIN sent : sent[i] \in {History!User(t), History!Reply, History!Note} \/ \E k \in DOMAIN prior : sent[i] = prior[k]
    <3>1. sent \in History!Sent(prior, t)
      BY <1>1, <2>1
    <3> HIDE DEF t
    <3>. QED
      BY <2>1, <2>2, <3>1, SentIs
  <2>4. PICK h \in History!Compacted(sent) : prior' = h \o answer
    BY <2>1
  <2>5. Made(h, sent)
    BY <2>3, CompactedIs
  <2>6. /\ History!User(t) \in Spoken /\ History!Reply \in Spoken /\ History!Note \in Spoken /\ History!User(t).text = t
        /\ History!Reply.text \notin Texts /\ History!Note.text \notin Texts /\ History!Stub.text \notin Texts
        /\ History!User(t).role = "user" /\ ~History!User(t).synthetic /\ History!Reply.role # "user" /\ History!Note.synthetic
    BY <2>2, TextsAssumption DEF History!User, History!Reply, History!Note, History!Stub, Spoken
  <2>7. /\ asks \in Seq(Spoken) /\ History!PromptsIn(asks) = Append(History!PromptsIn(transcript), t)
        /\ \A i \in DOMAIN asks : asks[i] = History!User(t) \/ \E k \in DOMAIN transcript : asks[i] = transcript[k]
    <3>1. asks \in Seq(Spoken) /\ Len(asks) = Len(transcript) + 1 /\ asks[Len(transcript) + 1] = History!User(t)
          /\ \A i \in 1..Len(transcript) : asks[i] = transcript[i]
      BY <2>2, <2>6, AppendProperties
    <3>2. DOMAIN asks = 1..Len(transcript) + 1 /\ DOMAIN transcript = 1..Len(transcript) /\ Len(transcript) \in Nat
      BY <2>2, <3>1, LenProperties
    <3>3. History!PromptsIn(asks) = Append(History!PromptsIn(transcript), t)
      BY <2>2, <2>6, PromptsAppend
    <3> HIDE DEF asks
    <3>. QED
      BY <3>1, <3>2, <3>3
  <2> HIDE DEF t, asks
  <2>8. /\ transcript' \in Seq(Spoken) /\ History!PromptsIn(transcript') = Append(History!PromptsIn(transcript), t)
        /\ \A i \in DOMAIN transcript' : transcript'[i] \in {History!User(t), History!Reply} \/ \E k \in DOMAIN transcript : transcript'[i] = transcript[k]
    <3>1. transcript' = asks \o answer
      BY <2>1 DEF asks, t
    <3>2. answer \in {<<>>, <<History!Reply>>}
      BY <2>1
    <3>3. /\ asks \o answer \in Seq(Spoken) /\ History!PromptsIn(asks \o answer) = History!PromptsIn(asks)
          /\ \A i \in DOMAIN (asks \o answer) :
               (asks \o answer)[i] = History!Reply \/ \E k \in DOMAIN asks : (asks \o answer)[i] = asks[k]
      BY <2>7, <3>2, AnswerAdded
    <3>4. /\ transcript' \in Seq(Spoken) /\ History!PromptsIn(transcript') = Append(History!PromptsIn(transcript), t)
          /\ \A i \in DOMAIN transcript' : transcript'[i] = History!Reply \/ \E k \in DOMAIN asks : transcript'[i] = asks[k]
      BY <2>7, <3>1, <3>3
    <3>5. \A k \in DOMAIN asks : asks[k] = History!User(t) \/ \E l \in DOMAIN transcript : asks[k] = transcript[l]
      BY <2>7
    <3>. QED
      BY <3>4, <3>5
  <2>9. /\ prior' \in Seq(Spoken) /\ prior' # <<>>
        /\ \A i \in DOMAIN prior' : prior'[i] \in {History!User(t), History!Reply, History!Note, History!Stub} \/ \E k \in DOMAIN prior : prior'[i] = prior[k]
    <3>1. h \in Seq(Spoken) /\ h # <<>> /\ \A j \in DOMAIN h : h[j] = History!Stub \/ \E k \in DOMAIN sent : h[j] = sent[k]
      BY <2>3, <2>5 DEF Made
    <3>2. /\ prior' \in Seq(Spoken) /\ prior' # <<>>
          /\ \A i \in DOMAIN prior' : prior'[i] = History!Reply \/ \E k \in DOMAIN h : prior'[i] = h[k]
      <4>1. answer \in {<<>>, <<History!Reply>>}
        BY <2>1
      <4>2. /\ h \o answer \in Seq(Spoken) /\ h \o answer # <<>>
            /\ \A i \in DOMAIN (h \o answer) :
                 (h \o answer)[i] = History!Reply \/ \E k \in DOMAIN h : (h \o answer)[i] = h[k]
        BY <3>1, <4>1, AnswerAdded
      <4>. QED
        BY <2>4, <4>2
    <3>3. \A k \in DOMAIN sent : sent[k] \in {History!User(t), History!Reply, History!Note} \/ \E l \in DOMAIN prior : sent[k] = prior[l]
      BY <2>3
    <3>. QED
      BY <3>1, <3>2, <3>3
  <2>10. Typed'
    <3>1. run' \in Runs
      BY <1>1, <2>1, <2>9 DEF Runs
    <3>. QED
      BY <1>1, <2>8, <2>9, <3>1 DEF Typed
  <2>11. History!Own(prior, sess)' /\ History!Own(transcript, sess)'
    <3>1. t \in asked[sess]
      BY <1>1, <1>3 DEF t
    <3>2. /\ \A k \in DOMAIN prior : prior[k].text \in Texts => prior[k].text \in asked[sess]
          /\ \A k \in DOMAIN transcript : transcript[k].text \in Texts => transcript[k].text \in asked[sess]
      BY DEF History!OwnTurns, History!Own
    <3>3. \A i \in DOMAIN prior' : prior'[i].text \in Texts => prior'[i].text \in asked[sess]
      BY <2>6, <2>9, <3>1, <3>2
    <3>4. \A i \in DOMAIN transcript' : transcript'[i].text \in Texts => transcript'[i].text \in asked[sess]
      BY <2>6, <2>8, <3>1, <3>2
    <3>. QED
      BY <1>1, <3>3, <3>4 DEF History!Own
  <2>12. History!OwnTurns'
    BY <1>1, <2>11 DEF History!OwnTurns, History!Own
  <2>13. Running'
    <3>1. run'.sess = sess /\ run'.at = "log" /\ run'.ephemeral = FALSE /\ run'.result = prior' /\ run'.text = run.text
      BY <1>1, <1>3, <2>1 DEF Runs
    <3>. QED
      BY <1>1, <1>3, <2>1, <2>9, <2>11, <3>1 DEF Running, History!Own
  <2>14. Plain'
    <3> SUFFICES ASSUME plain'
                 PROVE  /\ History!PromptsIn(prior') = History!PromptsIn(transcript')
                        /\ \A i \in DOMAIN prior' : prior'[i].text \in Texts <=> prior'[i].role = "user" /\ ~prior'[i].synthetic
                        /\ \A i \in DOMAIN transcript' : transcript'[i].text \in Texts <=> transcript'[i].role = "user"
      BY DEF Plain
    <3>1. plain /\ prior' = sent \o answer
      BY <2>1
    <3>2. \A i \in DOMAIN prior' : prior'[i] \in {History!User(t), History!Reply, History!Note} \/ \E k \in DOMAIN prior : prior'[i] = prior[k]
      <4>1. answer \in {<<>>, <<History!Reply>>}
        BY <2>1
      <4>2. \A i \in DOMAIN (sent \o answer) :
              (sent \o answer)[i] = History!Reply \/ \E k \in DOMAIN sent : (sent \o answer)[i] = sent[k]
        BY <2>3, <4>1, AnswerAdded
      <4>3. \A i \in DOMAIN prior' : prior'[i] = History!Reply \/ \E k \in DOMAIN sent : prior'[i] = sent[k]
        BY <3>1, <4>2
      <4>4. \A k \in DOMAIN sent : sent[k] \in {History!User(t), History!Reply, History!Note} \/ \E l \in DOMAIN prior : sent[k] = prior[l]
        BY <2>3
      <4>. QED
        BY <4>3, <4>4
    <3>3. t \in Texts
      BY <2>2 DEF t
    <3>4. /\ History!PromptsIn(prior) = History!PromptsIn(transcript)
          /\ \A i \in DOMAIN prior : prior[i].text \in Texts <=> prior[i].role = "user" /\ ~prior[i].synthetic
          /\ \A i \in DOMAIN transcript : transcript[i].text \in Texts <=> transcript[i].role = "user"
      BY <3>1 DEF Plain
    <3>5. History!PromptsIn(prior') = History!PromptsIn(transcript')
      BY <2>3, <2>8, <3>1, <3>4
    <3>6. \A i \in DOMAIN prior' : prior'[i].text \in Texts <=> prior'[i].role = "user" /\ ~prior'[i].synthetic
      BY <2>6, <3>2, <3>3, <3>4
    <3>7. \A i \in DOMAIN transcript' : transcript'[i].text \in Texts <=> transcript'[i].role = "user"
      BY <2>6, <2>8, <3>3, <3>4
    <3>. QED
      BY <3>5, <3>6, <3>7
  <2>15. History!RewoundStaysOut'
    <3>1. gone # None => gone \in Texts /\ t # gone
      BY <1>1, <1>3 DEF Typed, t
    <3>. QED
      BY <1>1, <2>6, <2>9, <3>1 DEF History!RewoundStaysOut
  <2>16. Files' /\ Copied' /\ Resumable'
    BY <1>1, <2>1 DEF Files, Copied, Resumable
  <2>. QED
    BY <2>10, <2>12, <2>13, <2>14, <2>15, <2>16
<1>. QED
  BY <1>2, <1>3

\* The file in use has other contents, of this session and none of it injected.
LEMMA FileChanged ==
  ASSUME HistoryInv, NEW h \in Seq(Spoken), NEW u \in Seq(Spoken), Unmarked(h), Unmarked(u),
         History!Own(h, sess), History!Own(u, sess), UNCHANGED <<sess, asked>>,
         DOMAIN disk' = History!Sessions, disk'[sess] = [hist |-> h, turns |-> u],
         \A s \in History!Sessions \ {sess} : disk'[s] = disk[s],
         disk' = [s \in History!Sessions |-> disk'[s]]
  PROVE  /\ disk' \in [History!Sessions -> [hist : Seq(Spoken), turns : Seq(Spoken)]] /\ Files'
         /\ \A s \in History!Sessions : History!Own(disk[s].hist, s)' /\ History!Own(disk[s].turns, s)'
<1> USE DEF HistoryInv
<1>1. sess \in History!Sessions /\ disk \in [History!Sessions -> [hist : Seq(Spoken), turns : Seq(Spoken)]]
  BY DEF Typed
<1>2. ASSUME NEW s \in History!Sessions PROVE disk'[s] \in [hist : Seq(Spoken), turns : Seq(Spoken)]
  <2>1. [hist |-> h, turns |-> u] \in [hist : Seq(Spoken), turns : Seq(Spoken)]
    OBVIOUS
  <2>2. CASE s = sess
    BY <2>1, <2>2
  <2>3. CASE s # sess
    BY <1>1, <2>3
  <2>. QED
    BY <2>2, <2>3
<1>3. ~(sess > sess)
  BY <1>1, SessionsAssumption DEF History!Sessions
<1>4. ASSUME NEW s \in History!Sessions
      PROVE  /\ Unmarked(disk'[s].hist) /\ Unmarked(disk'[s].turns)
             /\ s > sess => disk'[s] = [hist |-> <<>>, turns |-> <<>>]
  <2>1. CASE s = sess
    BY <1>3, <2>1
  <2>2. CASE s # sess
    BY <2>2 DEF Files
  <2>. QED
    BY <2>1, <2>2
<1>5. Files'
  BY <1>4 DEF Files, Unmarked
<1>6. ASSUME NEW s \in History!Sessions PROVE History!Own(disk[s].hist, s)' /\ History!Own(disk[s].turns, s)'
  <2>1. CASE s = sess
    BY <2>1 DEF History!Own
  <2>2. CASE s # sess
    BY <2>2 DEF History!OwnTurns, History!Own
  <2>. QED
    BY <2>1, <2>2
<1>. QED
  BY <1>2, <1>5, <1>6

\* The answer is logged.
LEMMA AnswerStep == ASSUME HistoryInv, History!PromptLog PROVE HistoryInv'
<1> USE DEF HistoryInv
<1>1. /\ run # None /\ run.at = "log" /\ run \in Runs /\ run.sess = sess /\ copy = None
      /\ ~run.ephemeral /\ edited /\ run.result # <<>> /\ History!Own(run.result, sess)
      /\ run.text \in asked[sess] /\ (gone # None => run.text # gone)
      /\ run' = [run EXCEPT !.at = "save"]
      /\ UNCHANGED <<prior, transcript, sess, copy, asked, edited, plain, gone>>
  BY DEF History!PromptLog, Running, Typed, Copied, History!live
<1>2. run' \in Runs /\ run' # None
  <2>1. run' \in Runs
    BY <1>1 DEF Runs
  <2>. QED
    BY <2>1, RunsAssumption DEF Runs
<1>3. /\ run'.at = "save" /\ run'.sess = run.sess /\ run'.ephemeral = run.ephemeral /\ run'.text = run.text
      /\ run'.result = run.result
  BY <1>1 DEF Runs
<1>4. /\ sess \in History!Sessions /\ disk \in [History!Sessions -> [hist : Seq(Spoken), turns : Seq(Spoken)]]
      /\ run.answer \in {<<>>, <<History!Reply>>}
  BY <1>1 DEF Typed, Runs
<1> DEFINE h == disk[sess].hist
           turns == disk[sess].turns
           u == turns \o run.answer
<1>5. /\ h \in Seq(Spoken) /\ turns \in Seq(Spoken) /\ Unmarked(h) /\ Unmarked(turns)
      /\ History!Own(h, sess) /\ History!Own(turns, sess)
  BY <1>4 DEF Files, History!OwnTurns
<1>6. CASE disk' = disk
  BY <1>1, <1>2, <1>3, <1>6 DEF Typed, History!OwnTurns, History!Own, Files, Running, Copied, Resumable, Plain, History!RewoundStaysOut
<1>7. CASE disk' = [disk EXCEPT ![run.sess].turns = @ \o run.answer]
  <2>1. disk'[sess] = [hist |-> h, turns |-> u] /\ DOMAIN disk' = History!Sessions
        /\ (\A s \in History!Sessions \ {sess} : disk'[s] = disk[s])
        /\ disk' = [s \in History!Sessions |-> disk'[s]]
    BY <1>1, <1>4, <1>7
  <2>2. History!Reply.text \notin Texts /\ ~History!Reply.synthetic
    BY TextsAssumption DEF History!Reply
  <2> HIDE DEF turns, h
  <2>3. /\ u \in Seq(Spoken)
        /\ \A i \in DOMAIN u : u[i] = History!Reply \/ \E k \in DOMAIN turns : u[i] = turns[k]
    BY <1>4, <1>5, AnswerAdded
  <2> HIDE DEF u
  <2>4. Unmarked(u) /\ History!Own(u, sess)
    BY <1>5, <2>2, <2>3 DEF Unmarked, History!Own
  <2>5. /\ disk' \in [History!Sessions -> [hist : Seq(Spoken), turns : Seq(Spoken)]] /\ Files'
        /\ \A s \in History!Sessions : History!Own(disk[s].hist, s)' /\ History!Own(disk[s].turns, s)'
    BY <1>1, <1>5, <2>1, <2>3, <2>4, FileChanged
  <2>6. Typed'
    BY <1>1, <1>2, <2>5 DEF Typed
  <2>7. History!OwnTurns'
    BY <1>1, <2>5 DEF History!OwnTurns, History!Own
  <2>8. Running'
    BY <1>1, <1>3 DEF Running, History!Own
  <2>. QED
    BY <1>1, <2>5, <2>6, <2>7, <2>8 DEF Copied, Resumable, Plain, History!RewoundStaysOut
<1>. QED
  BY <1>6, <1>7 DEF History!PromptLog

\* The history is saved, or the save fails.
LEMMA SaveStep == ASSUME HistoryInv, History!PromptSave PROVE HistoryInv'
<1> USE DEF HistoryInv
<1>1. /\ run # None /\ run.at = "save" /\ run \in Runs /\ run.sess = sess /\ copy = None /\ run' = None
      /\ ~run.ephemeral /\ edited /\ run.result # <<>> /\ History!Own(run.result, sess)
      /\ UNCHANGED <<prior, transcript, sess, copy, asked, plain, gone>>
  BY DEF History!PromptSave, Running, Typed, Copied, History!live
<1>2. /\ sess \in History!Sessions /\ disk \in [History!Sessions -> [hist : Seq(Spoken), turns : Seq(Spoken)]]
      /\ run.result \in Seq(Spoken) /\ prior \in Seq(Spoken)
  BY <1>1 DEF Typed, Runs
<1>3. Running' /\ Copied' /\ Plain' /\ History!RewoundStaysOut'
  BY <1>1 DEF Running, Copied, Plain, History!RewoundStaysOut
<1>4. CASE UNCHANGED <<disk, edited>>
  BY <1>1, <1>3, <1>4 DEF Typed, History!OwnTurns, History!Own, Files, Resumable
<1>5. CASE disk' = [disk EXCEPT ![run.sess].hist = History!Saved(run.result)] /\ edited' = (prior # run.result)
  <2> DEFINE h == History!Saved(run.result)
             turns == disk[sess].turns
  <2>1. disk'[sess] = [hist |-> h, turns |-> turns] /\ DOMAIN disk' = History!Sessions
        /\ (\A s \in History!Sessions \ {sess} : disk'[s] = disk[s])
        /\ disk' = [s \in History!Sessions |-> disk'[s]]
    BY <1>1, <1>2, <1>5
  <2>2. /\ h \in Seq(Spoken) /\ DOMAIN h = DOMAIN run.result /\ Unmarked(h) /\ h # <<>>
        /\ \A i \in DOMAIN run.result : h[i].text = run.result[i].text
    BY <1>1, <1>2, SavedIs
  <2>3. turns \in Seq(Spoken) /\ Unmarked(turns) /\ History!Own(turns, sess)
    BY <1>2 DEF Files, History!OwnTurns
  <2>4. History!Own(h, sess)
    <3> HIDE DEF h
    <3>. QED
      BY <1>1, <2>2 DEF History!Own
  <2> HIDE DEF turns
  <2>5. /\ disk' \in [History!Sessions -> [hist : Seq(Spoken), turns : Seq(Spoken)]] /\ Files'
        /\ \A s \in History!Sessions : History!Own(disk[s].hist, s)' /\ History!Own(disk[s].turns, s)'
    <3> HIDE DEF h
    <3>. QED
      BY <1>1, <2>1, <2>2, <2>3, <2>4, FileChanged
  <2>6. Typed'
    BY <1>1, <2>5 DEF Typed
  <2>7. History!OwnTurns'
    BY <1>1, <2>5 DEF History!OwnTurns, History!Own
  <2>8. Resumable'
    <3> SUFFICES ASSUME ~edited' PROVE History!Saved(prior') = History!Resumed(disk'[sess'])
      BY DEF Resumable, History!Saved, History!Resumed
    <3>1. prior' = run.result /\ sess' = sess
      BY <1>1, <1>5
    <3>2. History!Resumed(disk'[sess]) = h
      <4> HIDE DEF h
      <4>. QED
        BY <2>1, <2>2 DEF History!Resumed
    <3>. QED
      BY <3>1, <3>2
  <2>. QED
    BY <1>3, <2>5, <2>6, <2>7, <2>8
<1>. QED
  BY <1>4, <1>5 DEF History!PromptSave

\* Nothing said.
LEMMA NothingSaid ==
  /\ <<>> \in Seq(Spoken) /\ History!Saved(<<>>) = <<>> /\ DOMAIN <<>> = {}
  /\ History!Resumed([hist |-> <<>>, turns |-> <<>>]) = <<>>
  /\ \A s : History!Own(<<>>, s)
<1>1. <<>> \in Seq(Spoken) /\ DOMAIN <<>> = {}
  BY EmptySeq
<1>2. History!Saved(<<>>) = <<>>
  BY <1>1, SavedIs
<1>. QED
  BY <1>1, <1>2 DEF History!Resumed, History!Own

\* The start.
LEMMA InitStep == ASSUME History!Init PROVE HistoryInv
<1>1. /\ prior = <<>> /\ transcript = <<>> /\ sess = 1 /\ 1 \in History!Sessions
      /\ disk = [s \in History!Sessions |-> [hist |-> <<>>, turns |-> <<>>]]
      /\ run = None /\ copy = None /\ asked = [s \in History!Sessions |-> {}]
      /\ ~edited /\ plain /\ gone = None
  BY SessionsAssumption DEF History!Init, History!Sessions
<1>2. Typed
  <2>1. [hist |-> <<>>, turns |-> <<>>] \in [hist : Seq(Spoken), turns : Seq(Spoken)]
    BY NothingSaid
  <2>2. disk \in [History!Sessions -> [hist : Seq(Spoken), turns : Seq(Spoken)]]
    BY <1>1, <2>1
  <2>3. asked \in [History!Sessions -> SUBSET Texts]
    BY <1>1
  <2>. QED
    BY <1>1, <2>2, <2>3, NothingSaid DEF Typed
<1>3. \A s \in History!Sessions : disk[s] = [hist |-> <<>>, turns |-> <<>>]
  BY <1>1
<1>4. History!OwnTurns /\ Files
  BY <1>1, <1>3, NothingSaid DEF History!OwnTurns, Files, Unmarked
<1>5. Resumable
  BY <1>1, <1>3, NothingSaid DEF Resumable
<1>6. Plain
  BY <1>1, NothingSaid DEF Plain
<1>. QED
  BY <1>1, <1>2, <1>4, <1>5, <1>6 DEF HistoryInv, Running, Copied, History!RewoundStaysOut

\* A session begins on an empty file.
LEMMA BeginStep == ASSUME HistoryInv, Turnwise, History!BeginSession PROVE HistoryInv'
<1> USE DEF HistoryInv
<1>1. /\ run = None /\ copy = None /\ sess < MaxSessions /\ sess \in History!Sessions
      /\ prior' = <<>> /\ transcript' = <<>> /\ sess' = sess + 1 /\ gone' = None
      /\ UNCHANGED <<disk, run, copy, asked>>
  BY DEF History!BeginSession, History!Quiet, Typed
<1>2. sess' \in History!Sessions /\ sess' > sess /\ \A s \in History!Sessions : s > sess' => s > sess
  BY <1>1, SessionsAssumption DEF History!Sessions
<1>3. disk[sess'] = [hist |-> <<>>, turns |-> <<>>]
  BY <1>2 DEF Files
<1>4. Typed'
  BY <1>1, <1>2, NothingSaid DEF Typed
<1>5. History!OwnTurns'
  <2>1. History!Own(prior, sess)' /\ History!Own(transcript, sess)'
    BY <1>1, NothingSaid DEF History!Own
  <2>. QED
    BY <1>1, <2>1 DEF History!OwnTurns, History!Own
<1>6. Files'
  BY <1>1, <1>2 DEF Files, Unmarked
<1>7. Resumable'
  <2>1. History!Saved(prior') = History!Resumed(disk'[sess'])
    BY <1>1, <1>3, NothingSaid
  <2>. QED
    BY <2>1 DEF Resumable, History!Saved, History!Resumed
<1>8. Plain'
  <2>1. History!PromptsIn(prior)' = History!PromptsIn(transcript)'
    BY <1>1
  <2>. QED
    BY <1>1, <2>1, NothingSaid DEF Plain
<1>. QED
  BY <1>1, <1>4, <1>5, <1>6, <1>7, <1>8 DEF Running, Copied, History!RewoundStaysOut

\* Compact copies the history.
LEMMA CompactReadStep == ASSUME HistoryInv, Turnwise, History!CompactRead PROVE HistoryInv'
  BY DEF HistoryInv, History!CompactRead, History!live, Typed, History!OwnTurns, History!Own, Files, Unmarked, Running, Copied, Resumable, Plain,
         History!RewoundStaysOut

\* Compact writes back what it made of its copy, which is still the history.
LEMMA CompactWriteStep == ASSUME HistoryInv, History!CompactWrite PROVE HistoryInv'
<1> USE DEF HistoryInv
<1>1. /\ copy = prior /\ run = None /\ prior' \in History!Compacted(prior) /\ transcript' = History!Saved(prior')
      /\ copy' = None /\ edited' /\ ~plain' /\ UNCHANGED <<sess, disk, run, asked, gone>>
  BY DEF History!CompactWrite, Copied, History!ToPublic
<1>2. prior \in Seq(Spoken) /\ sess \in History!Sessions /\ gone \in Texts \cup {None}
  BY DEF Typed
<1>3. Made(prior', prior)
  BY <1>1, <1>2, CompactedIs
<1>4. /\ prior' \in Seq(Spoken)
      /\ \A j \in DOMAIN prior' : prior'[j] = History!Stub \/ \E k \in DOMAIN prior : prior'[j] = prior[k]
  BY <1>3 DEF Made
<1>5. /\ History!Saved(prior') \in Seq(Spoken) /\ DOMAIN History!Saved(prior') = DOMAIN prior'
      /\ \A i \in DOMAIN prior' : History!Saved(prior')[i].text = prior'[i].text
  BY <1>4, SavedIs
<1>6. History!Stub.text \notin Texts
  BY TextsAssumption DEF History!Stub
<1>7. Typed'
  BY <1>1, <1>4, <1>5 DEF Typed
<1>8. \A j \in DOMAIN prior' : prior'[j].text \in Texts => prior'[j].text \in asked[sess]
  <2>1. \A k \in DOMAIN prior : prior[k].text \in Texts => prior[k].text \in asked[sess]
    BY DEF History!OwnTurns, History!Own
  <2>. QED
    BY <1>4, <1>6, <2>1
<1>9. History!OwnTurns'
  <2>1. History!Own(prior, sess)'
    BY <1>1, <1>8 DEF History!Own
  <2>2. History!Own(transcript, sess)'
    BY <1>1, <1>5, <1>8 DEF History!Own
  <2>. QED
    BY <1>1, <2>1, <2>2 DEF History!OwnTurns, History!Own
<1>10. History!RewoundStaysOut'
  <2>1. gone # None => \A k \in DOMAIN prior : prior[k].text # gone
    BY DEF History!RewoundStaysOut
  <2>. QED
    BY <1>1, <1>2, <1>4, <1>6, <2>1 DEF History!RewoundStaysOut
<1>. QED
  BY <1>1, <1>7, <1>9, <1>10 DEF Files, Unmarked, Running, Copied, Resumable, Plain

\* A resume reads the file.
LEMMA RestartStep == ASSUME HistoryInv, History!Restart PROVE HistoryInv'
<1> USE DEF HistoryInv
<1>1. /\ prior' = History!Resumed(disk[sess]) /\ transcript' = disk[sess].turns /\ run' = None /\ copy' = None
      /\ ~edited' /\ ~plain' /\ gone' = None /\ UNCHANGED <<sess, disk, asked>>
  BY DEF History!Restart
<1>2. sess \in History!Sessions /\ disk[sess].hist \in Seq(Spoken) /\ disk[sess].turns \in Seq(Spoken)
  BY DEF Typed
<1>3. prior' \in Seq(Spoken) /\ Unmarked(prior') /\ History!Own(prior', sess)
  BY <1>1, <1>2 DEF History!Resumed, Files, History!OwnTurns
<1>4. Typed'
  BY <1>1, <1>2, <1>3 DEF Typed
<1>5. History!OwnTurns'
  BY <1>1, <1>2, <1>3 DEF History!OwnTurns, History!Own
<1>6. Resumable'
  <2>1. History!Saved(prior') = prior'
    BY <1>3, SavedIs
  <2>. QED
    BY <1>1, <2>1 DEF Resumable, History!Saved, History!Resumed
<1>. QED
  BY <1>1, <1>4, <1>5, <1>6 DEF Files, Unmarked, Running, Copied, Plain, History!RewoundStaysOut

\* Lists without a prompt, and what the prompts of a list are.
LEMMA PromptsNone ==
  ASSUME NEW s \in Seq(Spoken)
  PROVE  /\ History!PromptsIn(s) \in Seq(Texts)
         /\ (\A i \in DOMAIN s : s[i].text \notin Texts) => History!PromptsIn(s) = <<>>
<1> DEFINE n == Len(s)
<1>1. n \in Nat /\ DOMAIN s = 1..n /\ <<>> \in Seq(Texts)
  BY LenProperties, EmptySeq
<1>2. PICK r : Counts(s, r) /\ History!PromptsIn(s) = r[n]
  BY PromptsRun
<1> DEFINE Fits(b) == b \in Seq(Texts) /\ ((\A k \in DOMAIN s : s[k].text \notin Texts) => b = <<>>)
           T == {i \in 0..n : Fits(r[i])}
<1>3. 0 \in T
  <2>1. r[0] = <<>>
    BY <1>2 DEF Counts
  <2>2. Fits(r[0])
    BY <1>1, <2>1
  <2> HIDE DEF Fits, n
  <2>. QED
    BY <1>1, <2>2
<1>4. ASSUME NEW i \in 1..n, i - 1 \in T PROVE i \in T
  <2>1. r[i] = IF s[i].text \in Texts THEN Append(r[i - 1], s[i].text) ELSE r[i - 1]
    BY <1>2 DEF Counts
  <2>2. i \in DOMAIN s /\ i \in 0..n
    BY <1>1
  <2>3. Fits(r[i - 1])
    BY <1>4
  <2>4. CASE s[i].text \in Texts
    <3> DEFINE b == r[i - 1]
               x == s[i].text
    <3>1. b \in Seq(Texts) /\ x \in Texts /\ r[i] = Append(b, x)
      BY <2>1, <2>3, <2>4
    <3> HIDE DEF b, x
    <3>2. r[i] \in Seq(Texts)
      BY <3>1, AppendProperties
    <3>3. ~\A k \in DOMAIN s : s[k].text \notin Texts
      BY <2>2, <2>4
    <3>. QED
      BY <2>2, <3>2, <3>3
  <2>5. CASE s[i].text \notin Texts
    BY <2>1, <2>2, <2>3, <2>5
  <2>. QED
    BY <2>4, <2>5
<1>5. n \in T
  <2> HIDE DEF T, n, Fits
  <2>1. \A i \in 0..n : i \in T
    BY <1>1, <1>3, <1>4, Climb
  <2>. QED
    BY <1>1, <2>1
<1>. QED
  BY <1>2, <1>5

\* Lists equal up to their last elements.
LEMMA AppendsEqual ==
  ASSUME NEW a \in Seq(Texts), NEW b \in Seq(Texts), NEW x \in Texts, NEW y \in Texts, Append(a, x) = Append(b, y)
  PROVE  a = b
  BY SMTT(30)

\* A list with an element more.
LEMMA AppendNotEmpty ==
  ASSUME NEW a \in Seq(Texts), NEW x \in Texts PROVE Append(a, x) # <<>>
  OBVIOUS

\* The first messages of a list.
LEMMA FirstOf ==
  ASSUME NEW s \in Seq(Spoken), NEW k \in 1..Len(s)
  PROVE  /\ SubSeq(s, 1, k - 1) \in Seq(Spoken)
         /\ \A i \in DOMAIN SubSeq(s, 1, k - 1) : i \in DOMAIN s /\ i \in 1..k - 1 /\ SubSeq(s, 1, k - 1)[i] = s[i]
<1> DEFINE t == SubSeq(s, 1, k - 1)
<1>1. Len(s) \in Nat /\ DOMAIN s = 1..Len(s) /\ k - 1 \in Nat
  BY LenProperties
<1>2. t \in Seq(Spoken) /\ Len(t) = k - 1 /\ \A i \in 1..k - 1 : t[i] = s[i]
  BY <1>1
<1> HIDE DEF t
<1>3. DOMAIN t = 1..k - 1
  BY <1>2, LenProperties
<1>4. \A i \in DOMAIN t : i \in DOMAIN s /\ i \in 1..k - 1 /\ t[i] = s[i]
  BY <1>1, <1>2, <1>3
<1>. QED
  BY <1>2, <1>4 DEF t

\* Rewind drops the last prompt from the history and from the transcript: until something
\* is compacted or resumed, it is the same one.
LEMMA RewindStep == ASSUME HistoryInv, Turnwise, History!Rewind PROVE HistoryInv'
<1> USE DEF HistoryInv
<1> DEFINE i == History!LastPrompt(prior)
           j == History!LastUser(transcript)
           front == SubSeq(prior, 1, i - 1)
           shown == SubSeq(transcript, 1, j - 1)
<1>1. /\ run = None /\ copy = None /\ i > 0 /\ said' = prior[i].text /\ prior' = front
      /\ transcript' = IF j > 0 THEN shown ELSE transcript
      /\ gone' = IF said' \in Texts /\ \A k \in 1..i - 1 : prior[k].text # said' THEN said' ELSE None
      /\ edited' /\ UNCHANGED <<sess, disk, run, copy, asked, plain>>
  BY DEF History!Rewind, History!Quiet
<1>2. prior \in Seq(Spoken) /\ transcript \in Seq(Spoken) /\ sess \in History!Sessions /\ Len(prior) \in Nat
      /\ Len(transcript) \in Nat /\ DOMAIN prior = 1..Len(prior) /\ DOMAIN transcript = 1..Len(transcript)
  BY LenProperties DEF Typed
<1>3. /\ i \in 0..Len(prior) /\ (i # 0 => prior[i].role = "user" /\ ~prior[i].synthetic)
      /\ \A k \in i + 1..Len(prior) : ~(prior[k].role = "user" /\ ~prior[k].synthetic)
  BY <1>2, LastPromptIs
<1>4. /\ j \in 0..Len(transcript) /\ (j # 0 => transcript[j].role = "user")
      /\ \A k \in j + 1..Len(transcript) : transcript[k].role # "user"
  BY <1>2, LastUserIs
<1> HIDE DEF i, j
<1>5. i \in 1..Len(prior) /\ i \in DOMAIN prior
  BY <1>1, <1>2, <1>3
<1>6. front \in Seq(Spoken) /\ \A k \in DOMAIN front : k \in DOMAIN prior /\ k \in 1..i - 1 /\ front[k] = prior[k]
  BY <1>2, <1>5, FirstOf
<1>7. j > 0 => /\ j \in 1..Len(transcript) /\ shown \in Seq(Spoken)
               /\ \A k \in DOMAIN shown : k \in DOMAIN transcript /\ shown[k] = transcript[k]
  <2>1. j > 0 => j \in 1..Len(transcript)
    BY <1>2, <1>4
  <2>. QED
    BY <1>2, <2>1, FirstOf
<1>8. /\ transcript' \in Seq(Spoken)
      /\ \A k \in DOMAIN transcript' : k \in DOMAIN transcript /\ transcript'[k] = transcript[k]
  <2> HIDE DEF shown
  <2>. QED
    BY <1>1, <1>2, <1>7
<1>9. gone' \in Texts \cup {None}
  BY <1>1
<1>10. Typed'
  <2> HIDE DEF front
  <2>. QED
    BY <1>1, <1>6, <1>8, <1>9 DEF Typed
<1>11. History!OwnTurns'
  <2> HIDE DEF front
  <2>1. History!Own(prior, sess)'
    <3>1. \A k \in DOMAIN prior : prior[k].text \in Texts => prior[k].text \in asked[sess]
      BY DEF History!OwnTurns, History!Own
    <3>. QED
      BY <1>1, <1>6, <3>1 DEF History!Own
  <2>2. History!Own(transcript, sess)'
    <3>1. \A k \in DOMAIN transcript : transcript[k].text \in Texts => transcript[k].text \in asked[sess]
      BY DEF History!OwnTurns, History!Own
    <3>. QED
      BY <1>1, <1>8, <3>1 DEF History!Own
  <2>. QED
    BY <1>1, <2>1, <2>2 DEF History!OwnTurns, History!Own
<1>12. History!RewoundStaysOut'
  <2> HIDE DEF front
  <2>1. gone' # None => gone' = said' /\ \A k \in 1..i - 1 : prior[k].text # said'
    BY <1>1
  <2>. QED
    BY <1>1, <1>6, <2>1 DEF History!RewoundStaysOut
<1>13. Plain'
  <2> SUFFICES ASSUME plain'
               PROVE  /\ History!PromptsIn(prior') = History!PromptsIn(transcript')
                      /\ \A k \in DOMAIN prior' : prior'[k].text \in Texts <=> prior'[k].role = "user" /\ ~prior'[k].synthetic
                      /\ \A k \in DOMAIN transcript' : transcript'[k].text \in Texts <=> transcript'[k].role = "user"
    BY DEF Plain
  <2>1. /\ History!PromptsIn(prior) = History!PromptsIn(transcript)
        /\ \A k \in DOMAIN prior : prior[k].text \in Texts <=> prior[k].role = "user" /\ ~prior[k].synthetic
        /\ \A k \in DOMAIN transcript : transcript[k].text \in Texts <=> transcript[k].role = "user"
    BY <1>1 DEF Plain
  <2>2. prior[i].text \in Texts
    BY <1>1, <1>3, <1>5, <2>1
  <2>3. \A k \in i + 1..Len(prior) : prior[k].text \notin Texts
    <3>1. \A k \in i + 1..Len(prior) : k \in DOMAIN prior
      BY <1>2, <1>5
    <3>. QED
      BY <1>3, <2>1, <3>1
  <2>4. History!PromptsIn(prior) = Append(History!PromptsIn(front), prior[i].text)
    BY <1>2, <1>5, <2>2, <2>3, PromptsLast
  <2>5. History!PromptsIn(front) \in Seq(Texts)
    <3> HIDE DEF front
    <3>. QED
      BY <1>6, PromptsNone
  <2>6. j > 0
    <3> SUFFICES ASSUME j = 0 PROVE FALSE
      BY <1>4, <1>2
    <3>1. \A k \in DOMAIN transcript : transcript[k].text \notin Texts
      BY <1>2, <1>4, <2>1
    <3>2. History!PromptsIn(transcript) = <<>>
      BY <1>2, <3>1, PromptsNone
    <3> DEFINE p == History!PromptsIn(front)
    <3>3. Append(p, prior[i].text) = <<>> /\ p \in Seq(Texts)
      BY <2>1, <2>4, <2>5, <3>2
    <3> HIDE DEF p
    <3>. QED
      BY <2>2, <3>3, AppendNotEmpty
  <2>7. transcript[j].text \in Texts /\ j \in 1..Len(transcript)
    BY <1>2, <1>4, <1>7, <2>1, <2>6
  <2>8. \A k \in j + 1..Len(transcript) : transcript[k].text \notin Texts
    <3>1. \A k \in j + 1..Len(transcript) : k \in DOMAIN transcript
      BY <1>2, <2>7
    <3>. QED
      BY <1>4, <2>1, <3>1
  <2>9. History!PromptsIn(transcript) = Append(History!PromptsIn(shown), transcript[j].text)
    BY <1>2, <2>7, <2>8, PromptsLast
  <2>10. History!PromptsIn(shown) \in Seq(Texts)
    <3> HIDE DEF shown
    <3>. QED
      BY <1>7, <2>6, PromptsNone
  <2>11. History!PromptsIn(front) = History!PromptsIn(shown)
    <3> DEFINE p == History!PromptsIn(front)
               q == History!PromptsIn(shown)
    <3>1. p \in Seq(Texts) /\ q \in Seq(Texts) /\ Append(p, prior[i].text) = Append(q, transcript[j].text)
      BY <2>1, <2>4, <2>5, <2>9, <2>10
    <3> HIDE DEF p, q
    <3>2. p = q
      BY <2>2, <2>7, <3>1, AppendsEqual
    <3>. QED
      BY <3>2 DEF p, q
  <2>12. prior' = front /\ transcript' = shown
    BY <1>1, <2>6
  <2> HIDE DEF front, shown
  <2>13. History!PromptsIn(prior') = History!PromptsIn(transcript')
    BY <2>11, <2>12
  <2>14. \A k \in DOMAIN prior' : prior'[k].text \in Texts <=> prior'[k].role = "user" /\ ~prior'[k].synthetic
    BY <1>1, <1>6, <2>1
  <2>15. \A k \in DOMAIN transcript' : transcript'[k].text \in Texts <=> transcript'[k].role = "user"
    BY <1>8, <2>1
  <2>. QED
    BY <2>13, <2>14, <2>15
<1>14. Files' /\ Running' /\ Copied' /\ Resumable'
  BY <1>1 DEF Files, Unmarked, Running, Copied, Resumable
<1>. QED
  BY <1>10, <1>11, <1>12, <1>13, <1>14

\* Every step.
LEMMA NextStep == ASSUME HistoryInv, Turnwise, History!Next PROVE HistoryInv'
  BY StartStep, CommitStep, AnswerStep, SaveStep, BeginStep, CompactReadStep, CompactWriteStep, RewindStep, RestartStep
     DEF History!Next

\* A session holds its own turns only, what the host shows and what the model
\* sees are the same prompts until something is compacted or resumed, a resume
\* finds the history the engine has unless it was edited or could not be saved,
\* and a turn that Rewind dropped stays out of the history, for any prompts,
\* numbers of sessions and restarts, when the host edits the history only
\* between prompts (Engine.PromptWith, Compact, Rewind, BeginSession, New).
THEOREM HistoryStaysKept == ASSUME Turnwise PROVE MCSpec => []HistoryKept
<1>1. MCInit => HistoryInv
  BY InitStep DEF MCInit
<1>2. HistoryInv /\ [MCNext]_<<part, vars, history>> => HistoryInv'
  <2> SUFFICES ASSUME HistoryInv, [MCNext]_<<part, vars, history>> PROVE HistoryInv'
    OBVIOUS
  <2>1. CASE History!Next
    BY <2>1, NextStep
  <2>2. CASE UNCHANGED history
    BY <2>2 DEF history, HistoryInv, Typed, History!OwnTurns, History!Own, Files, Unmarked, Running, Copied, Resumable,
                Plain, History!RewoundStaysOut
  <2>. QED
    BY <2>1, <2>2 DEF MCNext
<1>3. HistoryInv => HistoryKept
  <2> SUFFICES ASSUME HistoryInv PROVE HistoryKept
    OBVIOUS
  <2>1. History!OwnTurns /\ History!RewoundStaysOut
    BY DEF HistoryInv
  <2>2. History!TranscriptAligned
    BY DEF HistoryInv, Plain, History!TranscriptAligned
  <2>3. History!ResumeFaithful
    BY DEF HistoryInv, Resumable, History!ResumeFaithful
  <2>. QED
    BY <2>1, <2>2, <2>3 DEF HistoryKept, TurnsInPlace, ResumesAsLeft
<1>. QED
  BY <1>1, <1>2, <1>3, PTL DEF MCSpec
================================================================================

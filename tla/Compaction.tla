----------------------------- MODULE Compaction -----------------------------
(***************************************************************************)
(* The context of a session against its budget: what applyCompact (the     *)
(* loop's own compaction, internal/agent/loop_tools.go), the forced        *)
(* compaction after an overflow (loop.go) and Engine.Compact make of a     *)
(* history with the algorithm of internal/agent/compact.go.  AgentLoop     *)
(* takes any window for the outcome; here the sizes decide.                *)
(*                                                                         *)
(* A message has a size, in units of 200 characters, and what its text     *)
(* says: the things the user wants.  A text that is cut has the size it    *)
(* was cut to.  A token is a unit as well: the calibrated ratio stays at   *)
(* its seed, and a provider may bill more than the estimate.               *)
(*                                                                         *)
(* An operator whose comment starts with "Fault:" is a wrong version of    *)
(* the definition below it, used to see that a property notices.           *)
(***************************************************************************)
EXTENDS Conversation, SequencesExt

CONSTANTS
    Tasks,       \* what the user may ask for
    Replies,     \* what the model may answer with calls: [sizes, nudged], the sizes
                 \* of their results and whether a note follows them
    Priors,      \* what a session may be resumed with: [task, turns], the turns
                 \* sequences of sizes
    Budget,      \* EffectiveCompactTokens
    ToolLimit,   \* MaxToolResultChars
    OlderAfter,  \* olderAfterToolMsgs
    KeepLast,    \* keepLastForBudget at this budget
    MaxPins,     \* pinBudget at this budget
    HostTargets, \* what a host may pass to Engine.Compact; 0 is none
    MaxForced,   \* maxOverflowRetries
    MaxCompacts, \* bound: compactions the host asks for
    MaxAsks,     \* bound: prompts
    MaxAnswers   \* bound: answers of the model

\* minSnippedToolChars, minBody of Engine.Compact, and the sizes of the texts.
Floor      == 4
MinBody    == 10
SystemSize == 3
StubSize   == 2

\* A limit of results below Floor is one that Snip does not keep to.
ContextAssumption ==
    /\ \A r \in Replies : r.sizes \in Seq(Nat) /\ r.sizes # <<>> /\ r.nudged \in BOOLEAN
    /\ \A p \in Priors : p.turns \in Seq(Seq(Nat))
    /\ ToolLimit \in Nat /\ ToolLimit >= Floor
    /\ KeepLast \in Nat /\ KeepLast >= 4
    /\ MaxPins \in Nat \ {0}
    /\ Budget \in Nat /\ HostTargets \subseteq Nat
    /\ {OlderAfter, MaxForced, MaxCompacts, MaxAsks, MaxAnswers} \subseteq Nat

VARIABLES
    at,       \* "idle": between prompts; "turn": top of the loop; "call"
    history,  \* messages in a run, Engine.prior between prompts
    sent,     \* history: the last request, if no compaction came after it
    billed,   \* Options.LastInputTokens of the run
    provider, \* Engine.lastProviderTokens, each [tokens, stale]: stale is a
              \* history variable, TRUE after a compaction of what was billed
    forced,   \* overflowRetries
    compacts, \* compactions the host asked for
    asks,     \* prompts so far
    answers,  \* answers so far
    last      \* history: the last step's compaction

vars == <<at, history, sent, billed, provider, forced, compacts, asks, answers, last>>

-----------------------------------------------------------------------------
(* Messages                                                                *)

Text(kind, says, size) == [role |-> "user", ids |-> <<>>, kind |-> kind, says |-> says, size |-> size]
Part(role, ids, size)  == [role |-> role, ids |-> ids, kind |-> role, says |-> <<>>, size |-> size]

System    == Part("system", <<>>, SystemSize)
Ask(t)    == Text("ask", <<t>>, 1)
Ping      == Text("ping", <<"ok">>, 1)     \* isTrivialUser
Nudge     == Text("note", <<"nudge">>, 1)  \* a steer, or a warning of the loop
Summary   == Text("note", <<"summary">>, StubSize)
Anchor(p) == Text("anchor", p, Len(p))

IsUser(m) == m.role = "user"
IsText(m) == m.kind \in {"ask", "note", "ping"}
Says(m)   == {m[i].says : i \in {j \in DOMAIN m : IsText(m[j])}}

EstChars(m) ==
    LET upTo[i \in 0 .. Len(m)] == IF i = 0 THEN 0 ELSE upTo[i - 1] + m[i].size
    IN  upTo[Len(m)]

-----------------------------------------------------------------------------
(* Shortening                                                              *)

Least(a, b) == IF a < b THEN a ELSE b
Most(a, b)  == IF a > b THEN a ELSE b

\* TruncateToolResult: head and tail stay, a frame stays closed, the size is the limit.
Truncated(size, limit) == Least(size, limit)

\* trimAllToolResults: the last OlderAfter results are cut to one size, those
\* before them to another.
Trim(m, recent, older) ==
    [i \in DOMAIN m |->
        IF m[i].role # "tool" THEN m[i]
        ELSE LET age == Cardinality({j \in i .. Len(m) : m[j].role = "tool"})
             IN  [m[i] EXCEPT !.size = Truncated(@, IF age > OlderAfter THEN older ELSE recent)]]

\* Fault: what is older is cut on every request.
CapByAge(m) == Trim(m, ToolLimit, ToolLimit \div 2)

\* capToolResults
Cap(m) == Trim(m, ToolLimit, ToolLimit)

\* snipLongestToolResults: the longest first, and no further than needed.
Longest(m, S) == First({i \in S : \A j \in S : m[j].size <= m[i].size})

Cut(m, i, target) ==
    LET need == EstChars(m) - target
        most == Least(m[i].size, Most(ToolLimit, Floor))
    IN  [m EXCEPT ![i].size = IF need > 0 THEN Least(most, Most(Floor, @ - need)) ELSE most]

Snip(m, target) ==
    LET long == {i \in DOMAIN m : m[i].role = "tool" /\ m[i].size > Floor}
        upTo[k \in 0 .. Cardinality(long)] ==
            IF k = 0 THEN [cut |-> m, left |-> long]
            ELSE LET r == upTo[k - 1]
                     i == Longest(r.cut, r.left)
                 IN  [cut |-> Cut(r.cut, i, target), left |-> r.left \ {i}]
    IN  upTo[Cardinality(long)].cut

\* compactSnippet: an anchor that is cut has room for as many intents as its size.
Shorten(m, size) ==
    [i \in DOMAIN m |->
        IF m[i].kind \in {"anchor", "stub"} /\ m[i].size > size
        THEN [m[i] EXCEPT !.size = size,
                          !.says = IF m[i].kind = "anchor" THEN SubSeq(@, 1, size) ELSE <<>>]
        ELSE m[i]]

\* shrinkAnchors
ShrinkAnchors(m, target) ==
    LET Less(s, size) == IF EstChars(s) <= target THEN s ELSE Shorten(s, size)
    IN  Less(Less(Less(m, 6), 2), 1)

-----------------------------------------------------------------------------
(* Dropping                                                                *)

\* collectUserPins: the first intents of the user that the window does not hold;
\* a trivial one if there is no other.
Pins(all, kept) ==
    LET Add(p, m) ==
            IF \/ ~IsText(m) \/ m.kind = "ping" \/ m.says \in Says(kept)
               \/ Len(p) = MaxPins \/ Contains(p, m.says[1])
            THEN p ELSE Append(p, m.says[1])
        upTo[i \in 0 .. Len(all)] == IF i = 0 THEN <<>> ELSE Add(upTo[i - 1], all[i])
        intents == upTo[Len(all)]
        texts   == {i \in DOMAIN all : IsText(all[i])}
    IN  IF intents = <<>> /\ texts # {} /\ all[First(texts)].says \notin Says(kept)
        THEN all[First(texts)].says ELSE intents

\* defaultCompactStub: without pins it quotes what the user said in what goes, an
\* anchor included, the first and the last two when there are many.
Stub(dropped, pins) ==
    LET users == InOrder(Len(dropped),
                         {i \in DOMAIN dropped : IsUser(dropped[i]) /\ dropped[i].kind # "stub"})
        n     == Len(users)
        shown == IF n > 4 THEN <<users[1], users[n - 1], users[n]>> ELSE users
        says  == FlattenSeq([i \in DOMAIN shown |-> dropped[shown[i]].says])
    IN  IF pins = <<>> THEN Text("stub", says, StubSize + Len(shown)) ELSE Text("stub", <<>>, StubSize)

\* One round of CompactOpts: the system message, the pins, the stub, the window.
Rebuilt(m, keep, target, summary) ==
    LET rest    == Tail(m)
        dropped == SubSeq(rest, 1, Len(rest) - keep)
        kept    == AlignKeepAtUser(SubSeq(rest, Len(rest) - keep + 1, Len(rest)))
        pins    == Pins(rest, kept)
        out     == <<m[1]>> \o (IF pins = <<>> THEN <<>> ELSE <<Anchor(pins)>>)
                      \o <<IF summary THEN Summary ELSE Stub(dropped, pins)>> \o kept
        Less(s, recent, older) == IF EstChars(s) <= target THEN s ELSE Trim(s, recent, older)
    IN  ShrinkAnchors(Less(Less(out, ToolLimit \div 3, Floor), Floor, Floor \div 2), target)

\* The windows: half as many messages each time, down to two.
Windows == {2} \cup {k \in 2 .. KeepLast : \E i \in 0 .. KeepLast : k = KeepLast \div (2 ^ i)}

\* CompactOpts: the widest window that fits, or else the last.
CompactOpts(m, target, summary) ==
    LET trimmed == Trim(m, ToolLimit, ToolLimit \div 2)
        rounds  == {[keep |-> k, out |-> Rebuilt(trimmed, k, target, summary)] : k \in Windows}
        fitting == {r \in rounds : EstChars(r.out) <= target}
        widest  == IF fitting = {} THEN 2 ELSE Max({r.keep : r \in fitting})
    IN  IF Len(m) <= 3 \/ EstChars(trimmed) <= target THEN trimmed
        ELSE IF Len(m) - 1 <= KeepLast THEN Trim(trimmed, ToolLimit \div 2, ToolLimit \div 4)
        ELSE (CHOOSE r \in rounds : r.keep = widest).out

\* CompactTiered
Compact(m, target, summary) ==
    LET snipped == Snip(m, target)
    IN  IF EstChars(snipped) <= target THEN [layer |-> "snip", messages |-> snipped]
        ELSE [layer |-> "drop", messages |-> CompactOpts(snipped, target, summary)]

Saved(m, r) == EstChars(r.messages) < EstChars(m)

\* CompactResumeBudget
Resume(budget) == Least(Most((7 * budget) \div 10, 1), Most(budget - 1, 1))

-----------------------------------------------------------------------------
(* The run                                                                 *)

\* What a step's compaction was: its layer, and whose summary it was given.
Done(layer, host, own) == [layer |-> layer, host |-> host, own |-> own]
None     == Done("none", FALSE, FALSE)
Unbilled == [tokens |-> 0, stale |-> FALSE]

Turn(n, b) ==
    LET ids == [i \in DOMAIN b |-> <<n, i>>]
    IN  <<Part("assistant", ids, 1)>> \o [i \in DOMAIN b |-> Part("tool", <<ids[i]>>, b[i])]

\* A session begins with its system prompt; a resumed one has done some work before.
Resumed(p) ==
    LET n == Len(p.turns)
        upTo[i \in 0 .. n] ==
            IF i = 0 THEN <<System, Ask(p.task)>> ELSE upTo[i - 1] \o Turn(i - n, p.turns[i])
    IN  upTo[n]

Init ==
    /\ at = "idle" /\ sent = <<>>
    /\ history \in {<<System>>} \cup {Resumed(p) : p \in Priors}
    /\ billed = Unbilled /\ provider = Unbilled
    /\ forced = 0 /\ compacts = 0 /\ asks = 0 /\ answers = 0 /\ last = None

\* The end of applyCompact when the budget is exceeded.  If it saves anything, the
\* PreCompact hooks are asked: the host's may fail the run, skip, or give a summary;
\* then the engine's archives the history and may give one of its own.
Hooked(m, target) ==
    LET probe == Compact(m, target, FALSE)
        End(how, r, host, own) ==
            [how |-> how, messages |-> r.messages, last |-> Done(r.layer, host, own)]
    IN  IF ~Saved(m, probe) THEN {End("done", probe, FALSE, FALSE)}
        ELSE {End(how, probe, FALSE, FALSE) : how \in {"failed", "skipped"}}
             \cup {End("done", Compact(m, target, host \/ own), host, own) : host, own \in BOOLEAN}

\* Engine.Prompt: the run starts with what the provider last billed.
Prompt(m) ==
    /\ at = "idle" /\ asks < MaxAsks
    /\ asks' = asks + 1
    /\ history' = Append(history, m)
    /\ billed' = provider
    /\ forced' = 0 /\ at' = "turn" /\ last' = None
    /\ UNCHANGED <<sent, provider, compacts, answers>>

Over == Most(EstChars(history), billed.tokens) >= Budget

\* Under budget nothing but the cap of each result; over it, the compacted
\* history is the run's from here on, whatever the call brings.
Send ==
    /\ at = "turn"
    /\ \/ /\ ~Over
          /\ sent' = Cap(history) /\ at' = "call" /\ last' = None
          /\ UNCHANGED <<history, billed, provider>>
       \/ /\ Over
          /\ \E o \in Hooked(history, Resume(Budget)) :
                \/ /\ o.how = "failed" /\ at' = "idle" /\ last' = None
                   /\ UNCHANGED <<history, sent, billed, provider>>
                \/ /\ o.how = "skipped" /\ at' = "call" /\ last' = None
                   /\ sent' = Cap(history)
                   /\ UNCHANGED <<history, billed, provider>>
                \/ /\ o.how = "done" /\ at' = "call" /\ last' = o.last
                   /\ history' = o.messages /\ sent' = o.messages
                   /\ billed' = Unbilled /\ provider' = [provider EXCEPT !.stale = TRUE]
    /\ UNCHANGED <<forced, compacts, asks, answers>>

\* The model's answer, with the results of its calls, and what is said after them.
\* The provider says nothing of its bill, as good as one that is the estimate, or
\* bills more: the budget.
Answer(b, notes) ==
    /\ at = "call" /\ answers < MaxAnswers
    /\ answers' = answers + 1
    /\ history' = history \o Turn(answers + 1, b) \o notes
    /\ \/ UNCHANGED <<billed, provider>>
       \/ /\ billed' = [tokens |-> Budget, stale |-> FALSE]
          /\ provider' = billed'
    /\ at' = IF b = <<>> THEN "idle" ELSE "turn"
    /\ last' = None
    /\ UNCHANGED <<sent, forced, compacts, asks>>

Reply ==
    \/ Answer(<<>>, <<>>)
    \/ \E r \in Replies : Answer(r.sizes, IF r.nudged THEN <<Nudge>> ELSE <<>>)

\* The call failed, or was cancelled with the run.
CallFails ==
    /\ at = "call" /\ at' = "idle" /\ last' = None
    /\ UNCHANGED <<history, sent, billed, provider, forced, compacts, asks, answers>>

\* The request was too long for the provider: to about half of it, and only if
\* that makes it shorter.  Otherwise the run ends with the error.
Overflow ==
    /\ at = "call" /\ forced < MaxForced
    /\ \E o \in Hooked(history, Resume(Most(EstChars(sent) \div 2, 1))) :
          IF o.how = "done" /\ EstChars(o.messages) < EstChars(sent)
          THEN /\ history' = o.messages /\ sent' = <<>> /\ at' = "turn" /\ last' = o.last
               /\ forced' = forced + 1
               /\ billed' = Unbilled /\ provider' = [provider EXCEPT !.stale = TRUE]
          ELSE /\ at' = "idle" /\ last' = None
               /\ UNCHANGED <<history, sent, forced, billed, provider>>
    /\ UNCHANGED <<compacts, asks, answers>>

\* Engine.Compact between prompts.  Without a target of the host's it leaves about
\* a fifth of what is not the system prompt, even under budget.
Kept(m) ==
    LET body == EstChars(m) - m[1].size
        keep == body \div 5
    IN  m[1].size + IF keep < MinBody /\ body > MinBody THEN MinBody ELSE keep

HostCompact(target) ==
    /\ at = "idle" /\ compacts < MaxCompacts
    /\ compacts' = compacts + 1
    /\ LET goal == IF target = 0 THEN Least(Resume(Budget), Most(Kept(history), 1))
                   ELSE Resume(target)
           r    == Compact(history, goal, FALSE)
       IN  /\ history' = r.messages
           /\ last' = Done(r.layer, FALSE, FALSE)
    /\ sent' = <<>>
    /\ provider' = [provider EXCEPT !.stale = @ \/ provider.tokens > 0]
    /\ UNCHANGED <<at, billed, forced, asks, answers>>

Next ==
    \/ \E t \in Tasks : Prompt(Ask(t))
    \/ Prompt(Ping)
    \/ Send \/ Reply \/ CallFails \/ Overflow
    \/ \E t \in HostTargets \cup {0} : HostCompact(t)

Spec == Init /\ [][Next]_vars

-----------------------------------------------------------------------------
TypeOK ==
    /\ at \in {"idle", "turn", "call"}
    /\ history # <<>> /\ history[1] = System
    /\ \A i \in DOMAIN history : history[i].size \in 0 .. EstChars(history)
    /\ {forced, compacts, asks, answers, billed.tokens, provider.tokens} \subseteq Nat
    /\ last.layer \in {"none", "snip", "drop"}

Compacts == last'.layer # "none"

(* Every request, and every history that is kept, can be sent: no window   *)
(* and no second compaction of a compacted history separates a result from *)
(* its call (alignKeepAtUser: "an orphan tool_result is rejected by both   *)
(* wires").                                                                *)
Sendable == Accepted(sent) /\ Accepted(history)

(* A compaction, whatever the sizes, is one of those AgentLoop allows for. *)
Shape(m) ==
    LET body == InOrder(Len(m), {i \in DOMAIN m : m[i].role # "system" /\ m[i].kind # "anchor"})
    IN  [i \in DOMAIN body |-> Message(m[body[i]].role, m[body[i]].ids)]

AsTheLoopAssumes == [][Compacts => Shape(history') \in Compacted(Shape(history))]_vars

(* "Any age-based shrink there rewrites an already-sent message on every   *)
(* call": a request that was not compacted begins with the one before.     *)
PrefixKept == [][at' = "call" /\ ~Compacts => IsPrefix(sent, sent')]_vars

(* "Never drop the anchor entirely": a compaction leaves the first thing   *)
(* the user asked for, of those that are still messages, and all of them   *)
(* when there are no more than pins and the anchor was not cut to less     *)
(* than what no message says any more.                                     *)
Wants(m)   == {i \in DOMAIN m : m[i].kind \in {"ask", "note"}}
Said(m, S) == UNION {ToSet(m[i].says) : i \in S}

Missing(m, n) == Said(m, Wants(m)) \ Said(n, {i \in Wants(n) : n[i] # Summary})
AnchorCut(m, n) ==
    \E i \in DOMAIN n : n[i].kind = "anchor" /\ n[i].size < Cardinality(Missing(m, n))

FirstWantKept ==
    [][Compacts /\ Wants(history) # {} =>
         history[First(Wants(history))].says[1] \in Said(history', DOMAIN history')]_vars
AllWantsKept ==
    [][/\ Compacts /\ Cardinality(Said(history, Wants(history))) <= MaxPins
       /\ ~AnchorCut(history, history')
       => Said(history, Wants(history)) \subseteq Said(history', DOMAIN history')]_vars

-----------------------------------------------------------------------------
(* What comments and documents say and the code does not do.               *)

(* "Anchors still pin user intents either way" (docs/harness.md).  An      *)
(* anchor is not read when the next one is made.                           *)
NothingForgotten ==
    [][Compacts /\ ~last'.host /\ ~last'.own
       => \A i \in DOMAIN history : history[i].kind = "anchor" =>
             history[i].says[1] \in Said(history', DOMAIN history')]_vars

(* The task the run is working on, the last one asked for.                 *)
Short(m) == \E i \in DOMAIN m : m[i].kind = "anchor" /\ m[i].size < MaxPins

CurrentKept ==
    [][Compacts /\ at = "turn" /\ ~last'.host /\ ~last'.own /\ ~Short(history') =>
         LET asked == {i \in DOMAIN history : history[i].kind = "ask"}
         IN  asked # {} => history[Max(asked)].says[1] \in Said(history', DOMAIN history')]_vars

(* "A stale bill cannot re-trip on the already-shrunk history".            *)
BillIsOfHistory ==
    [][Compacts /\ at = "turn" /\ EstChars(history) < Budget => ~billed.stale]_vars

(* "An explicit Summary from the host is not overwritten".                 *)
HostSummaryWins == ~(last.host /\ last.own)
=============================================================================

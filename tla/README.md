# TLA+ models of mow

mow is a coding agent written in Go: an engine that runs a model and its tools
in a loop, hosts that embed it (terminal, ACP server, SDK), a session file that
survives it, and extensions: goals, workflows, ACP, MCP, command hooks. This
directory holds TLA+ modules translated from its source, TLC configurations that
check them on small instances, and TLAPS proofs of what matters most for
instances of any size. Paths below are relative to the repository's root
(`src/`).

- `PROJECT.json` lists components, runs, findings, hazards, theorems and, for
  every definition that models code, the lines it stands for.
- A definition whose comment starts with *Fault:* is a wrong version of the one
  below it. It is never used by a specification; it is there to see that a
  property notices when the code is wrong in that way.

## 1. The system

| part | state | operations | hard because |
|---|---|---|---|
| **Engine runs** `internal/engine/engine_prompt.go`, `engine_control.go` | promptMu, closed, busy, runCancel, steer queue and steerCancel, cleanups | Prompt, Steer, Cancel, Close, RegisterCleanup | callers on any goroutine; a steer cancels one model call but must not cancel the run; cancels are read under a lock and fired outside it |
| **Engine history** `engine.go`, `engine_compact.go`, `engine_prompt.go` | prior, transcript, session, its file | Prompt's commit and save, Compact, Rewind, BeginSession, restart | prompts hold promptMu, Compact and Rewind do not; the file is a second copy with fewer fields |
| **Session file** `internal/session` | one JSONL file, a Store per process with base, offset and size | Append, AppendSnapshot, LoadMessages, LoadTranscriptEvents | several processes; deltas name a byte offset; torn lines; file systems without flock |
| **Agent loop** `internal/agent/loop.go` | messages, turn, counters of retries | Run | a cancelled call is a steer or a cancel; a call of a batch may have no result |
| **Compaction** `internal/agent/compact.go`, `loop_tools.go`, `engine_compact.go` | the history against its budget, the provider's last bill | applyCompact, forced compaction, Engine.Compact | a window cuts between a call and its result; a compacted history is compacted again; hooks may fail, skip or give the summary |
| **Tool batches** `internal/agent/loop_tools.go` | slots, semaphore, batch context | runToolBatch | a goroutine per call; the first hard error cancels its siblings; ErrDone is both an error and a wish |
| **LLM clients** `internal/llm` | the request, retry counters, the parse of a stream | chatWithStream, doWithRetry, doJSON, three stream readers | two retry budgets, streams cut after something was shown, silent servers, three wires with different ids for calls |
| **Model, effort, wire, deferred client** `internal/engine/engine_model.go`, `engine.go` | client, explicit choices, the run's override, pins, the catalog | ensureLLM, SetModel, SetEffort, SetWire, ListModels | built once by whoever comes first, with the catalog fetched outside the mutex; hosts change it under a prompt |
| **ACP agent** `ext/acp/agent*.go`, `live_forward.go` | cancels, pending requests, the bound session, remembered rules, the engine's one token callback | prompt, load, new, close, cancel, set_*, slash commands, permission replies | a read loop, a goroutine per prompt, one queue of settings; all share maps and one callback |
| **ACP delegate and client** `ext/acp/delegate.go`, `client.go` | a pool of peer processes, one conversation each | the delegate tool, idle sweep, close | calls share peers; a peer may be late, silent, or die; its rights are part of its key |
| **MCP servers** `ext/mcp` | a process or an HTTP session, tokens, a saved grant | callTool, restart, refresh, login, close | a restart while another call is out; tokens that rotate and a file that two processes write |
| **Extensions and setup** `ext/ext.go` | hooks and tools with their generation, references of engines | BeginSetup, New's capture, release, switches | engines of one process share a registry; a setup that fails is rolled back under engines in use |
| **Configuration** `internal/config` | layers of files, flags, environment, a resumed session | loadConfig, New | a project's file may lower and never raise; layers are merged twice |
| **Trust and permissions** `internal/config/trust.go`, `internal/permstore` | two files of the user | trust, revoke, remember | several processes read, change and replace |
| **Command hooks** `ext/cmdhook`, `internal/agent/{loop_tools,finish}.go` | commands of plugins around a prompt and its calls | UserPromptSubmit ... Stop | a command may refuse, rewrite, fail, be late, or be killed with the prompt |
| **Tools that change things** `internal/tools`, `internal/policy` | files, a process tree | write, edit, apply_patch, bash | a path may change between check and use; a shell's children outlive it |
| **Background processes** `internal/proc`, `ext/proc` | pid files, what Close has to stop | start, stop, Close | engines share the directory; numbers are given out again |
| **Goal runner, store, run lock** `ext/goal/{runner,store,runlock,goal}.go` | goal file, activeRuns, flock, the run's copy of the state | RunRaise, RunSpec, ResumeAnswer, Create, Remove, Reset | two locks, one in the process and one between processes; Running files of dead processes; state read before the lock |
| **Goal steps** `ext/goal/{executor,finish,plan,parallel,worktree,worktree_step}.go` | the checklist, the repository, worktrees | a step of several items | sub-steps with views of their own, merged one at a time; git fails at each step |
| **Workflow** `ext/workflow` | one file per run, a mutex and a flock | Run, Resume | a process dies between the effect of a phase and its record |
| Skills, texts, TTY, CLI, doctor, eval, helpers | none, or read once | I/O and pure functions | not concurrent |

How they interact. A host calls the **engine**; a prompt holds `promptMu` from
its start to its end and runs the **agent loop**, which calls the model through
the **LLM client**, asks **hooks** about each call, runs **tool batches** and
drains the engine's steer queue. At the end of a prompt the engine assigns the
history of the next one and appends to the **session file**. **New** puts the
configuration together, has extensions register, and captures what the engine
may use; **MCP** servers and **ACP** peers are then tools of the loop. The
**goal runner** makes one `Prompt` per step on an engine and saves its own file
between them; the ACP agent, the CLI and workflows are hosts too. What is shared:
the engine's fields under `e.mu`, the process's registry of extensions, and
files between processes (session, goal, workflow, grants, tokens, pids), each with
a lock of its own or none.

What makes each part correct, in a sentence: no steer is lost, duplicated or
takes a run down, and Cancel and Close reach every run (engine); what a resumed
session shows and sends is what the last one had (history, session); every
request sent to a provider answers each tool call exactly once, and nothing cut
off is taken for a whole (loop, client); the operator's choice of model stays
until somebody changes it (model); a peer, a project or a plugin has no right its
host has not, and a refusal holds (delegate, configuration, hooks, files); an
answer goes to the call that asked (ACP, MCP); one engine does not take another's
tools, servers or processes away (setup, proc); at most one run of a goal or
workflow, nothing is done twice or dropped, and every run ends (goal, workflow).

## 2. The modules

| module | models | with |
|---|---|---|
| `EngineRun` | a run's life and what hosts do to it | |
| `EngineHistory` | the history across prompts, Compact, Rewind, sessions, restarts | |
| `ReplayLog` | abstract: what a session file promises | |
| `ReplayRepair` | `repairToolCalls`, its passes as functions on the number of messages, and what a provider accepts | |
| `SessionStore` | the file, its writers and readers; implements `ReplayLog` | `ReplayRepair`, `ReplayLog` |
| `Conversation` | messages, the window alignKeepAtUser leaves, what a provider accepts | |
| `ToolBatch`, `AgentLoop` | `runToolBatch`; `agent.Run` over any batches and any window | `Conversation` |
| `Compaction` | the compaction algorithm over sizes, and its three callers | `Conversation` |
| `Hooks` | the commands of plugins around a prompt, and the chain of hooks of one call | |
| `Bash` | one call of bash, its process group and its pipe | |
| `LLMStream`, `LLMWire`, `LLMRetry`, `LLMCall` | what frames mean, how a history becomes a request, the retry loop, one call of the three together | |
| `EngineModel` | which model, effort and wire requests use; the deferred client | |
| `ACPAgent` | mow as the agent of one editor | |
| `Peers` | the pool of peers mow delegates to | |
| `ToolTransport` | abstract: what an MCP transport promises | |
| `MCPStdio`, `MCPHttp` | the two transports; both implement `ToolTransport` | `ToolTransport` |
| `Grants` | trust list and remembered approvals | |
| `ExtSetup` | setups, engines, generations, the transports of MCP servers | |
| `Config` | the layers of the configuration, up to New | |
| `FileTools` | write, edit, apply_patch and the path jail | |
| `ProcStore` | background processes of several engines | |
| `GoalRun` | goal calls from several processes | |
| `GoalStep` | one step's checklist, parallel items and worktrees | |
| `PhaseOrder` | abstract: what a workflow promises | |
| `Workflow` | Run and Resume; implements `PhaseOrder` | `PhaseOrder` |
| `...MC` | the runs: model values, symmetry, small inputs | several of the above |
| `EngineRunProofs`, `SessionStoreProofs` | theorems about the module they are named for | that module |
| `LLMCallProofs` | theorems about `LLMCall`, `EngineModel` | `LLMMC` |
| `PeersProofs` | theorems about `Peers`, `ACPAgent` | `ACPMC` |
| `AgentLoopProofs` | theorems about `AgentLoop`, `Compaction`, `Hooks`, `Bash` | `TurnMC` |
| `GoalProofs` | theorems about `GoalRun`, `GoalStep`, `Workflow` | `GoalMC` |
| `MCPProofs` | theorems about `MCPStdio`, `MCPHttp`, `Grants` | `MCPMC` |
| `FileToolsProofs` | theorems about `FileTools`, `ExtSetup`, `ProcStore`, `Config` | `ToolsMC` |

Modules that one run checks together share no variable. Their MC module has a
variable `part` that says which of them a behaviour is about; the variables of
the others stay as they start. The graph is then the sum of the parts' graphs,
not their product, and a property of the run is the conjunction of the parts'
properties, each written in its own module with its own comment: `GuardsHold`
of `TurnMC` is `HooksHold` of `Hooks` and `ShellContained` of `Bash`, `ResultsWhole` is `NothingDropped` and
`Replayable` of `AgentLoop` and `Sendable` of `Compaction`, and so on.
A part's variables never leave their initial state in a behaviour of another, where
its properties hold; so the sum says of each part what a run of its own would.

### Engine and session

**EngineRun.** Variables have the names of the engine's fields (`promptMu`, `closed`,
`busy`, `runCancel`, `steer`, `steerCancel`, `cleanups`) and of the loop's locals
(`turns`, `overflow`). `pc[p]` is where a Prompt is: `wait` for promptMu,
`begin` (the closed check and the registration, one critical section), `ensure`,
`setup`, the loop (`turn`, `call`, `ret`, `after`), the commit and the unlock.
Steer, Cancel and Close each have a step that reads under the lock and one that
fires the cancel it captured, since the code calls the cancel function after the
unlock. `heard`, `sent` and `cause` are history variables: the steers in
the run's messages, those accepted while it was live, and who first cancelled
it. The model is any `Results`; a steer that interrupts a call cancels only that
call's context, a cancel the run's and thereby the call's.

**EngineHistory.** `run` is the prompt that holds promptMu with the base it read;
`copy` is what Compact took while it works unlocked. A message is a role, the
prompt it carries and whether it is synthetic; `Saved` is what JSON does to it (the
field is tagged `json:"-"`). `Turnwise` restricts hosts to Compact and Rewind between
prompts: the passing run has it, the run `EngineHistory_undone` does not.

**SessionStore, ReplayRepair, ReplayLog.** A line is a full snapshot, a delta with the
index of its base, a turn, or torn; an index stands for a byte offset. `append` is
up to three steps: lock, stat and decide (`Decide`), repair a torn tail
(`RepairTail`), write and unlock (`Write`). `Fail` and `Restart` may happen before
each, and leave all, part or nothing of a line. `Scan` is the reader's loop, a
fold over the lines. `LogSpec` is the refinement: the replayed history and the
displayed turns change only when a request takes effect, once, between its call
and its return.

### A turn

**AgentLoop and ToolBatch.** A message is its role and the tool calls it makes or
answers. A call's id is the reply it came in and its place. Text, token estimates
and hook contents are outcomes: over budget or not, how much is kept, allowed,
denied, halted or failed. In a parallel batch each call is `waiting` for the
semaphore, `held`, `exec`, and then has one of four ends (`ok`, `done`, `hard`,
`stopped`). `Compacted` of `Conversation` is every outcome of a compaction: any window, aligned
by `AlignKeepAtUser`; behind an anchor, which is no message there, it may be all there is. `HaltRefused` says whether a
hook may halt a call that policy refuses or that names no tool; see the findings.

**Compaction.** What `AgentLoop` leaves open is decided by sizes here. A message has a size in
units of 200 characters and says what the user wants: a task, a note of the host, or "ok".
`Compact` is `CompactTiered`: `Snip` cuts tool results, the longest first; `CompactOpts` then
keeps a window (`Windows`), pins the user's intents before it (`Pins`, the anchor) and puts a stub
or a summary for the rest. `Send`, `Overflow` and `HostCompact` are its callers; `Hooked` is the
order in which the PreCompact hooks are asked and what they may answer. A provider's bill is
nothing or the whole budget, and the ratio of characters to tokens stays at its seed. `sent` and
`last` are history variables: the last request and what the last step's compaction was.
`AsTheLoopAssumes` is the link to `AgentLoop`: whatever the sizes, the outcome is one of `Compacted`.

**Hooks.** `stage` follows a prompt: `submit`, `model`, then for each call `pre`, the
host's own `gate`, `exec`, `post`; then `finish` and `stop`. In a hook stage the
plugins take turns and each runs its commands; `Heard` is what `bridge.run` adds
to the outcome for one command's result, `Folded` what the bridge makes of it.
The history variable `heard` keeps whether the call was refused and which
arguments the gate saw.

**Bash.** The shell and its children are processes in or out of its group, some
holding the pipe. The call ends with the shell, the limit, or the caller's
context; `Kill` takes the group with it.

### The client

**LLMStream** folds the frames of each wire into one parse; **LLMWire** maps a history
to the items of a request on each wire; both are pure. **LLMRetry** is the request
loop: `tries` numbers the requests, `refused` counts refused connections. **LLMCall** puts them together: send, read frame by
frame, the body's end, a cut, silence (`IdleTimeout`), the one request that may be
sent again, the caller's cancel. Texts are letters, arguments the fragments they came in.

**EngineModel.** Each action is one critical section of `e.mu` or one step between two:
a caller becomes `builder`, fetches the catalog unlocked and publishes what it
built, the others `Wait`. `choice` and `pin` are
history variables: what the host last chose.

### Hosts and servers

**ACPAgent.** The read loop (`loop`) handles one frame at a time; a prompt, a load and a
slash command have a process each; `queue` is the settings' worker. The
engine is cut down to promptMu (`holder`), its session (`sid`) and its token callback
(`token`). An `editor` bounds how many requests of each kind are made.

**Peers.** A slot is one peer process from its reservation to its end: reader, reply,
text, holder. The peer is external. `Key` is the agent with the rights the host
grants; a chunk carries the call whose prompt the peer works on.

**MCPStdio, MCPHttp, ToolTransport.** One call at a time owns a process's pipes; a
second try starts a new process. Over HTTP a call gets a token (from memory, by
refresh, by login, or static), sends, and after a 401 may force a refresh and
send once more. `file` is the saved grant, written by sources and by `mow mcp login`.

**Grants.** Each caller reads, changes, replaces; for approvals under a process mutex
and a file lock, for the trust list under neither.

**ExtSetup.** A setup bumps `gen`, walks the packs with `todo`, and New captures.
`slots` are transports by generation and place, `orphans` those kept for
engines that still use them; Release drops what nobody references.

### What a model may touch

**Config.** A value is the layer it comes from, ceilings are numbers. `stage` is the
step of loadConfig: user, profile, explicit files, provider, environment, project,
provider and environment again, flags, session.

**FileTools.** A path is a sequence of names under `w`; `w/d` may be replaced by a link at
any time. A call resolves, checks the policy, opens beneath the root it found (or,
without openat2, opens and verifies: `kernel`), writes a temporary file and renames it, or
writes in place where it may not create one (`inPlace`).

**ProcStore.** A process has an owner, may lead a session and leave children; a stranger
may get its number. Start, stop and the cleanup at Close are several steps each.

### Goals and workflows

**GoalRun.** A call is `acquire`, `flock`, inside (`begin`, `head`, `step`, `backoff` for
runs; `remove`, `force`, `reset`), `exit` (the file lock is given back) and
`leave` (activeRuns is). A Load heals the file as `loadLocked` does; a Save is
atomic (temporary file and rename under the store's flock). A step ends in
one of the ten ways `runState` tells apart; `SaveFails` may replace each save
inside the run. `Crash` kills a process: its locals and locks go, its file stays.
`Cancel` (external) is the context of the run, noticed at the loop's head and in
the backoff only, as in the code.

**GoalStep.** An item of a batch is a task: add a worktree, prompt, commit, merge, clean,
each git command under the repository's mutex (`mu`) and file lock. `Signal` is
what goal_report keeps; `MergeSubPlan` and `Apply` join sub-plans to the parent's list.

**Workflow, PhaseOrder.** A phase is marked in the file, given to the model or verifier,
and marked again. `PhaseOrder` has the phases' effects only: each at most once, in
order, none after the end.

## 3. The runs

| run | instance | shows | distinct states |
|---|---|---|---|
| `EngineRun` | 2 prompts, one host impatient, 2 steers, 1 cancel, 2 Close, 1 late cleanup, 2 turns, 1 overflow, in three uses | no steer is lost, doubled or reordered while a run is live, none ends a run; Close reaches the live run before any cleanup; a cleanup runs once; what was cancelled ends | 185k |
| `Session` | file: 2 processes, 3 lines, 4 histories, torn writes; history: 2 prompts, 2 sessions, 2 restarts, turnwise hosts | every delta has its base, every file loads and what loads can be sent, the file implements `ReplayLog`; sessions stay apart and a resume finds the engine's history | 784k |
| `Turn` | loop: a run after a prompt that failed, 2 turns, 4 batches of up to 3 calls, 1 steer, 1 overflow, cancel; context: a new or resumed session, 2 prompts, 2 answers, 1 forced and 1 host compaction, budget 24 units; hooks: 2 plugins (2 commands and 1), 1 call, 2 continuations; bash: 3 children | every history sent or returned is replayable, also after several compactions, and a request that was not compacted begins with the one before; a compaction keeps the first thing asked for; limits hold; a hard error stops the batch; refusals hold and the gate sees what runs; bash leaves nobody of its group behind; everything ends | 398k |
| `Goal` | 3 calls of every kind in 2 processes, one mortal, 1 failed save, budget 1 raised to 2; a step of 2 items, one in a worktree; a workflow of 2 phases | one call at a time, no ghost Running, nobody writes a run's file; no item lost, merged after failing, or left in a worktree; the workflow implements `PhaseOrder`; every call ends | 367k |
| `LLM` | 2 tries and 2 refused connections, 3 frames, 2 histories on 3 wires; 2 callers with 3 calls of the engine | the two budgets; the message returned is the one shown, whole, and every call in it complete; requests replayable on each wire; the operator's effort and wire stay; nobody fails with another's context; calls end | 1,380k |
| `ACP` | 1 editor with 2 prompts, close, load, new, goal and a setting, 2 model calls; 2 callers, 2 engines with different rights, 2 peer processes | power tools wait for a yes; a cancel reaches its prompt; two prompts never show in one another's answer; a reply is its prompt's own; a peer has its host's rights only; no peer in use is swept; calls end | 673k |
| `MCP` | 2 calls, 3 processes, 1 cancel, death and stray frame; 3 tokens, 1 expiry and revocation; 2 processes with 2 approvals, 1 crash | both transports implement `ToolTransport`; one process, one exchange; tokens go to their server; a request the server may have run is not sent again; what was remembered stays; locks come free; calls end | 420k |
| `Tools` | 2 calls under 6 policies, 2 swaps of a directory, 1 fault; 3 engines, 1 failing pack, 1 toggle; every layer with 1 explicit file; 2 process numbers, 3 starts | files change whole or not at all, only where granted; a project grants nothing; engines do not take each other's tools or servers; Close kills its own processes and no stranger | 798k |
| `EngineRun_steer_lost` | 1 prompt, 1 steer | finding: a steer after the last drain is never delivered | |
| `EngineHistory_undone` | hosts edit at any time | finding: Rewind undone by Compact or a prompt in flight | |
| `GoalRun_stale` | 2 processes, 2 `goal run` | finding: a completed goal is rerun from a copy loaded before the lock | |
| `GoalStep_early` | a step of 2 items | finding: a goal is reported done with an open item | |

Each passing run takes one to three minutes on two cores. The conjuncts of a sum
are named where they are defined, at the end of its MC module.

### Why these bounds

*Two callers of each kind* are what the races need: one run that ends while
another waits, a steer that is pending while another is being fired, a Store that
is stale because another one wrote, a client being built while another waits, a
peer that times out while another call wants it. *Two turns* give a call after a
tool batch and a last turn. *Three lines* are a checkpoint and two deltas, the
shortest file in which a delta's base is a delta. *Three calls in one batch* are
one that fails, one that runs and one that waits for a slot. *Three goal calls in
two processes* are a run, a second call in the same process and one from another
process; a budget of one step that may be raised to two reaches both the limit and
a retry. *A budget of 24 units* is passed by a resumed session and one more answer, in each layer of the
algorithm: results that are snipped, a window, a second window over an anchor and a stub. *Three frames* are the start, a middle and an end of a tool call; *two
tries of each kind* let one budget be used up while the other is not. *Three
processes of an MCP server* are the first, the restart, and one too many. *Three
tokens* are the saved one, a refreshed one and a login's. *Two phases* are one
that has an effect and one that must wait for it. *Two swaps* take a directory
away and put it back. *Three engines* are an old one, the one set up now and one
that shares with both. The theorems lift these bounds for the properties they cover.

Counters that the code does not bound (prompts, restarts, sessions, steers, lines,
failed saves, deaths, faults) are bounded by a named constant in a guard. Runs
disable the deadlock check since every model stops once its calls are made; that
nothing hangs is stated by the liveness properties.

`EngineRun` splits what hosts do into three uses (steering and cancelling, queueing
two steers, closing), listed in `EngineRunMC`; the theorems about it do not.

Symmetry is used for runs without liveness only (`Session`, `Tools`); refinements there
are safety properties.

### Fairness

- `EngineRun`: a started call of the engine keeps going. The model call must return
  only once its context, or the run's, is cancelled; tools only once the run's
  context is. Nobody has to call anything, and a cancel function that was
  captured is eventually fired (it is the next statement).
- `AgentLoop`: the loop's own steps, the steps of a batch (a tool must return only
  once its batch is cancelled), and the return of a model call that was cancelled.
  That a tool heeds its context is an assumption: `wg.Wait` waits for it.
- `Hooks`, `Bash`: the next step of the one goroutine. A command and a call of bash
  have a time limit in the code, so their end is always one of the outcomes.
- `LLMCall`: the next step of the caller, among them the timers (`doWithRetry` waits
  with a timer, a read has an idle limit). The server owes nothing: silence ends by the timer.
- `EngineModel`: every goroutine goes on; the fetch of the catalog has a time limit (5 s).
- `ACPAgent`: goroutines the agent has started and its settings' worker go on. The editor need not
  answer a permission request: the wait ends with the prompt, the session or the connection.
- `Peers`: a call of the tool and the reaper go on; a peer owes nothing, a prompt has a time limit.
- `MCPStdio`, `MCPHttp`: calls go on. For stdio also the server: `Serves` is
  weakly fair, since a server with a negative `timeout_sec` is waited for without limit.
- `GoalRun`, `GoalStep`, `Workflow`: each call or task goes on: a step's Prompt
  returns. In `GoalRun` no lock is waited for, as a held one refuses; the repository's mutex of
  `GoalStep` is free again once its holder has gone on. Whether a provider answers is not theirs to say.

In the sums the fairness of a part is one `WF` of all its steps together, which is less
than a `WF` for each call: what it proves holds under both.

## 4. The proofs

Every theorem is proved for every value of the constants under the modules' named assumptions
(listed below). Each module proves one inductive invariant per part of the system, which TLC
checked first on the instance of the run; the theorems of a sum (`MCSpec`) follow from those of
its parts, since a step of one part leaves the variables of the others.

- `EngineRunProofs`: `TypeOK`, `LiveRunIsRegistered`, `SteerNeverAborts`, `SteerAccounting`,
  `CallBudget`, `CloseReachesRun`, `CleanupOnce`, `CleanupAfterCancel`. The invariant adds, to the
  properties, that a captured steer cancel belongs to a call that was issued, that a steer is pending
  from its append until a drain (so an interrupted call always finds one), who may
  have caused a cancellation, what Close knows at each of its steps, where a cleanup is
  (registered, taken by the one Close that found the engine open, run), and the
  books behind the call budget.
- `SessionStoreProofs`: `BasesMatch`, with or without flock. A delta is
  decided on one step and written on a later one from what was remembered of an
  earlier append; the invariant carries both links (`Remembers`, `Decided`). From it `LoadNeverFails`: a file
  whose deltas all have the base they name is read to its end (`ScanUpTo`). With flock, the refinement
  `LogSpec`: a Store at the end of the file remembers what the file says (`Held`), and a line that is about to be
  written yields its request when it is read back (`Planned`, `LineSays`), whole or completed by a later append.
  What a scan finds is a recursive function on the lines; that it exists and what it has read up to a line
  (`UpTo`) are shown of the least line they could fail for. `FileLoads`: what is read of a file, whole or cut off, is a
  history that was saved and the turns logged since (`Known`), and `repairToolCalls` makes it one that a provider accepts.
  Its first pass keeps, of what it has so far, that calls are whole and results are of the batch they are behind
  (`CleanAs`); its second, that every batch but the last has all its results and which of them the last has (`FillAs`).
  `HistoryKept`, for the engine's own history, whatever prompts fail, compactions and restarts there are: it is not
  inductive, and `HistoryInv` adds that a run works from the history there is and saves what it made of it (`Running`),
  that Compact's copy is that history while no run works (`Copied`), that files of later sessions are empty and nothing
  in a file is marked as injected (`Files`), and that, until something is compacted or resumed, the users' messages Rewind
  looks for are the prompts (`Plain`). It is proved under `Turnwise` (the host edits between prompts only): the run
  `EngineHistory_undone` is what happens without it.
- `AgentLoopProofs`: `ResultsWhole`, `RequestsWhole`, `WithinLimits`, `TurnsAreReplies`, `GuardsHold`. The
  invariant of the loop says why a call of a running batch may be without a result (`Excused`), that the
  semaphore is within every limit, and what the count of turns is in each
  phase. `NothingDropped`, and with it `ResultsWhole`, assumes `HaltRefused = FALSE`. The loop's messages
  are accepted by a provider outside a batch; in one they are an accepted history and the answer that asked for the
  batch (`MsgsInv`), and its results, or the repair of them, name each of its calls once. For a session (`CtxInv`): the
  history has its system message first and at most an anchor behind it, it is accepted, and the last request is the
  beginning of it. The folds of `CompactTiered` are recursive functions on numbers; `Recursion` shows that they
  exist, by the least number they could fail for. `Snip`, `Trim` and `Shorten` change sizes and no message
  (`Resized`); a round of `CompactOpts` is the system message, an anchor with the first of the pins, the stub, and a window that
  begins at no result (`Composed`). From that a compaction is accepted (`CompactedGood`), is one of the loop's
  model (`CompactedShape`) and leaves what `RequestsWhole` names (`CompactedKeeps`): the first of what the user wants is in
  the window or the first pin, and no anchor is cut to none. For the hooks (`HookInv`) a refusal is either in
  the call or still in what its plugin has said (`Guarded`), and the chain of an end starts at the first
  plugin (`Telling`); for bash (`BashInv`) nobody is left that could put a process back into a killed
  group, and what Wait returned is the shell's own end.
- `GoalProofs`: `OneHolder`, `RunningIsLive`, `OnlyRunWrites`. A run that stops must have written
  something else than running, which needs what it has in memory (`Owned`,
  `Placed`); a call that writes must not take the file from a run (`Exclusive`,
  the run lock); and a Load must not heal it (`Fresh`). `PhasesInOrder`: `Workflow` implements
  `PhaseOrder` step by step, and success is reported only when every phase was done. What the file says of a
  phase bounds how often it was given (`Books`), a call inside the lock has the file in memory
  (`Current`), and it marks a phase in the file before it gives it (`Marked`), so that a crash in
  between never has a phase given twice. `StepsHold`, for any number of items, reports and lists: what a task
  has in hand fits the place it is at (`TaskFits`: what is taken into the base branch ended well, and its list
  still names the goal's items), and the step cancels its tasks only when one of them failed of itself
  (`Caused`), so there is a failure to report. What a prompt reports and what a join takes over are functions on
  numbers; what is needed of them is shown of the least number it could fail for (`LeastOf`, from the library's
  `WFMin`), for the library's induction rule itself takes an operator.
- `LLMCallProofs`: `BudgetsSeparate`: refused connections and other failures each stay within their own
  budget, whatever order a server fails in. The invariant is the
  books of the loop: which of the two counts a request's number stands for at each place.
  `ChoicesKept`, `OwnFailure`, for any callers, configurations and catalogs: before there is a client the
  operator's choice is the configuration's, after it the client's (`Agreed`); a builder builds from what is still the
  configuration, and who goes on has a client unless it had to fail (`Served`); only a prompt and a list are cancelled
  (`OnItsWay`).
  `ExchangeWhole`, for histories, replies and bodies of any length (`CallInv`): while a stream is read the screen has
  what was parsed, a call of the parse has the id of its place and fragments of its own, an item stands for the place it
  was announced with, and a parse that has ended saw a closing frame (`Going`, `Sound`); one frame keeps that on each
  wire (`FrameKeeps`), and what the reader comes to is then whole (`EndIs`). Of a request: a message becomes items of its
  own (`ItemsFit`, one lemma for each wire), these follow one another in the order of the messages (`Laid`), so a
  result's call is before it because it was in the history, behind the system segments too.
- `PeersProofs`: `WithinHost`, `ReplyIsOwn`, `KeepsPeerInUse`, for any number of callers, hosts, agents,
  processes and chunks. A slot that a call holds has the call's key, and the rights are in the key
  (`Placed`). What is in a peer's pipe belongs to the holder (`Owned`), a reply is the last thing in it
  and counts the chunks before it (`Shaped`), and a slot changes hands only with an empty pipe (`Quiet`):
  a call whose peer may still write drops it.
  `PromptsKept`, for any editors, session ids and number of requests: what a run has taken (the engine, the
  token callback, the listener, the cancel) belongs to a request that goes on (`Taken`); one that is alone has
  the callback to itself, from its forwarder to its run's and back (`ByItself`); until a session is closed a
  running prompt has its cancel (`Reached`). That nothing is left when all is answered follows from `Taken`,
  that the answer is shown from `ByItself`.
- `MCPProofs`: `ServersKept`, `RulesKept`, and the refinement `Transports`: the stdio client with its restarts and the
  HTTP client with its tokens both implement `ToolTransport`. `StdioInv` follows a call through its processes (which
  it was sent to, which ran it); `HttpInv` has who issued a token and who was refused with it, and that the saved grant
  is not behind the source in use; `GrantInv` that what a caller read is still the file while it holds both locks.
- `FileToolsProofs`: `OnlyGranted`: a step changes a directory only if the policy lets
  this path be written at that moment, and nothing else. The invariant (`JailInv`) is that a
  call that holds a directory made sure of it (`Pinned`), and
  that a call past its first step was allowed to change files (`AllowedToWork`); the lemma
  `JailGrants` says that the longest root decides and gives nothing the host has not given.
  `AllOrNothing` follows the lines of a call through its own text, the files and the texts of calls that
  have read them (`TextInv`). `EnginesApart`: generations are numbered and counted by the engines
  that use them, and each running server is in a slot or an orphan of a generation somebody will release
  (`SetupInv`); a process of an engine is in a pid file that a cleanup or a stop has before it (`ProcInv`).
  `ProjectBounded`: what provider and environment make of the user's settings depends on these alone and is the
  same when it is made again (`EffectiveDepends`, `EffectiveAgain`), so the second pass, after the
  project's file, moves nothing (`ConfInv`).

The assumptions on constants, checked by TLC in the runs that use them, and what they rest on:

| assumption | says | because |
|---|---|---|
| `BoundsAssumption`, `ImpatientAssumption`, `NoneAssumption`, `LoopAssumption`, `ToolsAssumption`, `CallAssumption`, `RetryAssumption` | limits and bounds are numbers, at least 1 where the code's constant is; markers are no value (`None` is no Store, no request and no fingerprint of a file); an impatient prompt is a prompt | the bounds are the model's; the limits are constants of the code (attempts, width of a batch, cut and stalled turns). A configured `MaxTurns` of 0 is no limit: a beginning of such a run is one of a run with a larger `MaxTurns` |
| `CallAssumption`, of histories and servers | histories are coherent (`Coherent`): what each role may have, and a result answers a call before it that no other result answers; frames and bodies fit (`FrameFits`, `BodyFits`): what names a place or an item of a reply means the call there (`CallAt`, `PlaceOf`), fragments carry the id of their call | `FileLoads` and `NothingDropped` are about what makes a history so (`repairToolCalls`, `runToolBatch`), as long as a provider gives each call an id of its own; a call that is only a signature may have none. The wires number their calls; a server that mixes them up has nobody to tell |
| `LoopAssumption`, of histories | a run continues a history that a provider accepts | it is the engine's own, and `LoadMessages` repairs the one it reads (`FileLoads`) |
| `ContextAssumption` | an answer with results has at least one; at least one pin is kept and a window starts from at least 4 messages; a limit of results is at least `Floor` | `keepLastForBudget` and `pinBudget` return no less; `minSnippedToolChars` is 800, and `max_tool_result_chars` is 24000 unless it is set. A limit below 800 is kept to by `capToolResults` and not by `snipLongestToolResults`: then the request after a compaction may cut what was sent, and `PrefixKept` is not claimed |
| `LockingAssumption` | a build has flock or not | some file systems refuse `flock`, and `Append` then writes without it |
| `HistoriesAssumption`, `TurnsAssumption`, `MessagesAssumption`, `IdsAssumption` | a history starts with the system message and has its results behind the batch of their call; a turn asks for no tool and is no result; messages have a role, a text, calls and an id; a signed call is not the missing one | `SaveSession` is given the engine's history, where `runToolBatch` puts the results of a batch right behind it; `Prompt` appends what the user and the model said |
| `TextsAssumption`, `SessionsAssumption`, `RunsAssumption` | no prompt is one of the three texts the engine makes itself; there is a session; nobody's run is no run | `note`, `stub` and `reply` stand for texts the engine and the model make; `New` begins a session; the mark is the model's |
| `ToolAssumption`, `LineAssumption`, `PoliciesAssumption` | a call is of one of the three tools and changes one of the two lines by one of its own; roots are paths | `FileTools` gives every call a text nobody else writes |
| `GoalAssumption`, `FlowAssumption` | bounds are numbers, no caller is the marker of nobody | the bounds are the model's |
| `StepAssumption` | the items are 1 to n, for some n, and a report names no other; isolated ones are among them; an error of a prompt's own is neither no error nor the cancellation | items are numbered in the order of the list, and those a later list brings are numbered with them; `isolation=worktree` is said of an item; `firstParallelErr` tells `context.Canceled` from other errors |
| `CallersAssumption`, `BoundsAreNat` | a caller is told from 0, the mark of a free slot; what a host allows is writing and the shell, each or not; bounds are numbers | the marks and bounds are the model's |
| `MCPAssumption` | ids of calls are positive and 1 is one; a caller is told from the marker of nobody; bounds are numbers | ids of requests start at 1; the source of tokens that calls share is kept under call 1 |
| `PluginsAssumption` | a plugin that is asked has a command | `cmdhook.go` registers `if len(cmds) > 0` only |
| `SetupAssumption` | finitely many engines; the servers of one configuration differ in name | the servers are the keys of `mcpServers`, and home, workspace and plugin files are merged by name (`overlayMCP`, `mergePluginMCPServersContext`). The list form `servers`, or an entry's own `name`, can repeat one; `resolved` lets that pass, and then `OwnToolsWork` does not hold: the first server's transport is retired while its tool stays (mcp.go:99, registry.go). The theorem is about configurations that do not repeat a name |
| `EditorsAssumption` | a provider streams or does not | `editor.streams` is the model's; either is possible |
| `ModelAssumption` | a host's call is one of the five modelled; a configuration says whether its wire is explicit; nobody is no caller | the five are the calls that touch the client; `wireExplicit` is a `bool`; the mark is the model's |
| `ProcAssumption` | 0 is no process | a pid is positive; 0 in a pid file is none |
| `LayerAssumption` | a ceiling of turns is a number | the field is an `int` |

`AutoKilled` of `ProcStore` is stated of an engine that is alone with its ids (`Alone`): two engines that
start a process under one id write one pid file, and the earlier process is then in none.

Only model-checked, and why:

- liveness (`RunsEnd`, `CallsEnd`, `EveryCallEnds`, `FailFast`): the prover has no fairness.

Every invariant and every action property of the passing runs has its theorem.

## 5. Findings

Four runs end in a counterexample, each to a sentence of the code's own comments,
docs or tests; `PROJECT.json` quotes them.

1. `EngineRun_steer_lost`: Steer says a steer is delivered while a run is live until it ends; one
   accepted after the last drain waits in the queue and is wiped by the next prompt.
2. `EngineHistory_undone`: a Rewind during a Compact or a prompt is undone by their final assignment.
3. `GoalRun_stale`: RunRaise loads before it has the run lock and trusts that copy.
4. `GoalStep_early`: a sub-step that reports done makes the whole goal done with items open.

More are stated in a module, as a definition that no run checks, and are refuted by TLC
when they are added to a configuration. `PROJECT.json` has those that contradict
a sentence of the code or its docs, each with its line.

| module | definitions | what happens |
|---|---|---|
| `EngineHistory` | `RewindSkipsNudges` | after a resume a nudge is taken for a prompt: `Synthetic` is not saved |
| `SessionStore` | `ResumeOnce` | of two calls with one id, and of a call without one, a resume drops the call and keeps the result |
| `Compaction` | `NothingForgotten`, `CurrentKept`, `BillIsOfHistory`, `HostSummaryWins` | a second compaction drops the tasks its anchor held; with more prompts than pins the current task goes (three asks and four answers); a bill of what was compacted counts against the next prompt; the engine's summary replaces the host's |
| `AgentLoop` | `Replayable` with `HaltRefused`, `CutInARow` | a halted refused call stays unanswered in a success; cut batches "in a row" are counted over the run |
| `LLMCall` | `ResentWhole` | a re-sent request has its system prefix twice |
| `EngineModel` | `ChoiceSent`, `WireFollowsCatalog`, `RecordedInForce` | a SetEffort during a prompt waits for the next one; a late catalog does not move the wire; a prompt is recorded with another model's wire |
| `ACPAgent` | `LoopIsFree`, `RulesEnd`, `CancelAlwaysReaches`, `AnswerShown`, `BoundIsHeld` | the read loop waits for a run; an approval outlives its session; a late cleanup takes another prompt's cancel; overlapping forwarders hide an answer; a load binds a session the engine has left |
| `Peers` | `NoOrphan` | a peer started while the pool is dropped belongs to nobody |
| `ExtSetup` | `GuidanceHasServer` | a server's prompt outlives the server |
| `Hooks` | `GateIsHeard` | a cancelled prompt runs a call its gate was still being asked about |
| `Grants` | `TrustKept` | two editors of the trust list: a revoked workspace comes back |
| `GoalStep` | `EscalatedIsPending`, `ConflictBlocks` | an escalated item may be marked done; a conflict is lost behind a failure |
| `ProcStore` | `SessionsKilled` | a process that ended before Close leaves the children of its session running |

Behaviour met on the way that no definition is about:

- *Engine and session.* A Prompt that waits for promptMu does not notice that its context was
  cancelled. After a Compact the transcript shows stubs and notes as prompts (so `TranscriptAligned`
  is stated for sessions without one). An engine resumed before its client is built keeps the recorded wire
  without pinning it.
- *Compaction.* A summary of the model or of a host has no `[context compacted` mark: the next compaction
  pins it as a request of the user, and the next summary does not take it for a previous one.
- *Client.* `OnActivity` and the numbering of `RetryInfo` follow an attempt, not a call. Calls without
  an id get `call_<name>` on one wire and `call_unknown` on another. `catalogInfo` matches prefixes in the
  order of a Go map.
- *ACP.* `handleSlashExtra` reads `boundSID` without the lock; a prompt without a session id registers
  its cancel under the empty id; `applyApprovalsConfig` may bring back the entry of a closed session; `retireShared`
  reads references outside its mutex.
- *MCP.* Over HTTP a request of the server that happens to have our id is taken for the reply. A dead refresh token is
  asked again by each call of another source. A device login must end within the 30 s of the call that started it.
- *Extensions.* An engine of another profile captures tools of earlier generations whose transports
  are closed; switches set by hand are reset by the next setup of the process; a trusted project may replace the
  `extensions` section as a whole.
- *Tools.* A hunk `-5,0 +6,2` and its kind are placed by the old range alone; two editors of one file
  may lose the first one's update; bash reports a deadline of its caller as its own limit. The host's gate is asked about a call
  a plugin has already denied.
- *Background processes.* Start and Status trust a pid without looking whose session it is; two starts of one id may both
  succeed; a pid file that cannot be written leaves a process that was sent SIGTERM only; Status and Tail look
  for the default log.
- *Goals.* RunRaise runs a blocked goal without an answer, which RunSpec refuses; RunSpec starts a goal
  afresh on any error of Load; the owner of a goal stays in its file after the run
  (`goal.go` says "Empty when not running"); Create writes without the run lock
  (so `OnlyRunWrites` excepts it). A killed git hides the error that had it killed; when the budget stops a step, its plan
  is dropped after branches were merged; a prompt or commit that fails discards a worktree whose item was marked done; a cancelled step
  leaves worktrees behind and does not abort its merge.
- *Workflow.* `workflow list` fails while a run is locked; a cancelled context makes a run
  Failed for good.

## 6. Not modelled, and assumptions

- Texts: prompts, notes, summaries, plans, tool outputs; schemas and their checks; media. Where code
  decides on them, the model takes every decision. Sizes of texts are in `Compaction` only.
- `Compaction`: the calibrated ratio of characters to tokens stays at its seed; media and schemas have no size.
- Read-only functions: List, LatestID, Status, Tail, read, grep, glob, list, skills, commands
  that print. They have no state of their own to go wrong.
- Archives of compacted sessions: written for the model to read with its tools; the program reads none back.
- Terminals, the CLI's flags, doctor, eval, redaction, git helpers, context files: I/O and pure functions.
- The sandbox wraps a command line; what the kernel makes of it is not the program's.
- mow as an MCP server (`server.go`) answers one request after another from the engine's tools.
- Save and Load of a goal are atomic (a mutex, a flock and a rename); all processes
  that share a goal are on one host, so that ownerAlive can probe each owner. `Delete` is
  `Remove` with force.
- Without flock (`Locking = FALSE`) only `BasesMatch` is claimed of the session file.
- `FileTools`: the directories beside the workspace are the two of `Dirs`; a link changes `w/d` only, and
  nobody else writes the files.
- `ProcStore`: a process number is not given out again within the 200 ms between Stop's SIGTERM and its SIGKILL.
- `Turnwise` (see `EngineHistory`), and `HaltRefused = FALSE` in the passing run: the opposite is a finding.
- Crashes are of processes; files that were renamed into place survive them.
- What is external (editors, peers, servers, the kernel, git, callers and their contexts) is modelled from how
  `src/` uses it and marked so in `PROJECT.json`.
- Components with status `not_modelled` in `PROJECT.json` carry their reason there.
- Out of the prover's reach: liveness and ENABLED (section 4).

## 7. Plan

What is left, in this order:

1. A composition of `AgentLoop` with `LLMCall`'s outcomes as an abstract specification of a call
   (answers, fails, is cancelled), which both `AgentLoop` and `EngineRun` assume.
2. Session archives, and the resume of a session with a recorded runtime through `EngineModel`.

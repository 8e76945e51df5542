# Verification of EROverflow's terminal agent

EROverflow is an A2A "purple agent" that solves shell tasks. A client sends a
task; the agent answers with one shell command at a time
(`exec_request`); the client executes it and reports the output
(`exec_result`); this goes on until the agent answers `final`. Inside the agent
a Planner, an Actor and a Critic, all LLM calls, decide on the next command.

This directory holds TLA+ models of that program, TLC runs that check them on
small instances, and TLAPS proofs of the properties that matter most. Source
paths below are relative to the repository.

## 1. Inventory

| Component | State | Operations | Interacts with |
|---|---|---|---|
| `agents/terminal_bench.py` `TerminalBenchAgent` | one per context: memory, `_updater` | `handle_request_iteration`, `__run_actor_critic_loop__`, heartbeat | memory (shared by the turns of a context), Planner, Actor, Critic (awaits) |
| `agents/tools/agent_memory.py` `AgentMemory` | task, pending call, chat history | add, add pair, set/get pending, prompt builders | written by every turn of the context |
| `agents/critic.py` `CriticAgent` | none between reviews | static gate, up to 10 LLM attempts, verdict parsing, override | checker, LLM client |
| `agents/tools/exec_request_checker.py` | probe cache, one per process | filters, `bash -n`, timeout clamp | called synchronously by the Critic |
| `agents/planner.py`, `agents/actor.py` | none | one LLM call with one retry | LLM client |
| `agents/llm_clients/*` | `_rate_limited` flag | one request, no retry | shared by the three agents of a context |
| `agent.py` `Agent` | turn budget, memory log | `run`, `finalize_turn` | turn handler, TimeTracer |
| `executor.py` `Executor` | Agents by context | `execute` | A2A server, one call per message, concurrent |
| `terminal_bench_supplementary/utils.py` | `TimeTracer`: timing sessions, one per process | `timed`, `inverse_timed`, `new_session`; `truncate_field`, `truncate_exec_result` | decorates runs and LLM calls of every context |
| `messenger.py`, `tests/custom/test_terminal_bench_loop.py` | context id per url | talk, receive, raise on failure, time out, reset | the executor, one call at a time per client |
| `api_bandwith_benchmark/opt_finder.py` | the bracket of a search | probe, grow, bisect | LLM client |
| `api_bench.py`, `server.py`, `config.py`, `tool_definitions.py`, `response_format_checker.py` | - | measuring script, wiring, constants, unused checker | - |

What is hard here:

* **Overlapping turns.** The executor runs one `execute` per message and
  serialises nothing. Two messages of one context interleave at every `await`
  and share the memory, the pending call, the updater and the LLM client.
  Messages of different contexts share the probe cache and the timing session.
* **Matching by position.** An `exec_result` names no call. The handler matches
  it with "the last empty tool response" and with "the pending call", which are
  two pieces of state written at different times.
* **Errors in mid-turn.** An LLM call can fail at any round. What the turn
  already wrote to the memory stays, and some errors end the turn with a no-op
  command whose output comes back like any other.
* **Nested bounds.** Retries in attempts in rounds in turns, against a turn
  budget that is read before a turn and counted after it.

What makes each component correct: only reviewed commands leave (turn handler);
approvals are earned (Critic); outputs are stored once, under their call, and
never lost (handler and memory, with the client); every message gets exactly
one terminal event, which says how its turn ended (executor, Agent); every loop ends; the search's bracket is
real (`opt_finder`). The hazards behind these, each at its line, are listed in
`PROJECT.json`.

## 2. Modules

| Module | Models | Uses |
|---|---|---|
| `AgentMemory` | chat history and pending call, as pure operators | |
| `CriticContract` | which verdicts the turn handler may get | |
| `CriticReview` | the contract as an abstract state machine | `CriticContract` |
| `TurnContract` | a turn as `Agent.run` takes it: starts once, answers or raises (abstract) | |
| `TerminalBench` | the turn handler, any number of overlapping turns, open client | `AgentMemory`, `CriticContract`, implements `TurnContract` |
| `ShellProtocol` | what a client is promised (abstract) | |
| `Session` | `TerminalBench` with the client of the repository's test loop | `TerminalBench`, implements `ShellProtocol` |
| `ExecRequestChecker` | the static gate, as operators | |
| `Critic` | `CriticAgent.invoke` | `ExecRequestChecker`, implements `CriticReview` |
| `LLMCall` | an agent's LLM call: client, retry, error classes, what an error does to the turn | |
| `Executor` | `Executor.execute` and `Agent.run`, concurrent messages of several contexts | relies on `TurnContract` |
| `TimeTracer` | the executor with the timing entries its runs record | `Executor` |
| `Conversation` | `Messenger`s with their context ids, against the executor | `Executor` |
| `Truncation` | `truncate_field`, `truncate_exec_result`, with their theorems | |
| `ContextLimit` | `find_context_limit` and the verdict of `main` | |
| `MCTerminalBench`, `MCTimeTracer` | symmetry sets for the runs `turns` and `executor` | the module they are named after |
| `TerminalBenchProofs`, `SessionProofs`, `CriticProofs`, `LLMCallProofs`, `ExecutorProofs`, `ConversationProofs`, `ContextLimitProofs` | theorems (`ExecutorProofs` covers `TimeTracer` too) | the module they are named after |

`Session`, `Critic`, `LLMCall`, `Conversation` and `ContextLimit` need no MC
module: their configurations give the constants model values and small sets
directly. In `Conversation` a fresh context id (a uuid) is named after the
message it was made for, so the clients are tied to messages and the run uses
no symmetry; its liveness properties forbid it anyway.

The pieces fit together by contract:

* `TerminalBench` does not model the Critic's LLM calls. It takes a verdict from
  `CriticOutcomes`, and the run `critic` and the theorem `ContractIsKept` show
  that the code of `invoke` keeps this contract.
* `Executor` treats a turn as one call that answers or raises. `TurnContract`
  states that call: the open turn handler implements it (`TurnsKeepContract`),
  and the executor, seen turn by turn, asks no more of it
  (`ExecutorUsesContract`). That the call ends is `TurnReturns` of `Session`, and
  within how many steps `TurnsRunOut`. What an LLM error does to a turn (`CallFails`) is
  spelled out in `LLMCall`.
* `TimeTracer` and `Conversation` each add variables to `Executor` and refine
  its `Spec` (`TimedImplementsExecutor`, `ConversationImplementsExecutor`), so
  what is proved of the executor holds in both. `Conversation` in turn shows
  when the assumption of `Session`, one message of a context at a time, holds:
  until a client's request times out (`OverlapOnlyAfterTimeout`).

### How the turn handler is modelled

asyncio switches coroutines only at an `await`, so an action of `TerminalBench`
is the code between two awaits:

```
Begin*  ->  [PlannerReply -> AddPlan]  ->  ActorReply -> HandleReply -> CriticReply -> HandleVerdict
                                           '------------------- next round --------------------'
```

`pc[r]` says where the turn of message `r` is suspended: in an LLM call
(`planner`, `actor`, `critic`) or in the heartbeat after it (`planned`, `acted`,
`judged`). The shared state is `task`, `pending`, `history` and `updater`; the
locals of the coroutine are `round`, `reply` and `verdict`; `resp` is what
`handle_request_iteration` returned. A history entry keeps its message class,
its kind of text, its call id and, for an output, the message it came in. Texts
are abstracted to kinds: the only test the code makes on a text is whether it is
empty, and only the placeholder of an approved call is.

`ActorReply` offers every class of answer: no tool call, `submit_final`,
arguments that are not JSON, and commands that the static checker passes,
refuses, or trips over (whitespace only). `CallFails` offers both outcomes of
the handler's `except` branches.

Definitions whose comment starts with "Mutant" are altered copies of the
definition after them. They occur in no specification; each is what a plausible
bug of that code would look like, and `PROJECT.json` names the property that
finds it.

## 3. Runs

Passing runs:

| Run | Instance | Shows |
|---|---|---|
| `turns` | 3 messages of one context, 1 round, open client | `GateSafety`: a turn sends only the call its own last round proposed, checked and approved; `SlotsMatchRequests`: calls with a result slot = calls sent; `ResultStoredOnce`; `HistoryGrows`: only placeholders are rewritten |
| `session` | 3 messages, 2 rounds, the test's client | `PlaceholderIsPending`, `Attribution`, `NoOutputLost`, `HeartbeatReachesCaller`; `HistoryBounded`: what a context's memory may grow to; `ImplementsProtocol`: refinement of `ShellProtocol`; `TurnReturns`: every message is answered |
| `critic` | all classes of commands and answers, 10 attempts | `ApprovalEarned`; `CallsBounded`: no attempt asks more than twice, and the finished ones asked once or twice each in total; `ReviewEnds`; `KeepsContract`: refinement of `CriticReview` |
| `llm_calls` | 2 calls on one client | `GivesUpOnlyTwice`: no transient error is given up at the first attempt, whichever agent asks, and which errors may fail the task; `RateLimitReported`, `CallEnds` |
| `executor` | `TimeTracer`: 3 messages, 2 contexts, budget 1, 2 LLM calls per turn | `OneAgentPerContext`; `OneTerminalEvent`: one per message, and it says how the turn ended; `BudgetIsSpent`; `EntriesConserved`: each timing entry is in exactly one session; `OneTurnPerSession`: a session holds the run that closed it and no other answered one |
| `conversation` | 2 clients, 3 messages, any number of resets | `Continues`: a conversation goes on with the Agent that answered last; `ClientsApart`; `OverlapOnlyAfterTimeout`; `LostForGood`: a conversation nobody holds is never joined again; `TalkReturns`, `Answered` |
| `context_limit` | 4 starts, 3 caps, 5 limits, 3 repeats | `Bracket`, `ProbedOnce`, `ExactLimit`, `Terminates`; `ReportStands`: `main` can report, and no probe of the search contradicts its report |

Each base module's type invariant is checked by its run (`TypeOK`, `TimedTypeOK`);
those of the compositions `Session` and `Conversation` are proved (`SessionTypes`,
`ConversationTypes`).

Runs that show where the code departs from what the repository says
(`PROJECT.json` "findings" quotes each line):

| Run | What happens |
|---|---|
| `session_result_lost` | an `exec_result` that meets a stale pending call is dropped |
| `session_unpaired_tool_message` | the nudge is a tool message that answers no call |
| `session_blank_command` | a whitespace-only command fails the task instead of being rejected |
| `llm_rate_limit_flag` | a 429 whose retry succeeded leaves the "gave up" flag set |
| `context_limit_max` | sizes between the last doubling and the cap are never probed |

`session_result_lost` is about the output of a no-op or of a call that was not
sent. The output of an approved command is never dropped: that is `NoOutputLost`.

Further departures, read in the code and left without a run:

* README.md:29 has the Planner run on the first turn; when that call is given up
  after a rate limit, no later turn plans (`BeginTask` is the only way into
  `planner`).
* README.md:115 documents a rolling window of the history; nothing reads that
  setting, and the history only grows.
* `exec_request_checker.py:133` clamps a timeout of half a second to 0; the only
  caller passes 300, so the timeout part is not modelled.
* README.md:113 bounds the turns of a context; `agent.py` reads the count before
  a turn (:74) and adds to it after one that answered (:114), so overlapping or
  failing turns run beyond it. `BudgetIsSpent` states what does hold.
* A timing entry of a turn may end up in the session another turn closes
  (`agent.py:122-127`); `EntriesConserved` says that it ends up in exactly one.
  The gap `inverse_timed` measures is from the last end of any run of the
  process: with overlapping runs it is not the idle time that
  `tests/test_time_tracer.py:66` describes for one agent.
* The docstring of `talk_to_agent` says that without `new_conversation` a message
  continues the existing conversation. After a message with
  `new_conversation=True` that failed or timed out, the next one goes on with
  the conversation before it (`messenger.py:124` stores the context id of an
  answer only). `Continues` states what the code does: the last answered one.
* A message that names a task still running is executed on that task too
  (`executor.py:43` refuses ended tasks only), and each of the two sends the task
  a terminal event of its own. `OneTerminalEvent` counts per message, as the
  code's check does (`_terminal_state_reached` is the updater's).
* `truncate_field` with a budget of 0
  or 1 keeps the whole text and adds a marker (`value[-0:]`);
  `TinyBudgetKeepsAll` proves it. The program's budget is 6000.

### Bounds, and why they are enough

* `Requests` (3). Two turns show every pairwise overlap; the third is
  needed for two open placeholders and an output that must choose between them.
  In `Session` three messages are a task, the report on its command and the
  report after that, so a stale pending call from one turn can meet the next
  two. In `Conversation` three messages are an answered one, one that times
  out, and one that goes on after it, in any split over the two clients.
* `MaxRounds` (the code: 10). `session` has two rounds: a turn that repeats the
  loop and one that exhausts it need no more. `turns` has one, for the sake of
  three overlapping turns: rounds are the turn's own state, and everything this
  run checks is also proved for any number of them.
* `MaxVerdictAttempts` is the code's 10, for safety and for liveness.
* `MaxTurnCount` (1; the code: 60) makes the budget run out with two messages.
* `MaxCalls` (2) caps the LLM calls of a turn that `TimeTracer` records: one
  before and one after another turn rotates the session.
* `Contexts` (2 in `executor`): one that two messages share and another one. In
  `Conversation` it equals `Requests`, one possible fresh id per message.
* `Clients` (2): clients meet only on the server, so a pair shows whether they
  can share an Agent.
* `ContextLimit`: start sizes 0 to 5 and caps 0 to 16 give the empty growth
  phase, growth that ends at the cap and growth that ends at a failure, with
  brackets of width one and more; limits above the cap never fail.
* `Calls` (2): one call may set the shared flag while the other is retried. More
  calls share nothing else.

`CHECK_DEADLOCK FALSE` is set where a system really stops: when every message
was handled, when the client is done, when the search is over.

### Fairness

* `Session` (`FairSessionSpec`): weak fairness of each turn's own steps. A
  coroutine whose await is over is resumed by the event loop, and every LLM call
  is over at the latest when the LLM client's request timeout fires (120 s for
  L3S, 180 s for AcademicCloud; `max_retries=0`). Nothing is assumed of the test
  client: it need not send a message, and may time out.
* `Conversation` (`FairConversationSpec`): weak fairness of the server's steps,
  as above, and of the receipt of a response that was sent. Timeouts, resets
  and new messages are never obliged, so `TalkReturns` holds without the help of
  a timeout.
* `Critic`, `LLMCall`: weak fairness of a call's return, for the same reason.
* `ContextLimit`: weak fairness of the one sequential script.

## 4. Proofs

All theorems hold for every value of the constants that satisfies the named
assumptions (`MemoryAssumption`: at least one round, and the two "none" values
are not messages or calls; `SearchAssumption`: the arguments are integers).

`TerminalBenchProofs`:

* `TypeCorrect`: `Spec => []TypeOK`. One step per action; the history's part
  rests on `EntryTypes` and `FillProperties` (filling keeps the length, changes
  placeholders only).
* `GateIsSafe`: `Spec => []GateSafety`. `GateSafety` is about finished turns; the
  invariant `GateInv` adds that a turn with an `exec` response is done, so that
  no later step of it changes what it sent, and that a turn whose Critic
  approved holds a command the static checker passed, which covers the
  heartbeat between the verdict and its use. It is inductive because `reply`,
  `verdict` and `round` are the turn's own: no other turn's step writes them.
* `HistoryOnlyGrows`: `Spec => HistoryGrows`, action by action from
  `HistoryCases`.
* `SlotsAreRequests`: `Spec => []SlotsMatchRequests`. The invariant `SlotInv`
  adds that a slot's call is recorded right before it and that only turns that
  returned `exec` have one. Appending a pair without a slot keeps the slots
  (`AppendKeeps`, `AppendSlots`), an approval adds one slot and one sent call in
  the same step, and filling turns a slot into a slot (`FillSlots`).
* `ResultsAreStoredOnce`: `Spec => []ResultStoredOnce`. `SrcInv` adds that an
  output in the history came in a message whose turn has begun. A turn begins
  once (`NeverIdleAgain`), and its beginning writes its output to at most one
  entry (`FillOne`, the scan stops at the first placeholder it meets).
* `HistoryIsBounded`: `Spec => []HistoryBounded`, for finitely many messages
  (the bound is a cardinality; a context receives finitely many). An entry must
  be charged to something that is counted once. The invariant `Paid` charges a
  message's own entry (its plan or its output) to the turn's entry into the
  Actor-Critic loop (`Entered`), and the two entries of a round to the end of
  that round (`RoundsOver`): a step that appends makes one of these sets grow
  (`Pays`, shown action by action in `BeginPays` and `ContinuePays`), and none
  ever shrinks (`RoundsGrow`), whatever the other turns do.
* `TurnsRunOut`: every step of the handler lowers `StepsLeft` of one turn, a
  natural number of at most `4 * MaxRounds + 3`, and leaves every other turn's
  where it is; `TurnsGoOn`: a turn in a phase whose action depends on an answer
  always finds a branch for it. These are the safety half of `TurnReturns`, for
  any number of overlapping turns and rounds. The other half, that a turn that
  can go on does, is fairness.
* `TurnsKeepContract`: `Spec => KeepsTurnContract`, the refinement of
  `TurnContract`. `BeginControl` and `ContinueControl` say what a step does to
  the control state of its turn; the answer of one turn is never touched by
  another's step.

`CriticProofs`, for every `MaxVerdictAttempts` (`CriticAssumption`: at least one):

* `CriticInv` is the inductive invariant behind all of them: the types, the
  calls of the attempt under way and of those before it (`CallsInv`), and what
  the static check and the result say at each phase (`StaticInv`). `CallsBounded`
  is not inductive alone: an attempt that retries must have asked once only
  (`asked`), and `AskKeepsBound` is the one place where a call is counted. A run of TLC cannot miss
  a class of command or answer, but it fixes the attempts; the proof does not.
* `TypeCorrect`, `ApprovalIsEarned` and `CallsAreBounded` follow from it.
  `CheckProperties` is what they need of the static gate.
* `ContractIsKept`: `Spec => KeepsContract`, the refinement of `CriticReview`. A
  return of `invoke` maps to `Decide`, an attempt that goes on to a stutter.
* `ReviewRunsOut`: every step of a review spends one of `CallsLeft`, at most twice
  the attempts, and a review that has begun ends with a verdict, not with an
  exception: the safety half of `ReviewEnds`.

`SessionProofs`, for any number of messages and rounds:

* `SessionImplementsTurns`: the session is a behaviour of the open turn handler,
  so its invariants (`TurnInv`, from `TerminalBenchProofs`) hold here.
* `SessionHolds`: the inductive invariant `SessionInv`. None of the session's
  properties is inductive alone: a placeholder can be matched by position only
  because one turn runs at a time and its call is the pending one (`OneTurn`);
  the scan finds the placeholder only because an approved command that is
  waited for still has one; and an output enters under the right call only
  because a slot follows its call and an output carries its message (`Memory`).
  A turn without an approval appends plain entries (`ContinueHistory`), an
  approval opens the one placeholder (`MemoryApproved`), the report on it fills
  that one (`MemoryFilled`), the report on a no-op fills none (`MemoryReported`).
* `SessionTypes`, `PlaceholderHolds`, `AttributionHolds`, `NoOutputIsLost` and
  `HeartbeatHolds` follow from it; `SessionHistoryBounded` from
  `HistoryIsBounded`.
* `SessionImplementsProtocol`: `SessionSpec => ImplementsProtocol`, the
  refinement of `ShellProtocol`. `Log` is no variable: it is read off the history
  in closed form, the calls of the outputs in the order of their positions
  (`Nth`; a recursive definition would be opaque to the provers). That this
  enumeration is well defined (`RankOnto`, `RankInjective`), stays as it is when
  no output is added (`LogKept`) and gets one call at its end when one is added
  behind the others (`LogExtended`) are lemmas about finite sets of numbers.
  Two facts are needed beyond `SessionInv`: an open placeholder is the last
  entry (`OpenLast`), so the output that fills it is logged last, and a call
  that was reported on belongs to a finished turn (`Answered`), so it cannot be
  issued again. The task message is `Start` (`TaskStarts`); a turn step is
  `Issue`, `Skip`, `Finish` or a stutter (`TurnStepImplements`); a report is
  `Report` (`ReportRecords`); the client's end is `Finish` or a stutter
  (`ClientFinishes`).
* `CommandsRecordedOnce`: `SessionSpec => []Protocol!ExactlyOnce`. The abstract
  protocol's own invariant is proved of the protocol (`KeptStep`) and carried
  over: however many messages and rounds, the log holds every call that was
  sent, but the outstanding one, exactly once.

`LLMCallProofs`, for any number of concurrent calls: `CallInv` ties the outcome
of a call to the errors it heard (the first of two was worth a retry, an only one
was not) and the shared flag to the calls that met a 429; `CallTypes`,
`GivesUpOnlyTwiceHolds` and `RateLimitHolds` follow. `CallsRunOut`: a
step lowers what one call may still ask (`AsksLeft`, at most twice) and leaves
every other call where it is: the safety half of `CallEnds`.

`ExecutorProofs`, for any number of messages, contexts, turns and LLM calls:

* `RoutingHolds`: `RoutedInv`, that every Agent in use is the one its context was
  given, what a message's run made of it at each phase (`Decided`), and that
  its terminal events match both (`Terminated`), is inductive;
  `ExecutorTypes`, `OneAgentHolds` and `OneTerminalHolds` follow.
* `BudgetHolds`, for finitely many messages: the count of an Agent is the number
  of its answered turns (`Spent`). `BudgetIsSpent` compares with a
  cardinality, which is only defined for a finite set; a process receives
  finitely many messages.
* `TracerHolds`: what is recorded is over, what is over is recorded
  (`OverIsRecorded`), and no entry is in two places (`InOnePlace`); `TimedTypes`, `EntriesConservedHolds` and
  `OneTurnPerSessionHolds` follow, over the executor's invariants
  (`TimedImplementsExecutor`).

* `ExecutorUsesContract`: `Spec => UsesTurnContract`, the refinement of
  `TurnContract` by what `execute` and `run` see of a turn.

`ConversationProofs`, for any number of clients and messages
(`ConversationAssumption`: a fresh context id per message): `ConversationInv`
says that the stored context id is that of the last answered message (`Held`),
that the messages of a context come from one client (`Private`), and how the
fate of a message, its turn and its client's call belong together (`Sent`). It gives `ConversationTypes`, `ContinuesHolds`,
`ClientsApartHolds` and `OverlapHolds`; `LostForGoodHolds` is the action
property, step by step. `ConversationImplementsExecutor` carries the executor's
theorems over.

`ContextLimitProofs`, for every start, cap and number of repeats and for an
endpoint that may answer anything:

* `BracketHolds`: `Narrowed` shows that the middle lies strictly inside a bracket
  wider than one. `NeverProbedTwice` adds that every probe fits the bracket, a
  success at or below its low end and a failure at or above its high end
  (`MeasuredInv`).
* `ReportHolds`: the sizes `main` looks up were probed, and no probe contradicts
  the report. `LimitFound`: on a steady endpoint a bracket has the limit inside,
  so the final one, of width one, is at the limit. `SearchTypes`.
* `SearchRunsOut`: on any endpoint every step lowers `SearchLeft`, a natural
  number; growth doubles the size or ends, bisection leaves at most half of the
  bracket (rounded up). It needs `GrowsWithin`, that growth never probes
  beyond the cap. This is the safety half of `Terminates`, for all arguments.

`Truncation`: what is kept stays within the budget and, with what the marker
reports as elided, adds up to the whole text; the returned text, marker
included, exceeds the budget by at most 31 characters (`MarkerText` and nine
digits; `tests/test_checker_and_plan.py:290` allows 100). `FieldIsBounded` from a
budget of 2 on, `TinyBudgetKeepsAll` below it, `ExecResultIsBounded` for a whole
result, for every length below `MaxText` (10^9 characters, which bounds the digits
of the marker). There is no state and so no run.

Only model-checked: liveness (`TurnReturns`, `ReviewEnds`, `CallEnds`,
`TalkReturns`, `Answered` of `Conversation`, `Terminates`). Fairness and ENABLED
are out of the prover's reach, and so is the induction over a decreasing measure that leads
from `TurnsRunOut`, `ReviewRunsOut`, `CallsRunOut` and `SearchRunsOut` to an end;
the theorems give the steps of that induction. Every invariant, action property
and refinement that a passing run checks is proved.

## 5. Not modelled, and why

* Prompts, wording, logging, LangSmith traces, the write-only `_turn_count` of
  the turn handler, `snapshot_memory`: no property depends on them.
* The regular expressions of the checker: a command is a class (which filter it
  hits, whether `bash -n` accepts it).
* Cancellation of a running turn: `cancel` always raises, and a client that
  hangs up leaves the turn running (`TimeOut` in `Session`).
* Crashes: nothing is persisted; a restarted server knows no context.
* `api_bench.py`: a sequential script that times calls and prints statistics and
  keeps no state between them. `server.py`: argument parsing and wiring.
  `config.py`, `tool_definitions.py`: prompts, constants, schemas.
  `response_format_checker.py`: no caller; it checks an earlier message format.
* `check_timeout` and the clamp after it: the only caller passes 300 and reads
  nothing back.
* `Executor` and `TerminalBench` in one state space: an Agent per context with
  its whole memory is out of TLC's reach at the sizes where contexts and turns
  overlap, and nothing crosses from one memory to another. What each assumes of
  the other is stated and checked on its own side (section 2).
* The A2A library: task store, event queue, streaming. It is modelled as the
  code uses it: a task has a state, a terminal event ends it.

## 6. Plan

Done: the turn handler and its memory, the session with its client, the Critic
and its checker, LLM calls, executor and agent with the time tracer, messengers
against the executor, truncation, the context-limit search; an inductive
invariant with a proof for each of them; the refinements of `ShellProtocol`,
`CriticReview` and `TurnContract`; the memory's bound and the measures.

Left:

1. Under overlap and timeouts (`Conversation` with `TurnContract`): which of a
   client's messages may still be running when the next one starts.
2. A plan property, once the repository says what a lost Planner call should
   lead to.

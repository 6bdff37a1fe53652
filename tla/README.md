# A TLA+ verification of ts-pro

ts-pro compiles TypeScript to native executables without a C toolchain. The
compiler (Go) emits the program's machine code together with a runtime, also as
machine code: a garbage-collected heap, a cooperative task scheduler, timers,
channels, promises, and the Web-platform objects built on them. This directory
specifies that system in TLA+, model-checks it on small instances with TLC, and
proves the safety of the scheduler, of channels, of the heap and its collector, of
events and abort signals, of intervals, promises and containers, of streams, of the
network exchange, of the sockets and bodies of `fetch`, of headers, and of the way from a
function's values to the operands its machine code reads, with TLAPS.

Paths below are relative to the repository root; `lower/` stands for
`internal/backend/lower/` and `irgen/` for `internal/midend/irgen/`.

## 1. Inventory

### 1.1 The runtime (machine code emitted by `lower/`)

One native thread runs everything, so there are no data races; the
concurrency is that of callbacks, tasks and the collector entering between any
two operations.

| component | state | operations | interacts with | hard part | what makes it correct |
|---|---|---|---|---|---|
| task scheduler (`lower/task_runtime_amd64.go`) | per task: state, result, closure, `next`, parent, saved and return stack words and root heads, cancel flag, context; run queue, microtask queue, current task | spawn, microtask, resume, suspend, run-one, drain, join, yield, reject, sleep, cancel, context, groups | collector (root chains), timers, channels, promises | joins nest other tasks on the joiner's stack; three lists share one link field | each live task is in one place; activations nest; no root chain is lost or stale; nobody is starved; the process exits only when nothing is left |
| timers (`lower/timers_amd64.go`, `irgen/web_timers.go`) | the deadline-ordered timer list, wake times | setTimeout, clear | scheduler | clear races expiry; equal deadlines | order of deadlines but for workers cleared where they stand, no early wake, cleared callbacks never start |
| channels (`lower/channel_runtime_amd64.go`) | ring (data, head, tail, count), pending slot and its flag | new, send, recv, trySend, tryRecvOr | scheduler (yield), collector | wraparound; second sender before the first one's turn | first-in first-out, rendezvous, nothing kept alive |
| promises (`irgen/promises.go`, `lower/promise_rejection_amd64.go`) | task result, rejected/handled/reported bits | resolve, reject, all, race, thenables, unhandled-rejection report | scheduler, microtasks | members that settle between two polls; settlers called twice; a replaced array element | an aggregate settles at the poll that sees what decides it, from the right members; a thenable settles once |
| intervals (`lower/intervals_amd64.go`, `irgen/web_timers.go`) | per interval a worker task; handles are addresses as numbers | setInterval, clear | scheduler, collector | a handle outlives its task; a clear finds the task nowhere | a clear that finds its timer stops it |
| heap and collector (`lower/allocator_amd64.go`, `lower/gc_*_amd64.go`) | size-class free lists, large chunks, mark and start bitmaps, mark queue | alloc, free, mark, sweep, trigger | every object layout, root chains | interior layouts, exact roots, sizes at boundaries | reachable is never freed, free memory never overlaps, a swept object is really dead |
| events and abort (`lower/event_target_amd64.go`, `lower/abort_amd64.go`, `irgen/web_events.go`, `irgen/web_abort.go`) | listener lists, dispatch flags, abort state and reason, dependants | add, remove, dispatch, abort, any, timeout | timers, promises, fetch, streams | listeners that change the list during dispatch; re-entrant abort | once-listeners run once; a dispatch ends at its boundary; an abort keeps its first reason, removes what is bound to it and reaches its dependants |
| streams (`irgen/web_streams_*.go`) | a queue that only grows, its index, locks, readers; state strings, stored errors and sizes are written and never read | read, enqueue, cancel, write, pipe, tee | promises, abort | two consumers on top of one another in a callback | chunks in order, none skipped, none twice |
| fetch and bodies (`irgen/web_fetch.go`, `web_request.go`, `web_response.go`) | sockets, response records, used and locked flags | fetch, text and its like, clone, body reader | network, abort, streams | redirects, aborts, a descriptor that is reused | each open socket has one holder; what text() or a fetch takes whole nobody had before |
| headers, URL, search parameters (`irgen/web_headers.go`, `web_url*.go`) | a list of pairs; URL components and two copies of the query | the Web APIs | fetch | arguments that run the program in the middle of an operation | the two copies agree; text and record round-trip |
| blobs, form data, URLPattern (`irgen/web_blob.go`, `web_formdata*.go`, `web_url_pattern.go`) | byte parts, patterns | the Web APIs | bodies | parser corner cases | round trips |
| network (`lower/net_*_amd64.go`) | sockets, non-blocking buffers | connect, read, write, close | scheduler (yield while not ready), fetch | partial reads and writes, aborts | bytes in order, nothing lost, closed once |
| resolver (`lower/net_dns_amd64.go`, `net_ipv6_amd64.go`) | one lookup: files, query, reply | resolve, address parsers | network | replies cut anywhere, pointers, timeouts | the address of the source that comes first, or none |
| TLS (`lower/tls13_crypto_amd64.go` and its callers) | keys, transcript, records | handshake, read, write | network, crypto | bit-exact | published vectors |
| crypto (`lower/crypto_*_amd64.go`, `irgen/web_crypto*.go`) | digest buffers, key objects | digest, HMAC, HKDF, AES-GCM, X25519 | buffers, promises | bit-exact arithmetic | published test vectors (not a model-checking question) |
| collections, dynamic objects, arrays (`lower/collection_amd64.go`, `dynamic_object_amd64.go`, `array_runtime_amd64.go`) | tables, a hash table with its last slot, arrays | get, set, delete, iterate, grow | collector | growth into a reclaimed block, deletions, NaN and -0 | finite maps in insertion order |
| structured clone (`irgen/web_structured_clone.go`) | the memo of a call | clone, transfer | buffers | cycles, sharing, transfers | one copy of each node, linked alike |
| values and conversions (`lower/jsvalue*_amd64.go`, strings, buffers, numbers, encodings) | tagged words, ropes | compare, convert, format | collector, irgen | NaN, -0, rounding | equality laws, round trips |

### 1.2 The compiler (Go)

| component | state | correctness |
|---|---|---|
| lexer, parser (`internal/frontend/lexer`, `parser`) | position, token buffer, diagnostics | every input terminates with a tree or diagnostics |
| sema and types (`internal/frontend/sema`, `internal/core/types`) | scopes, symbol and type tables, narrowing | assignability is a preorder where it should be; narrowing is sound |
| control-flow lowering (`internal/midend/irgen`) | current function and block, locals, exception targets | the blocks do what the statements mean |
| optimizer (`internal/midend/opt`) | IR | meaning is preserved |
| register allocation (`internal/backend/regalloc`) | live intervals, free registers, spills | two live values never share a register |
| assemblers, object writers (`internal/backend/asm`, `obj`) | code bytes, fix-ups, sections | displacements resolve to their targets; file offsets are consistent |
| arm64 lowering, runtime support sources, CLI, API (`lower/arm64.go`, `internal/runtime`, `cmd`, `pkg/tspro`) | - | driver and second target |

## 2. Plan

Order of work: what every program depends on comes first. The project keeps to
a dozen runs and some forty properties, so each later run has to carry several
components.

Done:

1. `TaskRuntime` - scheduler, timers, groups - with the abstract specification
   `CooperativeTasks` and the proofs `TaskRuntimeProofs`, that of the refinement among them.
2. `Channel` with the abstract specification `AbstractChannel`, and
   `AsyncProgram`, which composes scheduler and channel.
3. `Heap` - free lists and the mark-sweep collector - with the abstract heap of
   objects `AbstractHeap` as its refinement target, and the proofs `HeapProofs` (blocks, bits,
   lists, then marking, survival, refinement).
4. `LinearScan` - register allocation - and `FunctionCode`, which composes it with
   liveness, the root slots and the code emitted for a function, with the proofs
   `FunctionCodeProofs` of both.
5. `Events` - event targets, listener options, dispatch and abort signals - with
   `EventsProofs`.
6. The parts that programs use side by side, one module each, checked in one run
   by `MCParts`: `Promises`, `Intervals`, `Streams`, `Fetch`, `Network`,
   `Resolver`, `URLs`, `Headers`, `Containers`, `StructuredClone`, and
   `ControlFlow` with the optimizer. `PartsProofs` (intervals, promises and containers),
   `StreamsProofs` (streams and the network exchange) and `FetchProofs` (fetch and headers) prove
   what is promised of seven of them.

Left, in this order:

7. `Streams` over `TaskRuntime`, so that what blocks in a callback is the
   scheduler's own choice instead of any task's.
8. Assignability of types and displacements of branches as operators; form data
   and URLPattern as codecs.

## 3. Modules and how they correspond to the code

### TaskRuntime
One action per runtime entry point. A step is what happens between two points
at which another context can be entered; there is one thread, so nothing
smaller is visible. What the compiled program does in control is any choice of
calls.

| state | code |
|---|---|
| `state`, `timer`, `cancelled`, `context`, `wake` | fields of the task object (offsets at the top of `task_runtime_amd64.go`) |
| `parent`, `returnRsp`, `returnRoot` | the words a resume fills with the caller's context |
| `savedRsp`, `savedRoot` | the words a suspend fills with the task's own |
| `runQueue`, `microQueue`, `timerQueue` | the lists through `task.next` |
| `current`, `rootHead` | fields of the runtime context in R15 |
| `joining` | the join and group-join loops that are on each stack, as what they still wait for |
| `main` | whether the main program runs, is in the run-one of its yield, drains or has exited |
| `armed` | history: the deadline with which a task was last put in the timer list |

`ClearInterval` writes a deadline of zero into a sleeping worker where it stands, as
`ts_timer_clear_interval` does, and the list is not put in order again; so `TimersSorted` and
`NoEarlyWake` speak of `armed`, and except a worker cleared in place (`ClearedInPlace`). Such a worker
wakes when all that stands in front of it has gone: the comment at `lower/intervals_amd64.go:88-90`,
that it is "made immediately due", is so at the head of the list only. `Collect` gives the object of a settled task
that nobody waits for back to the allocator, and a later spawn uses it again, so that the runs
are not limited to as many activations as there are objects.

Root words are abstracted to the context whose frames they point to, stack
pointers to "non-zero". The lists are sequences; `OneHome` says when that is
faithful to intrusive lists, so a violation of it would also invalidate the
abstraction. Reading the clock twice in `RunOne` is one reading in the model:
a clock that advances in between has the effect of a `Tick` after the step. A group
join waits for the members present at its call: the code walks the member list
from the head it read, and new members are pushed in front.

`CooperativeTasks` is the abstract view: tasks are entered and left like a call
stack, and settle once. `TaskRuntime!StackDiscipline` is the refinement: the stack is the
sequence of the tasks on the chain in which each was resumed by the one before it, as the parent
words say (`ActivationStacks`).

### Channel, AbstractChannel
`Channel` is one channel object and the place of each actor in its call. The
capacity is a variable: `Init` clamps any requested one as `ts_channel_new` does. A
blocked operation yields and re-examines the channel when it is resumed; any
actor may be next, which over-approximates every order the scheduler
produces. `Resumed` are the actors the scheduler resumes again and again: tasks in the run queue with
no join above them. The main program and a task that joins may lie beneath another join on one stack, and
nothing resumes them until it returns; of those nothing is assumed. `AbstractChannel` is a bounded first-in first-out queue in which a rendezvous
send leaves only after its value has been taken.

### AsyncProgram
Extends `TaskRuntime` and instantiates `Channel` with the scheduler's contexts as
actors; each context runs a script. `await` is a join, as in
`irgen/expressions.go`. Blocked channel operations yield to the scheduler.

### Heap, AbstractHeap
`Heap` is memory as units: blocks with a size, a type and reference words; the
segregated free lists and their order; the bitmaps of allocation starts and marks;
the mark stack and the queue of chunks with pending marks. The
actions are allocation (bumping, or fitting and splitting; when neither succeeds a collection, a
retry and then a new chunk), the stores of the program, one marked object at a time, and the
sweep of one block, which merges neighbouring free blocks and puts each free one in the sweep's
list; that list is partitioned into the class lists block by block. A number stored in a
dynamically typed word can look like a reference, as in the code. `Store` and `AbstractHeap!Write` put one
word in place of all that an object held, so an object holds one reference at most and only the set
of root words branches. `AbstractHeap` is a graph
of objects in which only unreachable ones may go, and a new object has empty fields;
`HeapOfObjects` is the refinement. `Covered` is the number of units the start bitmap
covers (65,536 bits of 16 bytes in the code) and `Limit` the sizes a chunk may
have.

### LinearScan, FunctionCode
`LinearScan` is the loop of `Allocator.Allocate` over arbitrary intervals: expire,
take a register, evict the interval that ends last, or spill. `FunctionCode` is one
function from its lowering to its calls, in the order of the code. The liveness loop of
`computeIntervals` visits the blocks one by one, the last first, and passes again until a pass
changes nothing (`VisitBlock`, `PassAgain`); a pass reads sets that the same pass has
changed. Then come the intervals (`FindIntervals`: linear positions, phi copies,
extension over every block a value is live through), the scan of `LinearScan` (`Compile`), and
the root slots of `amd64RootSlotsWithLiveOut`, a value at a time (`ColourRoot`). When
all are placed, the emitted code runs (`Enter`, `Execute`, `TakeEdge`, `Return`): operands
are read from registers, spill slots or parameters, results are stored and rooted,
phi copies are made along edges, dead roots are cleared, and a call may collect everything that
no root slot holds. A value is itself, so the first part of `OperandsGood` says that what an operand's location
holds is what SSA form says it holds.

Every value is a reference, so the liveness of `computeIntervals` and that of
`amd64RootLiveOut`, which differ in the values they are about, are one. `WellFormed` is
what the IR is when it is lowered: every value has one definition (`DefinedOnce`),
which every way to a use leads over (`AvailableIn`), every block is reached
(`Reached`), and none goes back to the first. At the optimization levels from 1 on, 2 being
the default, `simplifyCFG` drops unreachable blocks; at level 0 some may
remain, and such functions are not covered.

### Events
A target's `list` holds every listener ever added to it, because removal only
sets a flag and the links stay (`event_target_amd64.go`); a position in it stands for
the listener's address. `calls` is, per task, the stack of dispatches in progress: each is the local
state of the loop in `lowerEventDispatch` - the boundary read at the start, the
listener last called, and whether the loop scans, is in the callback or has
returned from it. The runtime's own steps are not interrupted; whenever every
task is at its top level or in a callback of the program (`ProgramRuns`), any task
may make any of the program's calls, because a callback can block and let another task
run. Callbacks of the runtime (the removal of a listener bound to a
signal, the abort of a dependent signal) are steps of their own, since the dispatch
they start nests in the one that called them. `silenced` and `forged` are
history variables: abort events a callback stopped, and abort events the program
dispatched by hand at a signal that was not aborted.

Two things the code does show in how the properties are stated. The removal of a
listener bound to a signal is an ordinary listener of the abort event, so a callback that
stops that event keeps it from running (`AbortArrives` excepts this). And an
abort event dispatched by hand aborts the signals that depend on the target although the target
is not aborted (`AbortArrives` excepts this too).

### Promises
A promise is a task; `outcome` and `value` are its state and result. An aggregate is a
task that looks at its members and yields until they decide it, so one `Poll` is one
round of the driver, and all that settled between two polls is seen at once. The form that
takes an array reads its elements at each poll, so the program can replace one (`Replace`). A
thenable is driven by a task that calls `then` and waits in two channels for one value; a
settler's `trySend` of the second settlement finds the first full. There is no
`Promise.any` or `allSettled` in the code. `AggregateRight` says which members an aggregate
settles from, that it does not outlive a poll that decides it, and that a settler
called twice, or before `then` throws, changes nothing that was decided. A `then` that throws
rejects even after its settler was called.

### Intervals
A handle is the address of a task as a number and keeps nothing alive: `Free` gives the
address to a later task, whose timer an old handle then clears (`struck`). The scheduler takes a timer off
the list and enters it in one step (`RunTimeout`, `WakeInterval`), so that a timeout that is past its deadline
and has not begun is still in the list, where a clear finds it. `clearTimeout` looks in the timer list alone,
`clearInterval` also in the run queue and at the current task. A task whose callback waits in a join is in none
of them and is missed (`missed`), and so is, by `clearTimeout`, one whose callback has
begun. `ClearedStops` says that these and timers that are over are the only exceptions. An interval of zero never
yields between callbacks (its sleep returns at once).

### Streams
A readable stream is an array that only grows and an index. A consumer takes the index, may call
the program back (pull of a reader, write and close of a pipe, cancel), and stores the
index it computed from what it took; `calls` is, per task, the stack of what the callbacks
return to. In a callback the same task may use the stream again, or block and let another
do so: the stream is then `contended`. `ChunksInOrder` promises order and once-only for
streams that are not, and for all of them that the index never passes a chunk that nobody was given. The
state strings, stored errors and high-water marks are written and never read, and a reader
can be taken from a stream that is locked: both are as in the code.

### Fetch
`fetch` runs in its caller and blocks there; `pc` is the round it is in or the pull of a body
it waits for. `files` is the kernel's table, in which the lowest free descriptor is given out
again, so that a second close may close another response's socket. `handed` records what each body was given
out to: the whole of it to text(), its like or a fetch, some of it to a reader, the bytes to a copy that
`new Request(request)` makes. `BodyTakenOnce` says that what is taken whole was given to no reader and taken whole by
nobody before (`WholeOnce`). It does not say that nobody gets it afterwards, because the code gives it out again:
the reader of a body that text() has taken still has all its chunks, and a copy neither looks at the mark
nor sets it (section 5). For responses that and `SocketsHeld`
hold until one is used while a pull of it is blocked (`overlapped`); the
code checks the used mark before the pull and sets it after. A response header the
constructor refuses throws past the close of the socket (`leaked`).

### Network, Resolver
`Network` is one exchange over a non-blocking socket: every write and read takes what the
kernel gives, a call that would block yields, and only then can the signal abort. The peer sends
a right or a wrong response and may end after any byte. `RequestWhole`,
`ResponseDecoded` and `ClosedOnce` compare what the calls returned with what the peer made.
A chunk is what a peer writes of it - digits, extension, line end, payload, end - and
`Meaning` is what it stands for, read off these fields and not off the bytes. `Framed` says which
wrong chunks a peer may write: any whose bytes do not read as another, right chunk, since for those
the fields would not say what the bytes mean. `Resolver`
holds the two address parsers, as folds over a text, checked against a reference definition
on every text up to a length (`Meanings4`, `Meanings6`: dotted octets, and groups with one `::` at most); and one lookup: dotted address, `localhost`, `/etc/hosts`, the first
nameserver, one query, and the reading of the reply bytes, cut anywhere. As in the code: a
colon after the last group of an IPv6 address is let pass (`ColonAfterGroup`, which `AddressesRight` names as the
one kind of text that is taken and is no address; section 5), a nameserver in a comment is used, the first
reply decides, and the query is not sent again.

### URLs, Headers
`URLs` is the record of components and the list of search parameters, on tokens; each
operation on either copy of the query updates the other, and an append holds the list
while its arguments run the program. `URLAgrees` says the two agree, answer alike, and that text and
record determine each other for the URLs a text can hold: the setters of path, query and host
can put delimiters in a component (`Expressible` excepts them). `Headers` keeps the list of pairs
next to `given`, what the calls say each name holds. `new Headers(array)` with an array that is not a
literal adds nothing, as in the code (section 5): its pairs count as given, and `lost` names them until they are set or
deleted, also in objects made from that one. `HeadersAgree` speaks of all other names. A spread in an object literal
adds nothing either, and is not among the calls. Iteration goes over a copy made when it begins.

### ControlFlow
A program is a syntax tree. `lowerFunction` makes its blocks with phis, catch and finally
contexts and return slots as `irgen` does; the passes of the optimizer are actions, repeated as
`optimizeFunction` does; `Run` executes the blocks. `Outcome` is what the tree
means. `RunsAsWritten` compares them for the programs the lowering is right about. The ones it is
not right about are named by the conjuncts of `Supported`: statements after a return;
assignments in the arms of `&&`, `||`, `??` and `?:`; assignments in forms that the walk over a loop does not
enter; tests of `while` and `for` with such expressions; assignments in a `try` or its `catch`;
a return through two nested `finally`s; the two sides of an `if` that give a variable the same operand;
a default that is not the last clause. `FoldEscapes` names the uses of a
folded value that keep the removed instruction: stores and accesses, and blocks laid out
earlier. The menu of the run has programs of each of these kinds; the property is about the others. A
throw out of the function rejects the task and returns. `break` occurs in switches
only, and the compiler refuses `continue`.

### Containers, StructuredClone
`Containers` keeps a collection (searched in insertion order), a dynamic object (open
addressing, with the last slot remembered) or an array next to `given`, a plain sequence; a
grown block is fresh, and zero, or reclaimed, and full of what it held. What lies outside an array reads as 0, in an array of dynamic values as undefined
(`Outside`; kind "values"); a hole below the length is a zero word in both, as in the code. The names of a
dynamic object are compared as a set and not in order: an enumeration goes through the slots of the table. `StructuredClone` checks and makes the transfers, then copies the graph along
the static types with a memo. A value of type `any` that is not a dynamic object is
shared, not copied, and a buffer that was detached before the call is no error.

### MCParts
The eleven modules above share no state, so a program that uses several of them has the product of
their behaviours, and each can be checked alone. `MCParts` gives each its constants, keeps the state
of the one chosen in `v1`, `v2`, ..., and states each part's invariants, one definition per
part. One run of TLC then explores the union.

### Proof modules
`TaskRuntimeProofs`, `ChannelProofs`, `HeapProofs`, `EventsProofs`, `PartsProofs`,
`StreamsProofs`, `FetchProofs` and `FunctionCodeProofs`, see section 6.
The `MC*` modules give the constants their values.

## 4. Runs

| run | bounds | question |
|---|---|---|
| `task_safety` | three task objects, used again when collected; delays -1 and 2, clock to 2 | every order of spawn, microtask, timeout, both clears, cancel, join, sleep, yield, settle, collect keeps lists, chain and roots right, and refines the stack discipline |
| `task_liveness` | two task objects used again without end, one group, two context values, delays 0 and 2 | who may starve: a timer only behind microtasks without end, a runnable task only behind those or due timers without end |
| `channel` | requested capacities -1, 1, 3; four actors, one of which only receives, one value each, sent again and again | ring, rendezvous, order, and that a sender and a receiver who are both resumed again and again meet, unless others meet there endlessly |
| `async_program` | three programs, capacities 0 and 2 | whole programs end, and leave nothing behind |
| `heap_blocks` | one chunk of 8 units, sizes 2 and 3, least split 3, a number that looks like a reference | blocks and lists tile memory; marking is complete; a collection frees what is unreachable |
| `heap_refinement` | two chunks of 4 units | the heap implements the abstract heap; every collection ends |
| `function_code` | five references, two registers; loops with a conditional in the order `lowerFor` and `lowerIf` emit blocks, two-parameter conditionals, any order among intervals that start together, a collection at every call | registers and root slots are right for every operand read |
| `events` | two tasks, one target and three signals, two callbacks, at most two dispatches begun by the program at a time (aborts and dependants nest further), three or four listeners ever added; four menus of calls | listeners once, boundary, removal by signal, dependent signals |
| `parts` | one small instance for each of eleven parts, below | each part keeps its promise under every order of its calls, callbacks, failures and blocked tasks |
| `await_inversion`, `rendezvous_reuse`, `heap_large` | as small as shows it | findings, section 5 |

**Bounds.** Three tasks give a chain of depth three, a list with a middle
element, and a task in each of three places at once; the proofs remove the
bound for safety. A negative delay is zero to a timeout and nothing to a sleep; with it, a delay of 2 and a clock to 2 there are
equal, ordered and past deadlines. `MaxTime` guards the arming of timers, so that no deadline lies beyond the
bound; a timeout of zero can be armed at any time and for ever, so in `task_liveness` due timers may keep
coming. A ring of three wraps around with every fill level. Eight units hold four blocks,
enough for a free block between two live ones and for a merge on both sides. Two registers
for five values force every branch of the scan. The four
menus of `events` divide the product of all calls by what they can disturb:
dispatches over a changing list, listeners bound to a signal, signals that depend on
two others with a timeout, and chains of dependent signals with handlers; two dispatches
suffice for one nested in another and for one in each task.

The instances of `parts`: streams - two tasks, a constructed stream and the two
of a tee, two chunks, callbacks two deep; fetch - two tasks, two sockets, one redirect, so that a
descriptor is used again; intervals - two timers on two addresses, each called back twice at most; promises - an aggregate of at most two of
two leaves, itself and a thenable whose settlers are called twice; network - eleven
kinds of chunks in at most two-chunk responses, with reads and writes of at most two bytes, so that
each is cut; resolver - the texts over three characters up to length 5 and over two up to 8 with two octets and three groups, five hosts, and
replies of 120 shapes cut at fifteen lengths; URLs - three inputs, seven relative texts, each setter, two
parameters; headers - two objects, three spellings of two names, three pairs, arrays among them;
containers - keys with NaN, both zeros and equal strings, names with one hash and with one
slot, growth past 4; clone - all graphs of three nodes of the kinds listed; control flow - some
2,000 programs of at most three constructs inside one another, for four inputs. Deadlock is
not checked in this run: an exchange, a lookup, a clone and a program end.

**Fairness.** The liveness runs assume weak fairness of the runtime's own loops (the
processor executes them), of the clock, and strong fairness of "code in control
gives up control": a program that computes for ever starves everybody in a
cooperative scheduler, and that is not the scheduler's doing. Under this fairness the scheduler still
prefers microtasks, then due timers, and a callback that arms its own timeout of zero starves the
run queue: `SleeperWakes` and `RunnableRuns` name that as the only way to wait for ever. In `AsyncProgram` the scripts
are finite, so weak fairness of execution suffices. For a channel, the fairness is that of
the actors in `Resumed` alone. That is what `RunnableRuns` establishes for a task in the run queue; a
context beneath a join is not in it, and with main receiving beneath a task that awaits a sender, nobody ever moves.
So `BlockedMeet` asks for both parties in `Resumed`, makes no claim for the others, and allows that others
meet on the channel endlessly. In `Heap` only the collector's own steps are fair.

## 5. Findings

* `await_inversion` - `await` compiles to a join that runs other tasks on the
  awaiting task's own stack. A task whose awaited task has settled cannot continue while a
  later join sits above it; if that one waits for the first, the program livelocks.
* `rendezvous_reuse` - the sender of an unbuffered channel cannot tell "my
  value is still there" from "another value is there": a request and answer
  over one channel hangs.
* `heap_large` - the chunk of an object larger than 1 MiB has the same bitmap of
  65,536 allocation starts as every other. When such a block is freed and split beyond
  the first MiB, the start bit falls outside the bitmap, into the block just taken; the marker
  refuses references to objects there, and the sweep frees them while they are reachable.

**Known disagreements.** Where the code does other than a comment or a list of the repository says,
and a property of a passing run says what the code does, the exception is named in the property:

* `new Headers(array)` with an array that is not a literal loses its values: the terminator of the list is
  overwritten (`irgen/web_headers.go:445-483`, at 479). `TODO.md:607` lists `Headers` with its constructors
  as conforming. `HeadersAgree` excepts the names in `lost`.
* A body is given out again by its reader after `text()`, and copied by `new Request(request)` whatever was done with it
  (`irgen/web_request.go:165-172`). `TODO.md:608-609` and `632` list body state as conforming. `BodyTakenOnce`
  is about what comes before a taking of the whole (`WholeOnce`).
* A colon after the last group of an IPv6 address is let pass; the comment at `lower/net_ipv6_amd64.go:189` says that an
  empty trailing group is valid only after `::`. `AddressesRight` excepts `ColonAfterGroup`.
* An interval cleared while its worker sleeps is "made immediately due" (`lower/intervals_amd64.go:88-90`) only at the head of the
  timer list. `TimersSorted` and `NoEarlyWake` except `ClearedInPlace`.

Two consumers on top of one another in a stream can get one chunk twice, and a response used
while a pull of it is blocked can give its body to both; `ChunksInOrder` and `BodiesHeld` speak of what holds without such an
overlap. The forms the lowering and the optimizer are not right about are the conjuncts of `Supported` and `FoldEscapes`
(`ControlFlow` above).

## 6. Proofs

`TaskRuntimeProofs` proves, for any sets of tasks, groups, contexts and delays
and any bound of the clock (assumptions `TaskAssumption`, `ContextAssumption`,
`ClockAssumption`), that the scheduler keeps `IInv`, from it the safety and action
properties of `task_safety`, and that it implements `CooperativeTasks`
(`TasksAreAStack`).

* **Why the invariant is needed.** Each property fails to be inductive alone. A
  resume reads the return words and the root words that an earlier step left
  (`FrameWords`); it keeps the chain a path only because the resumed task was in
  a list and so not on the chain (`OneHome`); it keeps `OneHome` only because the current task
  is on the chain (`ChainOK`). The order of the timer list needs that a deadline which is not the one armed is
  zero (`OnlyZeroInPlace`): an insertion that passes over a worker cleared in place
  goes behind it, and so never in front of what was armed for no later. `ChainOK` states acyclicity as "every set of
  tasks on the chain has one whose parent is outside", which is preserved without
  induction over the length of the chain.
* **Layout.** Lemmas on lists (append, tail, insertion), on the two context
  switches (`EnterChain`, `LeaveChain`), on kinds of steps (`QuietStep`, `CreateStep`,
  `LeaveStep`, `DispatchStep`), then one step per action in `TypeStep` and `ShapeStep`.
* **The refinement.** A sequence of the tasks on the chain is the stack if the parent words
  link it (`Paths`). There is at most one (`OnePath`: compared from the end, two of
  them differ nowhere first, by the least number principle of `NaturalsInduction`); entering a
  task appends it (`PathExtends`, `EnterStack`) and leaving one drops the last (`PathShrinks`,
  `LeaveStack`), which needs of `ChainOK` that nobody on the chain was resumed by the
  current task. That there is a path at all, and that the chain is finite, is kept along
  with them (`StackInv`), whatever the set of tasks.

`FunctionCodeProofs` proves, of `LinearScan` alone, for any values, any intervals and any
number of registers (`RegsAssumption`), that values with overlapping intervals never share a
register or a spill slot (`OverlapNeverShares`), and that the free registers are those no
active value holds (`RegistersStayAccounted`). Of `FunctionCode` it proves, for any
well-formed functions, blocks in any order (`FunctionsAssumption`), that the code reads
what it means to read and that no collection has freed it (`OperandsStayGood`), and that the
two facts on the allocation hold of the intervals the function has
(`FunctionsAllocateWell`).

* **Why the invariant is needed, the scan.** `NoSharedLocation` speaks of two placed
  values; to keep it when a third is placed one has to know that the register
  taken is not held by an active value and that its former holders are over
  (`RegistersAccounted`), and that spill slots are handed out once
  (`SlotsAccounted`). The key lemma, `OthersAreOver`, uses the order of the
  scan: whoever expired before this start is over before every later one.
* **Why the invariant is needed, the code.** `OperandsGood` speaks of the last step only. What is
  kept is that every value the block in control still needs (`Needs`: used before it
  is defined again, or live at the end) is in its location and in its root slot, and has
  not been freed (`FrameInv`). To keep it when a result is stored, one needs that a value
  still needed and a value being defined have overlapping intervals (`ResultMeetsNeeded`,
  `PhiMeetsNeeded`, `ParamMeetsNeeded`), hence other locations (`MeetingLiveApart`), and that
  they meet in a block, hence other root slots (`NeededMeetsDefined`,
  `InterferingRootApart`). Two intervals that only touch do not overlap for the allocator, and a
  result may take the register of an operand; what rules out that it takes that of a value still
  needed is that an interval which begins before its definition lasts to the end of the defining
  block (`EarlyLastsLong`): the value is then live into some block, so it is live out
  of the one that defines it, because every way there leads over the
  definition (`LiveInIsLiveOut`; it is here that unreachable blocks would break the argument).
  That the sets are a solution when the loop ends is `LivenessInv`: every block visited
  since the last change is solved, so a pass without change has solved all
  (`QuietPassIsReady`). That a root slot is left for every value is a matter of counting
  (`SlotIsFree`).
* **Layout.** The scan; numbers (least elements, bounds); where the parts of a block lie
  (`Positions`) and what an interval covers (`StartIsFirst`, `EndIsLast`); what a block needs
  (`InstructionNeeds`, `TerminatorNeeds`, `NeededIsSpanned`); who meets whom; the liveness
  loop; the root slots; stores (`StoredHolds`, `FrameAfterStore`); then one lemma per action
  and conjunct. `CodeInv` is their conjunction. TLC has checked it on the functions of the run.

`ChannelProofs` proves, for any contexts, any values and any requested capacity
(`ChannelAssumption`), that the ring and the slot stay consistent
(`ChannelStaysConsistent`), and that the channel implements the queue of
`AbstractChannel` (`ChannelIsQueue`).

* **Why the invariant is needed.** `ChannelConsistent` ties the count and the two positions to
  the slots that hold values. Alone it is not inductive: a sender that goes on
  stores the value it came with, so `KindsMatch` keeps that there is one, that only callers of an
  unbuffered channel use the slot, and that the slot of a buffered one is empty.
* **Layout.** Four lemmas on positions modulo the capacity (`ModNext`, `ModStep`,
  `ModHere`, `ModApart`); a put and a take keep the ring (`PutKeeps`, `TakeKeeps`),
  and are an append and a tail of the queue the ring stands for (`PutAppends`,
  `TakeTakesFirst`); then each call maps to a step of the queue or to a stutter
  (`CallRefines`, `ProceedRefines`).

`HeapProofs` proves, for any address space, chunk size, classes, requests and thresholds
(`HeapAssumption`, `NumberAssumption`), that blocks, start bits and free lists describe one
heap (`BlocksBitsAndListsAgree`). Its second half proves that marking overlooks nothing
(`MarkingIsComplete`), that what the program can reach is never free
(`ReachableAlwaysSurvives`), that the heap implements the graph of objects of `AbstractHeap`
(`HeapIsOneOfObjects`), and that a collection keeps exactly what a chain of words from the roots
leads to and leaves no two free blocks side by side (`CollectionIsExact`). These four have the
hypothesis `WithinBitmap`: no request is longer than a chunk's bitmap covers. It is what the
collector takes for granted, and the code does not ensure it: without it the four are false,
as `heap_large` shows. `BlocksBitsAndListsAgree` does not need it.

* **Why the invariants are needed.** That the blocks tile the chunks is kept by a split or a merge
  only if the block's list and the header agree about its size, and the lists
  are exact only outside the sweep, which builds a list of its own; so `BlocksInv` says where
  every free block is in each phase: in its class (`ListsExact`), or in the sweep's list
  because the sweep has been there (`SweepInPlace`, which also places the sweep at a
  boundary with the free block it may extend right behind it). A retry still knows what was asked for
  (`WantKept`). For marking, the checked invariant says that what is left to trace is in
  one list; to keep it one needs that marks are on headers (`MarkedAreHeaders`), which the start bits
  guarantee as far as the bitmap reaches (`AllCovered`), that what is not free, or will not be
  after the sweep, is closed under references (`KeptClosed`), and that no stale words lie where a block will be
  mapped (`PayloadsClean`). That nothing unreachable is kept
  quantifies over sets closed under references (`NothingExtra`: whatever holds the roots and is closed
  holds every mark) instead of over paths, so that no induction over a path is needed.
* **Layout.** Lemmas on lists (`ConsFacts`, `TailFacts`, `WithoutFacts`) and places of blocks;
  what each operation does to the blocks (`BlockAdded`, `BlockSplit`, `BlocksMerged`); one lemma per
  action for `BlocksInv`. Then the colours, per kind of step (`ColoursMark`,
  `ColoursTrace`, ...); and steps sorted by what they mean for objects (`StepKinds`): a
  birth, a step of the program, the beginning of a sweep, or one that moves nothing.

`EventsProofs` proves, for any targets, signals, tasks, callbacks and menus of calls
(`EventsAssumption`, which gives the types of the menus), that a once-listener is called at most once
(`OnceIsOnce`), that a dispatch never goes past the listener that was last when it began after having called it
(`DispatchesEndAtBoundary`), and that an abort arrives: the listeners bound to the signal are off, the
signals that depend on it are aborted and have a source's reason (`AbortsArrive`).

* **Why the invariants are needed.** The first two need `Shapes`: what is true of every
  listener (`ListenersProper`), where a dispatch stands in its list (`DispatchesPlaced`, for which
  a list may only grow and what is removed stays removed), and that the runtime is at work in one task
  at most (`OneBusy`). An abort reaches a listener through another one, the remover, so
  `AbortsArrive` follows the chain backwards: a bound listener that is on has its remover on the
  signal's list, or being called (`BoundHaveRemovers`); a remover that is on, of a signal
  that is aborted and not silenced, is still ahead of the abort's dispatch
  (`RemoversHear`); the same for dependent signals (`DependentsHear`, `DependentsListen`). When no
  dispatch of the abort is left, nothing can be ahead of it. A dispatch that waits for a nested one
  is in a callback of the program, or past its listener (`WaitingInProgram`), so
  what the runtime's own callbacks begin is over before the dispatch that called them goes on.
* **Layout.** How lists evolve (`Evolves`, `Grown`); each of the program's and the runtime's
  operations as one of eight kinds of steps (`Making`, `StopStep`, `TurnStep`, `RemoverStep`,
  `CallStep`, `EndStep`, `AbortStep`, `DispatchStep`; `StepKinds`); what becomes of a
  dispatch and of what is ahead of it (`DispatchKept`, `AheadKept`); then one lemma per conjunct,
  with a step per kind.

`PartsProofs` proves what is promised of intervals, of promises and of containers.

For any timers, addresses and bound of calls (`IntervalsAssumption`), `ClearedStops`: a clear
that finds its timer stops it (`ClearStopsTimer`).

* **Why the invariant is needed.** A stopped timer calls no more because it is marked
  (`StoppedIsMarked`). That a timer nobody cleared was struck through an old
  handle (`StruckByOld`) holds because two tasks that exist never have one address
  (`AddressesDiffer`): the timer the handle was made for must have been freed.

For any promises, aggregates, thenables and bounds (`PromisesAssumption`), `AggregateRight`:
`Promise.all` and `Promise.race` never wait past a poll that saw what decides them, settle
from the right members, and a thenable gives its first settlement (`AggregatesSettleRight`).

* **Why the invariant is needed.** An aggregate looks at its members now and then, so its state is
  right of what the last poll saw, not of what is settled now. `PendingRight` says so with the prefix
  of `order` that was there at the poll: the promises settled by then. It is kept
  because `order` only grows and an outcome lasts. `SourceRight` relates an aggregate that
  settled to the members it settled from (`source`), and needs that these are settled, so that their
  values stay, and that a fulfilled aggregate has no rejected one. `FirstHeld`: until a
  thenable is settled, its channel holds the first call of the two settlers and no other,
  since the channel takes one value and further sends are tried only. `MadeBeforeSettled`
  keeps these true of what is not yet made.
* **Layout.** What a settlement changes (`SettleFacts`); how a poll can end (`PollKinds`:
  `FromMember`, `FromAll`, `Undecided`) and what can settle at a step (`WhoSettles`); which
  steps concern one aggregate (`AggregateSteps`, `Elsewhere`) or one thenable
  (`ThenableSteps`, `Aside`); then one lemma per conjunct.

For any keys with any classes of equal ones, names, hashes, elements and indexes
(`ContainersAssumption`: the classes are disjoint, and the mark of an empty slot is no name or key),
`ContainersAgree`: a Map, Set, dynamic object or array answers as the calls before it call for
(`ContainersAnswerRight`).

* **Why the invariant is needed.** That the container holds what was given says nothing of what a
  search finds. A dynamic object is `Searchable`: no name is in it twice, and from the home of a name
  to its entry no slot is empty, so that a search that stops at an empty slot has missed nothing. It
  is never more than three quarters full, so an empty slot exists and every search
  ends. The remembered slot needs only to lie in the table, since its hash and its key
  are compared again: after a growth it may hold another name. In a collection the entries are at the
  front in the order given, zero beyond, and no two keys are the same; that a delete
  removes the entry of one class and no other needs sameness to be an equivalence
  (`SameIsEquivalence`). An array must be zero past its elements, whatever block it has grown into.
* **Layout.** The slots a search looks at, without the remainders (`SpotFacts`); what it finds
  (`ProbeFinds`) and which writes keep a table searchable (`PutKeeps`, `RewriteKeeps`, `PlaceIsPut`).
  A rehash is a recursion over the old slots: that its steps exist is `FoldExists`,
  and that each has moved what lies before it (`MoveOne`, `MoveNone`) carries to the end by the least
  step that had not (`RehashKeeps`, with `NatMin`). The same argument counts the entries for an
  enumeration (`RankFound`, `EntriesAre`) and doubles a capacity until an index fits
  (`DoubledHolds`); then one lemma per operation.

`FetchProofs` proves, for any tasks, requests and bounds (`FetchAssumption`: the bounds are
numbers, and requests are not numbered like connections), that until a response is
used while a pull of it is blocked every socket has one holder, every body is what came on its connection, and
what text(), its like or a fetch takes whole was given to no reader and taken whole by nobody before; the
last holds of the body of a request in any case (`BodiesAreHeld`).

* **Why the invariant is needed.** It has two layers. `Base` holds in any case: connections
  are numbered in the order in which they were opened, a connection has one
  descriptor at most, and a body that is live is one whose pull and cancel reach the socket. `Undisturbed`
  holds until the first overlap: beside what is promised, a fetch waiting for a
  header has a socket of which no response has been made, a response nobody made has
  nothing read, and a pull is alone on its body, of a live one, at a place in it
  (`PullsAlone`). That a body which is out is used is kept beside what is promised (`Kept`): the code looks at
  the mark only. And it looks at the mark before a wait and sets it after, so of a pull for the whole the invariant says that
  the body is out to nobody but copies (`May`, `Open`); this is what makes the step after the wait safe. That the lowest free descriptor exists
  needs counting: connections opened so far are fewer than descriptors, so a table
  without a free one would hold a connection twice (`FreeDescriptor`).
* **Layout.** What is written in a task's place (`Places`, `NewPlaces`); steps that move no
  socket (`QuietStep`); what a giving out does to the list of those before (`GivenOut`, `HandedOut`); steps of one body, for each layer
  (`BodyBase`, `BodyAlone`) and for the last pull of it (`LastPull`); then one lemma per action or pair of like actions.

It also proves `HeadersAgree` for any objects, names, spellings, characters and values
(`HeadersAssumption`: the names in lower case are distinct, `set-cookie` is one of them,
a valid spelling has one of them as its lower case, and values are sequences of
characters): `HeadersAnswerRight`, for all names but those an array gave, whose values are lost.

* **Why the invariant is needed.** What is promised is about what is read: joined values, and a
  sorted copy. `FieldsGood` says of what is kept that every entry is a pair of a name
  in lower case and a trimmed value without a line end, and that `given` is exactly the values of the list by
  name, for every name that is not in `lost`. All that is promised follows from those two.
* **Layout.** Sequences laid end to end first: their definition is a recursion, and `GoesOn` and
  `Climb` (with `Least`) serve here as they do in `StreamsProofs`; `FlattenIs`, and from it the elements
  (`FlatMembers`), an order from piece to piece (`FlatOrdered`) and joining (`FlatJoins`). Then the
  values of a list made of pieces are those of its pieces (`ValuesFlat`), and pieces with
  the same values give the same (`SameValues`): delete, set and iteration are
  cases of it (`WithoutIs`, `ReplacedIs`, `NormalizedIs`). The insertion sort keeps what it has in
  order and loses no name (`InsertKeeps`, `SortedIs`); trimming leaves no space at either end and does
  nothing when done again (`TrimIs`); then one lemma per action.

`StreamsProofs` proves `ChunksInOrder` for any tasks, streams, readers and bounds
(`StreamsAssumption`): `ChunksStayInOrder`.

* **Why the invariant is needed.** A consumer stores, when its callback returns, an index
  it computed before it. So the invariant speaks of the callbacks on every task's
  stack: what each consumer in one has seen was handed out (`FramesRight`), and a stream nobody
  overlapped on has one such consumer at most (`OneConsumer`), which has
  seen exactly what was handed out.
* **Layout.** Queues that grow (`GrowthKeeps`), cancel callbacks (`CancelKeeps`), and one
  lemma for a consumer that keeps some of its task's callbacks and may enter one
  (`ConsumerKeeps`), which reads, pulls and pipes are instances of.

It also proves `InStep` of the network exchange, for any bytes, request, limits and set of responses
(`NetworkAssumption`: limits are positive, a response's header ends with its first empty line, and its chunks
are `Framed`): `ExchangeInStep`.

* **Why the invariant is needed.** What is promised speaks of what the calls have returned; a
  call in progress has returned nothing yet. So `NetInv` says of each call in progress
  how far it is: which calls a stage allows and who holds the socket (`NetStages`,
  `SocketRight`), that what the peer has of the request is a beginning of it as long as the
  place in the buffer says (`RequestRight`), that the headers' bytes are what has come and the
  empty line has not (`ReadRight`), and, for a chunked body, that the calls and the peer's
  chunks go in pairs (`ChunkRight`): the chunk to be decoded is the one after the results, it begins
  where the last one ended, and the place in it - in its digits, its extension, before the line feed,
  in its payload or the two bytes after it - agrees with the value, the number of digits and the bytes the
  call has kept (`Within`). Once the end has been met or a call has failed nothing more
  is read, and no such place is kept.
* **Layout.** Sequences laid end to end and the number that digits write are recursions;
  that their steps exist is `GoesOn` and what they come to climbs along them (`Climb`, with `NatMin`):
  `FlattenIs`, `ValueIs`. `WireIs` places the pieces of a response in its bytes, `EncodedIs` the fields of a chunk in
  its own. Then steps that read nothing (`Quietly`, `NothingRead`), calls that go on and calls that return
  (`GoesOnRight`, `ReturnRight`; within a chunk `GoesOnInChunk`, `GivesUp`, `ChunkReturned`), and one
  lemma per action.

A property of `MCParts` is the one of the same name of its part, with the part's `TypeOK`, when that
part is the one explored; the theorems above on parts state just these two of the part's own module.

**Only model-checked.** Liveness (`SleeperWakes`, `RunnableRuns`, `Terminates`, that
collections end and that two who wait for each other meet), what `AsyncProgram` says of whole programs (`CleanExit` and `Terminates` are true of the programs the
run has, not of every program: one that waits for ever leaves a task behind), and the
parts of `MCParts` other than `Intervals`, `Promises`, `Streams`, `Fetch`, `Network`, `Headers` and `Containers`.
`Resolver` and `URLs` are folds over texts, and
`ControlFlow` and the copy in `StructuredClone` are recursive over trees and graphs: what they compute
for every input needs induction over data, for which the library's theorems take an operator, which these
provers cannot instantiate. (That a set of numbers has a least element can be had without an operator, from
`WellFoundedInduction`; the bounds, the first differences, the rehash, the pieces of a
response and the sort of header names in the proofs rest on it.)

## 7. Not modelled

Listed per component in `PROJECT.json`, with what is planned. In short: cryptography,
number formatting and instruction encodings are bit-exact functions better tested with
vectors; scanning and parsing are character-level; the CLI and object-file output are input
and output. Semantic
analysis and types decide what compiles, which the compiled programs of the other
modules take as given; form data and URLPattern are in the plan; the functions that
derive TLS keys and encrypt records are called by no connection of the runtime. In the
scheduler, stack overflow and failing `mmap` are not modelled; a task object is used again
after collection (`Collect`), but only `Intervals` has handles that outlive it. Objects that hold two references
are not in `Heap` (section 3), and the order in which a dynamic object is enumerated is not in `Containers`. In `Promises` the mark
that a rejection was reported and its event object are left out, in `Fetch` the
constructors of requests and responses. In the heap, a refused `mmap` ends the model's
run, where the code would go on with the error code as an address; the roots are abstract
words, so whether each runtime helper roots its temporaries is not covered. In `Events` a callback
that throws counts as one that returns, and event fields, passive listeners and the two built-in targets
are left out.

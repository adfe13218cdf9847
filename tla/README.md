# Coly: a TLA+ verification project

Coly runs scripts whose pieces are programs in different languages, and lets
these programs share variables through a server. This directory holds TLA+
models of the program, the TLC configurations that check them, and theorems
about them that TLAPS proves. `PROJECT.json` ties every definition to the lines
of the source it models.

## 1. Inventory of the system

| Part | Source | State | Operations |
|---|---|---|---|
| Sessions and life cycle | `server.cpp` | `session_map`, `proof_map`, `subprocess_map`, `ServerSession::subprocess_id`, under `map_mutex` | reg process, reg subprocess, login subprocess, del process, `close_session` |
| Variable store | `server.cpp`, `libVarContainer.hpp` | `memory_container`, under `process_mutex` | set, get, del, sync of `var` and of `process` |
| Waits | `server.cpp` | `process_wait_map`, `var_wait_map` under `wait_mutex`; a mutex, a condition variable and an atomic version in each `WaitState` | wait process, wait var, `signal_wait_state` |
| Command dispatch | `server.cpp` | none | `CommandExecutor`: strips command words, checks registration |
| Transport | `VariableSyncService.hpp`, `ColyPythonSync.py`, `handle_client` | a socket and a buffer on each side | `connect_to_server`, `send_message`, one `read_some` per message |
| Interpreter | `Coly.hpp`, `Coly.cpp` | `definedvar`, `definedline`, `definedposition`, `definedfunction`, `compiledcode`, the statics `defining` and `info`, the C++ stack, the temporary files | `addressline`, `judgedefine`, `usedefine`, `getSyntaxValue`, `readCly`, `useCly` |
| Subprocess manager | `Coly.hpp` | `subprocesses` under `subprocess_mutex`, process groups | `StartProcess`, `system()`, the thread that waits for a child, killallsubprocess |
| Client libraries | `LanguageSyncLib/` | a connection, the data of each `ColySyncString` | log in, ask `OnlyCompile`, declare, assign, read, `ColyGetString` |
| Identifiers | `GXPass.hpp` | none | `compile`, `number2ABC` |
| Big integers, encryption | `NCint.hpp`, `GXPass.hpp` | none | arithmetic on digit strings |

The interpreter connects to the server as the *parent*: it registers a process,
and for each piece of code it runs it registers a token (`reg subprocess`) and
hands the token to the child program, which logs in with it (`login
subprocess`). Parent and children then share the variables of the process. The
server serves each connection with a detached thread (`handle_client`), which
executes one command at a time; the threads share the tables and the store, and
talk to each other only through them and through the wait states.

What is hard, and where:

* **Interleaving.** A command is a chain of short critical sections on two
  mutexes; the process id it works on is copied out of `session_map` in the
  first. Between two sections any other thread can delete, register, leave or
  write.
* **Ordering of removals.** Sessions, tokens, token lists and containers go in
  different orders in `del process`, in `close_session` and after "Process not
  found".
* **Waiting.** A waiter takes a version under `process_mutex`, then blocks on a
  condition variable under a different mutex, which the signaller never takes.
* **Numbers.** Timestamps are 64-bit fields read as `int`.
* **Statics and recursion.** `addressline` calls itself through `if`, `do`,
  functions and imports, and all the calls share the definition that is open.
* **Stale files.** What a child runs is a file written by one `use` and compiled
  by another one.
* **Failure.** A peer can go at any time; the thread notices at its next read.
* **No message boundaries.** A side takes what one read returns for one message,
  into buffers of 512 bytes (C++ and interpreter), 65535 (Python) or 4096 (server).
* **Process numbers.** The list of children is never pruned, numbers are used
  again, and a child gets its group some time after it was forked.

What makes each part correct: only members of a process touch its container; a
container lives as long as its process has a session, and no longer; tokens open
one process, once, and can be revoked; the newest write of a variable wins;
whoever waits for an event is signalled when it happens; every command is
answered, and each call gets its own answer; a command is dispatched to the
operation it names and touches only the name it gives; what a program assigned is
what the server has; a script runs the code it defined last, jumps to the
definition, and keeps private what it says is private; killallsubprocess ends all
that the interpreter started, and nothing else; every child is waited for.

## 2. Modules

| Module | What it is |
|---|---|
| `Containers` | the data of `libVarContainer.hpp`: variables, containers, `from_json`, `Sync` |
| `ColyServer` | the server: one thread per connection, all commands, `close_session` |
| `ProcessAccess` | abstract specification of access to processes, implemented by `ColyServer` |
| `ColyWaits` | `ColyServer` with a history variable that records why a wait should end |
| `CommandDispatch` | `CommandExecutor`: from the text of a command to an operation and its argument |
| `GXPassIds` | the ids of names: `GXPass::compile` and `number2ABC` |
| `SyncSystem` | programs, client libraries, the bytes on the connections, dispatch and store: composes `Containers`, `CommandDispatch` and `GXPassIds` |
| `Interpreter` | the interpreter of scripts, its child programs and the variables they share |
| `Children` | processes, process groups, `StartProcess`, `system()` and `killallsubprocess` |
| `ColyServerProofs`, `ColyWaitsProofs`, `ChildrenProofs` | theorems and proofs about the modules they are named for |
| `CommandDispatchProofs` | what the dispatch makes of two words and any argument |
| `SyncSystemProofs`, `SyncStoreProofs` | theorems about `SyncSystem`: first the connections, then what is executed and stored |
| `InterpreterProofs`, `ScriptProofs` | theorems about `Interpreter`: first types and the stack, then what scripts mean |
| `MCColyServer`, `MCColyWaits`, `MCSyncSystem`, `MCInterpreter` | instances for TLC; `Children` needs none |

The models cut the system along its two kinds of concurrency. `ColyServer` and
`ColyWaits` have the threads of the server, at the grain of critical sections, and
take commands as they come. `SyncSystem` has what is outside the server (the
programs, their libraries, the connections) at the grain of reads and writes, and
executes a command in one step. They share `Containers`. `Interpreter` and
`Children` have the two halves of the interpreter, its script and its processes;
they meet in `StartProcess`, `system()` and `killallsubprocess`.

### State of `ColyServer`

| Variable | In the code |
|---|---|
| `session[c]` | `session_map[client]`, `None` when there is no entry |
| `subid[c]` | `ServerSession::subprocess_id` |
| `proof[s]` | `proof_map[s]` |
| `subs[p]` | the keys of `subprocess_map[p]`; `{}` stands for no entry, since the code never leaves an empty one |
| `mem[p]` | `memory_container.process_container[p]` |
| `pc[c]` | which critical section the thread of `c` comes to next |
| `req[c]` | the command it executes: its name, the process id it copied, its argument, its parsed JSON |
| `todo[c]` | the wait states its command still has to signal |
| `signalled` | the waiting threads whose `WaitState::version` differs from their snapshot |

`signalled` replaces the 64-bit counters: a waiter compares its snapshot with
the version for inequality only, so one bit per waiter carries the same
information, and the model stays finite without a bound. `todo` is a set
although the code signals in the order of the ids; a signal touches only the
threads that wait for its key, so the order cannot be observed but through
*which* waiter goes first, which the model leaves open.

### Atomicity

A step is one critical section. Four things are merged, none of which hides an
interleaving that matters: a thread's read of its own `session_map` entry goes
with the next section, because only the thread itself ever writes that entry;
receiving a command goes with its first section, because nobody sees the buffer;
nested locks (`close_session` takes `process_mutex` inside `map_mutex`) are one
step, because the outer lock is held throughout; and incrementing a version goes
with `notify_all`, because a waiter that looks between the two sees the new
version. `cv.wait` is *not* one step: testing the predicate (`WaitCheck`) and
blocking (`WaitBlock`) are separate, because the signaller does not hold
`state->m`. `DelErase` signals inside its section, and is one step, because
waiters take their snapshot under the same mutex.

Actions are named for the command and the section: `SyncVar`, `SyncVarPut` and
`SyncVarSet` are the three sections of `sync var`. `Missing`/`Drop` are the
shared ending of the commands that do not find their process. Replies are left
out, so a command that only replies is a stuttering step.

Two details of C++ are in the model because they change the state: `operator[]`
on the map of containers makes an entry whose timestamp is 0 (`Touched`), while
`reg process` stores a container whose timestamp was never initialised
(`RegCreate` takes any timestamp); and `j.value("Timestamp", 0)` converts to
`int` (`Narrow`, with `IntMod` for 2^32).

### State of `Interpreter`

| Variable | In the code |
|---|---|
| `files[f]` | what `readCly` returns for the file `f` |
| `stack` | the C++ stack, top first: a `useCly` loop with its counter (`file`), a call of `addressline` to be made (`line`), an `if` between its two reads (`compare`), an `addressline` that has only its commit left (`commit`) |
| `defining`, `info` | the static variables of `addressline` |
| `definedvar`, `definedline`, `definedposition`, `definedfunction` | the maps of those names; `None` when there is no entry |
| `compiledcode` | the names marked in `compiledcode` |
| `source[n]`, `binary[n]` | the file `TempPATH/<id>.<extension>` and the program a compiler leaves next to it |
| `children` | the child programs; `waited` says that the interpreter is inside `system()` |
| `value[n]` | the variable at the server |

Lines are numbered from 1, so `LineId` is the code's `lineid` plus one and the -1
of `do` is 0; a loop whose counter becomes -1 ends, because the code compares it
unsigned, and so it does in `Fetch`. A step is what happens between two points
at which a child can be observed: a line, with one step more for the second read
of an `if` and one for the commit.

A line is a record of what the interpreter makes of it: parsing is left out, and
with it `$name` inside a definition, the variables that change language settings,
and those that read input. A child is abstract: it runs a file, writes any
variable any number of times and ends. `compilerun` either leaves a program
behind and runs it, or fails. A `reg subprocess` that is refused, or a missing
command, is the choice in `Launch` to start nothing; the mark in `compiledcode`
is set before that choice, as in the code. `commitvaroperation` may write one
variable, or be answered with an error, after which nothing is committed. An
uncaught exception is the status `crashed`.

### State of `SyncSystem`

| Variable | In the code |
|---|---|
| `pc[p]` | where program `p` is: before its login, inside one of the two calls of `InitColySyncService`, running, inside a call, ended |
| `local[p][n]` | `data` of the `ColySyncString` that `p` declared for `n`; `None` before that |
| `calls[p]` | number of its last call; it marks requests and replies, and is in no message of the code |
| `up[p]`, `down[p]` | the units written and not yet read, in each direction; a unit knows the message it is part of |
| `long[p]` | history: some message on this connection was longer than its reader's buffer |
| `store[i]` | `memory_container` of the process, by id |
| `now` | `time(0)` |

A side that reads takes all that is there up to its buffer (`Taken`, `Left`), and
takes it for one message. Lengths are counted in units of 512 bytes, the smallest
buffer. Nothing but the three facts "is it whole", "whose is it" and "how long"
is kept of a text: a piece of a message, or two at once, is a `Fragment`, which
the server answers with an error that quotes it.

`Send` is `send_message` up to its read, and the actions that use it are named for
the operations of the libraries: `Declare`, `Assign`, `Read` (conversions and
comparisons, which send the local data with a new timestamp), `Get`
(`ColyGetString`), and for the interpreter `Commit` and `CommitVarOperation`.
`ChangeUnsent` is the C++ library's `clear()` and `operator[]`, which send
nothing. `Receive` is the read of `send_message` and what its caller makes of the
reply. On the other side `handle_client` is one action per operation, guarded by
the number that `Dispatch` makes of the text: an operation happens because of the
words of the message, never because of what the sender meant. Names are filed
under `Id`, the id that `GXPassIds` computes for their bytes.

`Dispatch` works on tokens: the words of the operation table wherever they occur,
and any other character. `GXPassIds` computes with words of `WordMod` values and
lists of digits, as the code does with `unsigned long long` and strings.

### State of `Children`

| Variable | In the code |
|---|---|
| `kind[r]` | what the process with number `r` is: none, a child before `setpgid`, a program, an interpreter, a zombie |
| `parent[r]`, `group[r]` | as the operating system has them; `None` is init |
| `use[p]` | the child that `system()` of the interpreter `p` waits for |
| `subprocesses[p]` | the list of that name; each entry also says, as history, whether its child was waited for |
| `killing[p]` | where `p` is in the loop of `killallsubprocess`: `kill(-pid)` or `kill(pid)` comes next |
| `owner[r]` | history: the live interpreters whose `StartProcess` a process stems from, directly or through nested interpreters |
| `escaped[r]` | history: those of them between whose two signals it, or a process it stems from, was forked |
| `away[r]` | history: those of them whose groups it left, because a nested interpreter started it |

`StartProcess`, `SetGroup` (the child's `setpgid` and `execvp`), `System`,
`SystemReturns`, `Reap` (the thread that waits for a child), `KillGroup` and
`KillLeader` are the code; `Fork`, `Exit`, `WaitedFor` and `Stranger` are what
programs and the operating system do around it. `setpgid` and `execvp` are one
step, since no signal can tell them apart; the two `kill` calls are two. A number
is given out again once nothing has it as a process or a group, which is what
POSIX promises. An interpreter started by a script (`kind` "coly") has a list of
its own; it is in the group of its parent when `system()` or a program started it,
and leads a group when `StartProcess` did. What it starts in turn stems from the
outer interpreter too, also after it has ended itself: `End` takes away from
`owner` nothing but the interpreter that ends.

## 3. What is checked

### Runs that pass

| Run | Instance | Distinct states | Properties |
|---|---|---|---|
| `server` | 2 connections, 2 processes, 1 token, 1 variable, timestamps {0, 1}; every command | 2791144 | `IInv`, `WritesByMembers`, `KeptWhileInUse`, `AccessSpec` |
| `waits` | 2 connections, 1 process, 1 token, 2 variables, timestamps {0, 1}; waits and the commands that signal; fairness | 453118 | `NoMissedSignal`, `WInv`, `CommandsAnswered`, `SignalArrives` |
| `scripts` | 11156 scripts: a private code block and up to three lines of 22 kinds, and one whose function defines a name that is a position, too; 2 names, 2 texts, an interpreted and a compiled language, a library | 241365 | `ScriptInv`, `PrivateRunsCurrent`, `PrivateStays`, `JumpLands` |
| `sync` | a Python program (4 calls), a C++ program (3) and the interpreter (1); 5 names, 2 of them anagrams and 1 that begins with a command word; values of 1, 2 and 3 units, buffers of 1 (C++), 2 (server) and 3 (Python); fairness | 122492 | `DispatchRight`, `Synchronised`, `SInv`, `StoreInv`, `EchoBelongs`, `NamesApart`, `CallReturns` |
| `children` | 3 process numbers, lists of up to 3; nested interpreters, strangers; fairness | 137514 | `CInv`, `KillsOwned`, `SelfSurvives`, `KillsNoStranger`, `ChildrenReaped` |

The server:

* `IInv`: the type invariant, and three facts about the sections: a command never
  uses a process id its connection is no longer bound to (`PidCurrent`); a
  registration stays valid between its check and its write (`StillUnbound`);
  every pending token is listed under the process it opens, so that removing the
  process revokes it (`TokensTracked`).
* `WritesByMembers`: a container changes only by a step of a connection bound to
  its process *at that step* ("Different Processes cannot access each other!",
  `Document_English.md:151`).
* `KeptWhileInUse`: a container disappears only by its own process's `del
  process`, or when the last session of its process closes.
* `AccessSpec`: the tables implement `ProcessAccess`.

The waits:

* `NoMissedSignal`: when `set var`, `del var` or `del process` makes the event
  happen that a thread waits for, the thread was signalled, or a running command
  still owes it the signal. `set process`, `sync process` and `sync var` are left
  out of it: `set process` lists the ids it will signal before it replaces the
  container, and misses a variable created in between; `sync var` never signals.
* `WInv`: the inductive invariant behind it (section 4).
* `CommandsAnswered`, `SignalArrives`: every command but a wait is answered; a
  signal owed is sent.

The interpreter:

* `PrivateStays`: a text that the script gives only to private codes and
  variables never reaches the server, whichever line ends the block and
  whichever call commits.
* `PrivateRunsCurrent`: `use` of private code of an interpreted language runs the
  block after the definition addressed last. The expected text is computed from
  the script, not from the interpreter's maps. It is stated for private code
  because reading a public one replaces its text by what the server has, and for
  interpreted languages because of `stale_binary`.
* `JumpLands`: after a jump the loop goes on at a definition of the name, which
  may be the call of a function whose argument has that name (`CallDefines`).
* `ScriptInv`: the inductive invariant behind the three (section 4).

  Scripts that import a file while they run are excluded from these properties,
  not from the run: line numbers of an imported file mean nothing in the main
  one.

Programs, libraries and connections:

* `SInv`: a call that waits has a request or a reply under way, however messages
  were cut and joined; and as long as every message fitted its reader's buffer, a
  connection is in step: one whole request or reply of the current call, nothing
  between calls.
* `EchoBelongs`: under the same condition, a call returns its own reply and all of
  it. `reply_shift` shows what happens without the condition.
* `CallReturns`: a call that sent something returns, even on a connection that is
  out of step, unless the program ends.
* `DispatchRight`: whatever its argument begins with, a message is dispatched to
  the operation it names, with the argument untouched. The exception is an
  argument that begins with `subprocess`, the last word of the table: the loop
  strips it too (`Reserved`).
* `NamesApart`: a command changes only what is filed under the name it gives, or
  under an anagram of it. The ids are those that `GXPassIds` computes; the
  anagrams `bc` and `cb` show that one id for two names does happen.
* `Synchronised`: between two calls, the server has the data of a Python program
  that alone writes a variable, also when it writes twice within a second, as long
  as the time fits an `int`. C++ programs are left out because of `ChangeUnsent`,
  several writers because a read sends the local data with a new timestamp.
* `StoreInv`: the inductive invariant behind `DispatchRight` and `Synchronised`
  (section 4).

Processes:

* `CInv`: what is to be killed is within reach of what is left of the list
  (`Reachable`); an entry that was not waited for is a child's, and its group
  stems from a `StartProcess` of the interpreter (`Unreaped`); no list holds its own
  interpreter or the group of it (`NotItself`); only interpreters are in `owner`
  (`OwnersOK`).
* `KillsOwned`: when the loop is over, nothing lives that stems from a
  `StartProcess` of the interpreter, itself or through interpreters that it
  started, whether it had its group yet, was forked by a child, or has lost its
  parent or a nested interpreter above it. There are two exceptions, and neither is
  what `Document_English.md:489` says ("forcibly terminating all started subprocesses
  and their child processes, effectively ending the entire process tree except for
  the current process itself"): what was forked between the two signals for a group
  (`escaped`, which `kill_race` shows), and what a nested interpreter started with
  `usewithoutwait`, whose `setpgid` took it out of every group that the outer
  interpreter signals (`away`).
* `SelfSurvives`, `KillsNoStranger`: the signals do not reach the interpreter,
  and those for a child that was not waited for reach only what stems from a
  `StartProcess` of this interpreter. Once the child was waited for, its number may
  be another process's, which is then killed: the model has this behaviour, and
  no property excludes it.
* `ChildrenReaped`: a child that ended is waited for, also after `killallsubprocess`
  emptied the list.

For each of these properties `PROJECT.json` ("mutants") has a plausible mistake
in the code, such as a dropped guard or a removal in the wrong order, under
which the run finds the property violated.

### Runs that show what the code does not do

Each run checks one sentence of the documents, of a comment or of a message, and TLC
finds it violated; `PROJECT.json` ("findings") quotes the sentence.

| Run | What happens |
|---|---|
| `double_registration` | two connections register the same process, each passing both checks first |
| `orphan_container` | one connection registers and hands out a token, another one logs in with it; the parent leaves, the last subprocess leaves, the container stays for ever: the closing session counts itself |
| `sync_var_race` | `sync var` with an older timestamp overwrites a newer variable |
| `lost_wakeup` | the notification falls between the test and the block, and the waiter sleeps on |
| `stale_binary` | a redefined code of a compiled language runs its old program |
| `reply_shift` | a reply longer than the buffer is returned in pieces, by this call and the following ones |
| `kill_race` | a child gets its group and forks between the two signals of `killallsubprocess`, and what it forked lives on |

`KillsAll`, the property of `kill_race`, has a second counterexample, one step
longer than the one TLC prints: an interpreter starts an interpreter, which starts
a program; both have groups of their own; `killallsubprocess` of the first ends the second, and
the program lives on, on nobody's list, although it was a child of a child when
the command began. Without the race the run would show this one. In
`KillsOwned` it is the exception named `away`.

### Bounds

**Server.** The sets of connections, processes and tokens are the only thing
that is small; there are no counters to cap. Two connections are enough for every
race of two sections that each safety property of `server` is about, and those
properties are proved for any number; two processes let a connection be in the
wrong one. Variables of a process do not interact except through `todo`, so one
variable is enough for the store. Timestamps need an older and a newer one.
Connections can close and reconnect without limit. `Ops` says which commands each
client sends. In `server` and `waits` all send the same; in `orphan_container` one
client only registers and hands out tokens and the other only logs in, so that
the one that registered is not its own subprocess, which the code allows too.

**Waits.** A waiter and a signaller are two connections; with two variables, `del
process` has up to three signals to send, in an order that the model leaves open, and
waiters have different keys. Liveness is checked without symmetry. That no
waiter is passed over is proved for any number.

**Scripts.** The bound is the length of the scripts. Every script of the
set is an initial state, so the run covers each pair and triple of lines in each
order, after a block that is still open. Nothing else is bounded: loops come back
to the same states, because nothing in the state counts. A script really ends,
so deadlock is not checked there.

**Sync.** `MaxCalls` caps the calls of each program, and with them the messages.
The Python program needs four: login, the `OnlyCompile` question, a declaration and
an assignment, which is where a second write within a second can be lost. The C++
program uses its three to get out of step: its third message may not fit the
server's buffer, or the reply not its own. The interpreter's one call may be any operation, or none. `Times`
are -2 to 1 and `IntMod` is 4: the clock ticks once, so that there are writes in
the same second and in different ones. `WordMod` is 2^15 where the code has 2^64:
small enough for TLC's integers, and larger than the sums of these names' bytes. Programs end, so deadlock is not checked.

**Children.** Three numbers are an interpreter, a child and a grandchild, or a
child and a stranger; three entries are more than there are numbers for children, so that the
list holds numbers that were used again; and an interpreter, a nested one and what
that starts, which is the shortest chain in which `owner` has two members. The safety
properties hold as well with four numbers (the three that are not the first
interpreter interchangeable) and lists of one entry, and are proved for any number. When all
processes end the system stops, so deadlock is not checked.

### Fairness

`WFairSpec` of `ColyWaits` assumes weak fairness of `Continue(c)` for each thread: a thread that is in the middle of a command and not blocked is
scheduled eventually. `std::thread` and `std::mutex` give no more, and no less: a
step is one short section, and no thread holds a lock while it waits for another
step. Nothing is assumed of the peers (`Command`, `Connect`, `Disconnect`) and no
spurious wake-up is assumed to happen. Under this assumption a signal that was
owed is sent; that the waiter then wakes is what `lost_wakeup` refutes.

`FairSpec` of `SyncSystem` assumes that a thread of the server with something to
read reads it and answers (`handle_client`), and that a program blocked in a read
gets what has arrived (`Receive`). Nothing makes a program call anything.

`FairSpec` of `Children` assumes that the threads of an interpreter that are blocked
in `waitpid` run once their child has ended (`Reap`, `SystemReturns`). Nothing
makes a program end.

### What the environment is assumed to do

All connections are to 127.0.0.1, and a message is smaller than the socket's own
buffers: a write is one step, and bytes arrive in order. A program does not change
its process group by itself. POSIX only: the Windows branches, with their job
objects, are other code. TLC evaluates the assumptions on the constants of all
modules in the runs.

## 4. What is proved

For all values of the constants that meet the named assumptions of the modules
(`TimesAssumption`, `NoneAssumption`, `ServerAssumption`; `SyncAssumption`,
`WordAssumption`; `InterpreterAssumption`; `ChildrenAssumption`), which say that the
constants are of the right kind: timestamps are integers closed under narrowing,
`None` is none of the values, sizes are positive, scripts are sequences of lines.

| Theorem | Statement | Module |
|---|---|---|
| `Invariance` | `Spec => []IInv` | `ColyServerProofs` |
| `Isolation` | `Spec => WritesByMembers` | |
| `ContainerKept` | `Spec => KeptWhileInUse` | |
| `AccessRefined` | `Spec => AccessSpec` | |
| `WaitsInvariance` | `WSpec => []WInv` | `ColyWaitsProofs` |
| `NoWaitMissed` | `WSpec => []NoMissedSignal` | |
| `ConnectionsInvariance` | `Spec => []SInv` | `SyncSystemProofs` |
| `OwnEcho` | `Spec => EchoBelongs` | |
| `StoreInvariance` | `Spec => []StoreInv` | `SyncStoreProofs` |
| `DispatchesRight` | `Spec => []DispatchRight` | |
| `SynchronisedBetweenCalls` | `Spec => []Synchronised` | |
| `TypesAndStack` | `Spec => [](TypeOK /\ StackOK)` | `InterpreterProofs` |
| `ScriptInvariance` | `Spec => []ScriptInv` | `ScriptProofs` |
| `PrivateTextsStay` | `Spec => []PrivateStays` | |
| `PrivateCodeIsCurrent` | `Spec => []PrivateRunsCurrent` | |
| `JumpsLand` | `Spec => JumpLands` | |
| `ChildrenInvariance` | `Spec => []CInv` | `ChildrenProofs` |
| `OwnedKilled` | `Spec => KillsOwned` | |
| `SelfSpared` | `Spec => SelfSurvives` | |
| `StrangersSpared` | `Spec => KillsNoStranger` | |

**The server.** `TypeOK` alone is not enough for any of the action properties:
that the container written belongs to the writer's process is `PidCurrent`, and
`PidCurrent` is inductive because only the thread itself writes its
`session_map` entry (`OthersKept`, `OwnStep`) and because a section that writes
it leaves the labels that rely on it. `TokensTracked` is needed for nothing else
than itself and the refinement: that `close_session` and `del process` can
revoke by walking the list. `StillUnbound` gives the refinement of `RegBind`,
whose check was two sections earlier. `Invariance` is the induction; `Isolation`,
`ContainerKept` and `AccessRefined` follow step by step from the invariant.

**The waits.** `NoMissedSignal` is not inductive. A change of a variable is
attributed to the command in `req`, so the proof needs to know which command a
thread at a label executes, that a waiter has a well-formed key, and that nobody
owes signals at a label where they would be dropped: `ThreadsOK`. It needs
`PidCurrent` too, so `WInv` is `IInv /\ ThreadsOK /\ NoMissedSignal`. The step
splits in three: steps of commands that are not in `Signalling` (`OtherCauses`),
steps of those that are, where the event's key is owed or signalled at once
(`EventSignalled`), and steps without an event, where what is on its way stays so
or arrives (`WayKept`, `SignalledKept`, `Received`).

**The connections.** `EchoBelongs` speaks of the step that reads a reply; that the
reply is the call's own has to be carried along from the request. `InStep` does so:
while `long` is false, a call has exactly one message under way, whole, numbered
with the call, and no longer than its reader's buffer. `Send` establishes it,
`Serve` turns the request into the reply, `Receive` ends it; the lemmas
`SendKeeps`, `ServeKeeps` and `ReceiveKeeps` are these three, and `HandleServes`
reduces every operation of the server to the second. `ReadOfStream` and
`UnitsOfMessage` are the facts about streams they rest on. `NoDeadWait` holds of
connections that are out of step too: a read never takes less than something, and
`Serve` answers whatever it took. Neither what the dispatch makes of a text nor
what is stored matters to the argument, only that one answer is written per read.

**The dispatch and the store.** The loop of `CommandExecutor` runs over a list of
ten words, so `DispatchUnfolded` writes it out as ten applications of `Strip`;
`WordList`, `StripKeeps` and `StripTakes` say what each does to a text that begins
with its word or with another token. `TwoWords` follows: two words in the order of
the list give their operation and leave the argument alone, whatever it is, but for
what the last word of the list (`subprocess`) takes from it. `DispatchOf` and `DispatchedOf` (in
`SyncSystemProofs`) apply it to what the libraries write, so that `HandleServes`
and `DispatchRight` need nothing of the spellings. `Spoken`, the second part of
`StoreInv`, says what can be on a connection: never a message without an
operation, and nothing that stores under a name that its sender does not declare.

`Synchronised` speaks of the moments between calls; during a call the data are
either at the server or in the one message under way (`SInv` says that it is
one, and whole). `Synced` covers both, and adds what makes the message win when it
is compared at the server: its time is not before that of what is stored, and
nothing stored for this name is later than the clock. The last part is inductive
because the only writer is this program: the messages of the others are about
names filed elsewhere (`SyncId`, `OthersLeft`, `SyncedLeft`), also when ids of
different names collide, since `SoleWriter` compares ids. `Sync` lets an equal time
win, which is what a second write within a second depends on. `CallSynced` is the step in which the data leave, `SyncVarSynced`
the one in which they are stored.

**The scripts.** None of the three properties is inductive: that a private text
stays away from the server depends on who may be committed next, that on the open
block, and that on where in the script the interpreter is. `ScriptInv` has one
part for each link of this chain:

* `StackOK`: the stack has a loop to go back to, one line is under way, and only
  the `use` of a function waits below another line. It holds with imports too,
  and is proved first, with the types (`TypesAndStack`), for every script.
* `OneLoop`, `Origin`: without imports the loop at the bottom is that of the main
  file, and each frame above it stems from the line before its counter: the line
  itself, the one behind an `if` or `do`, or one of the two of a function.
* `OpenBlock`: while a block is open, `info` holds the lines between its
  definition and the last line dealt with (`Seen`), no more, no fewer, in order.
* `LinesDefined`: what `definedline` says is a line that defines the name. It is
  what `JumpLands` needs, and what makes "the definition addressed last" a line.
* `DefinitionsCurrent`: the stored text of a private code is that of its line, once the
  block is closed. The step that closes it is `Stored`, at whatever line comes
  next; `StoredCurrent` shows that it turns `OpenBlock` into `DefinitionsCurrent`.
* `InfoClean`: what `info` holds, when it may be committed, has no private text. It is
  about `info` at all times, because the commit comes after later lines changed it.

The steps are grouped by what they do to the stack: `UsualLine` and `Quiet` (a
line ends the block and goes), `FrameAndCommit` (it has another line addressed),
`CallKeeps`, `JumpKeeps`, `FetchKeeps`, `BodyKeeps` and the definitions, of which
`DefineKeeps` is the common part. `RunsKept` and `LaunchCurrent` give
`PrivateRunsCurrent`: while the interpreter waits for the child in `system()`,
nobody writes the source file. Lines of a block are counted with cardinalities (`BlockTo`, `Lists`), so
that neither recursion nor induction over a script is needed: `OneMore` is the
step from one line to the next.

**The processes.** `KillsOwned` needs to know, in the middle of the loop, which
processes the rest of the list still reaches: `Reachable`, with its case of a
child that has no group yet, which only the second signal reaches, and of the
group that was signalled already, of which only the leader is left. It speaks of
every interpreter a process stems from, so that the end of a nested one changes
nothing for the others (`KillKeeps`). That forks keep it (`InheritsReach`) is why
`escaped` is there, that `setpgid` keeps it (`SetGroupKeeps`) why `away` is: a child
that takes a group of its own stays in reach of the interpreter that has it on its
list, and of no other. `KillsNoStranger` rests on `Unreaped`:
as long as a child was not waited for, its number is not given out, neither as
a process nor as a group. `SelfSurvives` rests on `NotItself`: a number that an
interpreter has on its list is in use or free, but can become neither its own nor
its group's, because those are taken. The steps are grouped by what they do to the
table: `KillKeeps` (processes end), `BornKeeps` (one appears), `ReleaseKeeps` (a
number is given back).

Model-checked only:

* the liveness properties `CommandsAnswered`, `SignalArrives`, `CallReturns` and
  `ChildrenReaped`, which need fairness;
* `NamesApart`: it says that only anagrams share what is stored, which depends on the
  digests that `GXPassIds` computes for the instance's names. For all names it is
  false, as for every digest shorter than the names;
* the runs that end in a counterexample.

## 5. Known behaviours that are no findings

The models have behaviours that contradict no sentence of the documents.

* Store: `sync process` compares the timestamps of containers only, and replaces
  variables that are newer than what it brings; `set process`, `set var` and `sync
  process` bring back a container that was deleted; timestamps are narrowed to
  `int`, so that from 2038 on a newer value can lose (`Synchronised` says "as long
  as the time fits").
* Sessions: a connection that logs in over an existing session leaves the old
  container without members.
* Waits: `sync var` replaces a variable without a signal, and `close_session`
  removes a container without one; the late signal of `del process` can end a wait
  for the process registered next under the id.
* Libraries: reading a variable sends the local data with a new timestamp, over
  what others wrote; the C++ library's `clear()` and `operator[]` send nothing.
* Ids: many anagrams have one id, and share what is stored: names that exchange
  letters at places of the same parity, or all letters of even places for those of
  odd ones.
* Dispatch: a name that begins with `subprocess` changes the operation.
* Interpreter: a definition right after a code block is committed instead of the
  block; `usewithoutwait` of a compiled language runs nothing at first; a jump to
  an undefined name ends the interpreter; `commitvaroperation` with nothing after
  it waits for ever.
* Processes: `killallsubprocess` leaves alone what a program run by `use` left
  running, which has lost its parent by then ("must have a parent-child relationship",
  `Document_English.md:490`); a process that got the number of a child that was waited
  for is killed in its place. What a nested interpreter started is no such case: see
  `KillsOwned`.

## 6. Not modelled

Most of the repository is not Coly's own code: the asio and JSON headers it
ships are about 192000 of its 195000 lines. They appear through what the program
makes of their results (a read of some bytes, a parsed object, a parse error).

Not modelled for good:

* `NCint` and the encryption half of `GXPass`: sequential arithmetic that neither
  the server nor the interpreter calls; the older versions of `compile`.
* Install scripts, settings, samples.
* The Windows branches of the subprocess manager.

Left out of what is modelled:

* A JSON value that is not an object, or lacks a `Name`: its exception is not
  caught and ends the server process, a state the models do not have.
* The threads that read the output of children, and the output that is lost when
  they stop before the pipe is empty.
* The text of script lines: `$name` inside definitions, variables that change
  settings or read input; imports that `readCly` resolves when it loads a file;
  functions with several parameters.
* What a piece of a message says: a piece, or two at once, is a `Fragment` of
  `SyncSystem`, answered with an error. A value whose 4096-byte cut begins with the
  words of a command would be executed as that command.
* The ids in the names of source and binary files: `Interpreter` uses the name itself.
* A connection that fails while a library uses it: the libraries report an error
  and go on.
* The wait maps themselves: a key without a wait state behaves like one whose
  version nobody has looked at.

What could follow: the server at the grain of single lock operations, with a proof
that the order in which they nest is acyclic; scripts that import files while they
run; the server's sessions of the children together with `Children`.

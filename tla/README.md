# Lua-Debug-API: specifications

TLA+ specifications, TLC models and TLAPS proofs for
Lua-Debug-API: a C++ layer (`src/Src`) over a patched Lua 5.3 (`src/LuaSrc`)
that runs Lua programs on their own Windows threads, lets other threads pause,
step and stop them, look at and change their variables, and carry their output.
The Windows build is the one that is modelled.

## 1. The system

| component | source | state | operations | module |
|---|---|---|---|---|
| execution flow | `luadebug_execution_flow.*` | pause flag, pause request, step type and checks, function layers, breakpoints, auto-reset events | `_hookcb`, `_block_execution`, `block/resume/step_execution`, breakpoints, names, getters | `ExecutionFlow`, `DebugSession`, `PauseContract` |
| hook handler | `luadebug_hook_handler.*` | callbacks per event, count, the hook in the Lua state | `set_hook`, `remove_hook`, `set_count`, `_on_hook_event` | `HookHandler` |
| thread control | `luathread_control.*` | table of threads, a handle per thread, stop flag, references | `run_execution`, `get_thread_handle`, `stop_running`, `try_join`, `detach`, `_stop_all_execution` | `ThreadControl` |
| runtime handler | `luaruntime_handler.*` | one program thread, main function, last error | `run_code`, `stop_running`, `currently_running`, `load_file`, destructor | `RuntimeHandler` |
| thread dependent states | `luathread_util.*`, `luastate_util.*` | a Lua state per thread and main state; code mutex, state mutex | `require_dependent_state`, `thread_dependent_enable`, `lock_state`, thread exit, `lua_close` | `StateAccess` |
| state metadata | `luastate_metadata.*`, `luainternal_storage.*` | what is kept beside each main state, by its address | `initiate`, `deinitiate`, `get`, with opening and closing states | `StateMetadata` |
| variable watcher | `luadebug_variable_watcher.*` | last reading of globals or locals, ignore list | `update_*`, `set_*`, getters, `lock_object` | `VariableWatcher`, `StateAccess` (locking) |
| print override | `luaglobal_print_override.*` | an anonymous pipe, events | `print`, `read_n`, `read_all`, `peek_n` | `PrintOverride` |
| value reference | `luavalue_ref.*` | reference counts in the state's storage | constructors, `set_value`, `update_reference`, destructor | `References` |
| library loader, objects | `lualibrary_loader.*`, `luaobject_util.*` | objects in tables, `__gc`, loaded libraries | load, get, call, remove | `LibraryObjects` |
| variants | `luavariant*.*`, `luatable_util.*` | values copied out of Lua, or referred to | copy, get, set, push | `TableVariants`, `References` |
| file library | `lualibrary_iohandler.*` | an open file: position, mode, buffering; io's defaults | `open`, `read`, `write`, `seek`, `close`, `lines` | `FileHandler` |
| file info | `luadebug_file_info.*` | lines of a source text, which are valid | `refresh_info` | `FileInfo` |
| memory management | `memdynamic_management.*`, `luamemory_util.*` | allocator configuration, debug data | `malloc`, `realloc`, `free` | `MemoryTracker` |
| the C++ side of the Lua stack | all of the above | slots of a Lua stack | every function that calls the Lua API | `ApiStack`, `ApiFunctions` |
| Lua machine | `src/LuaSrc/ldo.c`, `lgc.c`, `ltable.c`, `ldump.c`, `lundump.c`, ... | calls, hooks, heap, tables, chunks | calls and errors, collector steps, table accesses, dump and load | `LuaCalls`, `LuaCollector`, `LuaTable`, `ChunkFormat` |
| Lua libraries | `src/LuaSrc/l*lib.c`, `lauxlib.c` | none of their own | library functions | `LuaAuxLib`, `LuaBaseLibs`, `LuaSystemLibs`, `PatternMatch`, `PackFormat` |

(Sources without a directory are in `src/Src/`.) Not modelled: the `luaapi_*`
classes, each of which forwards a call to one function; logging, string and DLL
helpers; the compiler and the instructions of Lua. Section 6 says more.

A Lua thread is started by the runtime handler through thread control; its
thread handle owns a hook handler and an execution flow. The Lua machine calls
the hook handler at hook events; the hook handler calls, under its mutex, the
callbacks of the thread handle (which throws when the thread is told to stop)
and of the execution flow (which pauses). Debugger threads call the interfaces
of the handle, the execution flow, the watcher and the print override. Every
Lua API call goes through the thread dependent states, which give each thread
a Lua state of its own, and the Lua machine holds a mutex of the main state
while it runs Lua code. Variants carry values between C++ and Lua; a variant of
a table, function or object holds a counted reference in the Lua state.

### What is hard, and what makes each part correct

- **Execution flow.** Volatile fields shared without a lock, and auto-reset
  events that keep a signal nobody waited for and give it to one waiter only.
  Correct when a pause shows a true and steady position, ends once and after a
  command given in it, a step does not stop too deep, and who asks for a pause
  gets it.
- **Hooks.** The mutex is held through callbacks, and a callback may pause for
  hours, throw, or edit the map it is called from; only `std::exception` is
  caught, and Lua is compiled as C++, so its errors are not; `lua_sethook` goes
  to the *calling* thread's state. Correct when the hook in the state is the one
  registered, the iterator stays on an entry, everybody is called and the mutex
  is given back.
- **Threads and program.** A start-up handshake without a condition, answers
  that are stale when used, thread ids the system reuses, joins under a mutex.
  Correct when there is one program at a time, a live thread stays listed, and
  stop, run and the destructor come back with nothing left running.
- **States.** Two mutexes taken in both orders, stacks several threads push on,
  thread exit, addresses that are used again. Correct when there is no cycle of
  waits, a new state is taken off the stack it was pushed on, a program's stack
  is its own, and a state's mutex is its own as long as it is open.
- **Watcher.** A cache that clients fill and read while the program runs
  between. Correct when a reading is of one moment, a pointer stays alive until
  its holder gives the object away, and a local is set in the variable that is
  meant.
- **Print.** A bounded pipe under a mutex. Correct when messages stay whole and
  are all read.
- **References, objects, variants.** Counts taken in several API calls, keys
  made anew, tables that contain themselves, tables owned by several copies.
  Correct when what a variant refers to lives exactly as long as it is needed
  and a copy tells what the table tells.
- **Files.** Position and mode decide what a read returns.
- **The Lua stack.** Every C++ function pushes and pops by hand, by negative
  indices that move with every push.
- **The machine.** A collector that works between the steps of a program, calls
  that end in four ways, tables walked while they change.

`PROJECT.json` lists the hazards at their lines, with the property that would
catch each, or the reason why there is none.

## 2. The modules and the code

### ExecutionFlow

`lua` is where the Lua thread is: "run" (in Lua), "block" (it has decided to
pause, before `_block_execution`), "announced" (events signalled under the
mutex, flag not set yet), "waiting" (flag set, in `WaitForSingleObject`),
"woken". Fields have the source's names (`executing` is `_currently_executing`);
a Win32 event is an element of `signalled`. `HookCb` is the whole of `_hookcb`
up to the decision; `Announce`, `Park`, `WakeUp`, `Resumed` are
`_block_execution`. Each call of a debugger is cut where another thread can see
it: `call[d]` names the next access. `pos` and `depth` are the real position and
stack, which the properties compare with what the object shows. Names of
functions are left out (only the index a name is written at matters). The step
check is `unsigned`: `UIntMod` is its modulus, so a step out at layer 0 wraps.
Errors pop frames without a return event (`function_layer` keeps them);
`MaxLayer` bounds that.

### DebugSession and PauseContract

`PauseContract` says what a debugger is promised: running, paused, a command,
going on, once. `DebugSession` puts a protocol on top of `ExecutionFlow`, the one
for which `register_event_pausing` and `register_event_resuming` are made: the
client waits for its pausing event, looks, gives one command, waits for its
resuming event. The repository has no such client (`unit_test.cpp` runs programs
and never uses the execution flow). `Contract == INSTANCE PauseContract WITH
...` is the refinement mapping.

### HookHandler

Handler *h* is bound to the Lua state of thread *h*. `hook_set` holds the four
maps, `installed` the hook really in each state, `owner` the object mutex,
`event` the event a handler is running, `depth` how often the owner has entered
the mutex. `SetHook`, `RemoveHook`, `SetCount` and
`Destroy` are whole calls (they hold the mutex throughout); an event is
`HookEvent` (found under the code mutex), `Begin`, then `Callback` and
`CallbackReturn` per entry, then `End`. `Throws` says what callbacks throw besides
returning: a `std::exception` ("exception") is caught and the loop goes on
(`CallbackReturn`); anything else ("other": a Lua error, an `error_var*`) leaves
`_on_hook_event` with the mutex taken (`CallbackEscapes`), so that only its owner,
for whom the mutex is recursive, comes in again, up to `MaxDepth` deep. A callback may call the interface of its
own handler (the mutex is recursive): `Editable` says for which objects.

### ThreadControl and RuntimeHandler

`os` is what the operating system knows of a thread, `open` its kernel handle,
`handle` the member that names it, `thread_data` the table, `refs` the
references clients hold. `run_execution` is `CreateThread`, the wait for the
condition, and the return; `Register` is the new thread's part, after which
`entry_data` is its own to delete. `call[c]` is the point a client's call has
reached; `RuntimeHandler` adds `run_code`, `load_file`, `stop_running`,
`currently_running` and the destructor, each of which first asks and later acts.
`stop_program` is `runtime_handler::stop_running`; "resume" is a client that
resumes a paused thread. `Pausers` stop at breakpoints, `LatePausers` also after
they were told to stop, `Askers` call back into the interface.

### StateAccess

`entry`, `life` and `pushed` say which thread has a dependent state, what keeps
it from the collector, and which new states lie on whose stack. `code` and
`lock` are the owners of the code mutex and of the state mutex. `pc[t]` is where
thread *t* is between two things others can see: asking for its state
(`Call`, `Swap`), making one (`NewThread`, `PopNew`, `Anchor`), doing the call
(`Body`), running Lua (`EnterLua`, `LeaveLua`, `ThreadYield`, `CallC`, `BackToLua`),
paused, watching (`Watch` to `Unwatch`), ending, closing. The order of the
mutexes is code, then state; a watcher and `lua_close` take the state mutex
first. What keeps this from a deadlock is `Discipline`: every thread but the
program's and the debugger's has used the state before and does not end
meanwhile, and nobody hands the program's own state to the API. The watcher is
commented `[Not Thread-Safe]` and made for a paused thread
(`luadebug_variable_watcher.h:22`), and so it is used here.

### StateMetadata

The tables kept beside the main states, by address, and a state's way through
them: `NewState`, `InitiateMetadata`, `RequireStateMutex`, `ResetDependentState`;
then use (`Lock`, `Required`, `Unlock`); then `CloseState`, `Forgotten`,
`FinishMetadata`. `lua_close` frees the main state first and what is kept by its
address afterwards. States of one address are told apart by a number that the
code does not have. `MayOverlap` says whether one thread may open a state while
another closes one.

### VariableWatcher

`stack` and `globals` are the program's variables, `list`, `slots` and `level`
the watcher's cache. An update is cut where the program or another client may
move: `Call` (object mutex), `LockState`, `UpdateGlobals` or `UpdateLocals`, one
`Read...` per variable, `Unlock`. The program calls, returns, declares and
assigns whenever the state mutex is free. `holds` says whether a client has locked
the object with `lock_object`, or lost it again by its own `update_global_ignore`
("lost"), which unlocks what it has not locked; `held` is a pointer a getter has
given out in between. `unlock_object` after such a loss is called only while nobody
else has the mutex. The last error is left out.

### PrintOverride

`pipe` holds bytes, each named after its message; `op[t]` is the call a thread
is in, `n[t]` what it has still to write or wants to read. The reads ask for the
bytes available before they take the mutex, as in the code. (`peek_all` and the
overloads that return a `std::string` are left out: they do the same, also when no
byte is available.) Listeners are the
reader of `TestSrc/unit_test/print_override_listener.cpp`. The module names its own
`PrintInit`, `PrintNext` and `PrintSpec`, because one run and one module of proofs
extend both it and `StateAccess`, with which it shares no variable.

### FileHandler

`disk` is what the system keeps, `file`, `op`, `pos`, `least`, `buffering`,
`dirty` the members of a `file_handler`; `anchored`, `held`, `iterators` and
`output` are the ways by which Lua and `io` keep an object. One action is one
call, which holds the object's critical section throughout. `taken` is the
history of what has been read.

### References and LibraryObjects

`entry[k]` is the pair of value and count in Lua's internal storage. Each call of
a variant is cut at every API call that touches an entry, because two threads
may be in between; `raced` counts the calls from the first one that overlaps
another. `LibraryObjects` adds C++ objects, the tables Lua sees them as, their
destructors, and libraries.

### ApiStack, ApiFunctions and the library modules

`ApiStack` says what one API call of `lapi.c` does to a stack of tagged slots. A
function is a sequence of such calls with alternatives and loops; `Step` takes
one of them. `ApiFunctions` holds the functions of `src/Src` that work on a Lua
stack, `LuaAuxLib`, `LuaBaseLibs` and `LuaSystemLibs` those of
Lua's libraries; `MCApiStack` says what each finds on the stack and has to leave
there. A tag is what a value is there for, so an index one off is seen where it
is used (`astray`). `LuaBaseLibs` also has the functions of the string, utf8, math
and bit32 libraries, and `ApiFunctions` those of this project's own `io` library
(the constructors of `io_handler`, `read`, `write`, `lines`, the default files).
`LuaAuxLib` also has what the machine itself does on the stack without an API
call: metamethods (`ltm.c`, `lvm.c`), errors and the debug interface
(`ldebug.c`), call preparation (`ldo.c`).

### TableVariants

`heap` is Lua's tables, `slot` the variants that exist (references, or copies
with values that are variants again), `var` the client's variables. One action
is one call of `table_var` or `function_var`; `cleaned` frees what no variable
leads to, as the shared pointers do.

### LuaCalls, LuaCollector, LuaTable, ChunkFormat

`LuaCalls` is one coroutine with its two stacks: `ci`, the list of frames that
survives a yield, and `cs`, the C stack that errors and yields cut down to the
innermost `luaD_rawrunprotected`. Left out: stack sizes, the collector's
finalizers, C++ exceptions, yields in hooks of calls and returns.

`LuaCollector` is the incremental collector: one action per step of
`singlestep`, one object at a time, with the program's assignments (and their
barriers), closures with open upvalues on a coroutine's stack, weak tables of all
three kinds and finalizers between. Left out: strings, prototypes, metatables,
sizes and debts.

`LuaTable` has array and hash part with the collision chains of `ltable.c`,
`map` being the map the table is to be; `ChunkFormat` dumps and loads functions
number by number.

### PatternMatch, PatternMeaning, PackFormat, FileInfo, MemoryTracker

`PatternMatch` is the matcher of `lstrlib.c`, with its captures, its depth and
its loops; `PatternMeaning` says what a pattern means as a list of items and the
order in which it prefers texts, without a way to match. `PackFormat` packs and
unpacks integers and strings in bytes of `NB` bits. `FileInfo` finds the valid
lines as `_check_code_buffer` does; the compiler is external. `MemoryTracker` is
every step of an allocation in a debug build with the tracker installed.


## 3. Runs

| run | question | bounds, and why they are enough |
|---|---|---|
| `flow_steps` | Does a step stop where it should, does `step_execution` return, is no pause lost? | One debugger with block, resume, step; 2 lines, 2 frames, 3 layers: a call and a return in a stepped function, another line on the same and another depth, layers left by an error, the wrap of the unsigned check. |
| `flow_threads` | Is what a pause shows where the program is, whoever calls what? | Two debuggers without a protocol, every call between them: one blocks, steps and counts, one resumes, reads, renames, edits breakpoints and an event of its own; one line in a file, a frame. |
| `session` | Does execution_flow keep the pause contract for a client that follows the protocol? | One client that calls what the protocol allows where it stands, a file and a string chunk, own pausing and resuming events. |
| `control_safety` | One program at a time? Nothing left behind by stop and destructor? | Two clients, one that runs, loads and destroys, one that takes handles and stops; two threads with ids of their own, one of them may pause. |
| `control_liveness` | Do stop and run return? | One client, two threads that share an id, detach, spurious wake-ups, a thread that pauses and one that calls back. |
| `hooks` | Is the hook in a state the registered one; does an event reach everybody, whatever is thrown? | Two Lua threads, a client, two objects, two kinds of events, two counts (the default 3 and another): one object to edit, one that edits it. A mutex that an escaping error has left taken may be entered once (`MaxDepth` = 1): the owner's next event would enter it again. |
| `state_and_print` | Cycles of waits, foreign values on a stack, calls that never return? Are messages whole and all read? | One part in each behaviour. `StateAccess`: a program, a debugger, two clients: two newcomers at once, a watcher, an exit, `lua_close`. `PrintOverride`: two printers (messages of two bytes and one), a listener, a thread that peeks, a pipe of three bytes: a message that fills the rest, and a read between the parts. |
| `watcher` | Is a reading of one moment, do pointers stay, is the local meant the one set? | Two clients, one that locks the object, reads and keeps the ignore list, one that sets globals and locals, both updating; two globals (one internal), one name for locals, two levels, two locals: shadowing, an ended block, another frame at the same level, an update of one client in a call of the other. |
| `files` | Does what is read add up? | Two file objects on one file of three characters and a temporary one; every mode, strings with line ends, seeks anywhere. |
| `references` | Do counts and lives of values and objects agree? | Two variants, two tables, two objects, a library; up to three calls once two overlap: a copy, a push, a reuse of an address, a collection between any two API calls. |
| `parts` | The parts that wait for nobody, one in each behaviour (table below). | |

| part | given | properties |
|---|---|---|
| stack | each function of `MCApiStack` with the stack it is listed with, every outcome of its conditions and of the calls it makes, values with and without a metatable; loops of 0, 2 and 21 rounds (`LUA_MINSTACK` is 20) | `StackBalanced`, `StackIndexesHit` |
| variants | two variables, two keys, tables that contain themselves, each other, or share a third; three calls | `OwnedOnce`, `CopyTellsTheTable` |
| tables | five integer and two string keys, some with one hash; five calls that change the table, with walks between | `TableIsMap`, `WalkGivesEachOnce` |
| memory | two threads, two lines of code, two blocks, one nested allocation | `LeaksToldApart` |
| collector | six objects of four kinds, four starting heaps; two calls of the program anywhere in the collector's steps, sweeps of one object | `NothingInUseIsFreed` |
| calls | frames of three calls, at most eight C calls, threads that are 3, 6 and 7 deep when they resume: overflow, error in error handling, refusal to resume | `CountersTellTheStack` |
| metadata | two threads, two addresses, three states one after the other | `StatesKeptApart` |
| patterns | texts of up to three letters; lists of up to three of fourteen items, captures with two more | `FindsPreferred` |
| packs | up to three options, bytes of two bits, integers of two bytes | `PackKeepsValues` |
| chunks | functions with up to two levels of inner functions, texts around the bound of a short size, with and without debug data | `ChunkKeepsFunction` |
| files | source texts of up to seven lines | `BreakpointsWhereCodeIs` |

The parts share no state; they are in one run because each is small. `MCParts`
extends `LuaCalls`, `MemoryTracker` and `StateMetadata`, of which there are proofs, and
instantiates the others. A client's
operations are chosen by the constant `Uses` (a set of operations per thread), so
that each run puts together those that meet. The properties of these modules
hold for sequences of calls within the named bounds (`MaxCalls`, `MaxRaced`,
`MaxPrints`, `MaxLen`, ...); a bound is a guard on new calls, not on their steps.

`CHECK_DEADLOCK FALSE` is said where the system may stop: every client idle
after the object is gone (`control_*`), the state closed, or all
messages printed or the pipe full (`state_and_print`, `state_mutex`), all
handlers deleted (`hooks`), all calls made (`watcher`, `files`, `references`, `parts`).

### Where the code and what it says of itself part

The run `state_mutex` shows one: a state opened at the address of another that is
being closed loses its metadata, and with it the mutex that `lua_lock` takes
(`luastate_util.cpp:51`). The others are found by TLC in seconds with the
constants named; they are in no run because each is one counterexample:

| property | where it fails | code |
|---|---|---|
| `StepReturnsToEveryCaller` (ExecutionFlow) | two debuggers that step: the event wakes one of them; the interface says `[Thread-Safe]` | `luadebug_execution_flow.cpp:350` |
| `NamedEntryExists` (ExecutionFlow) | two debuggers with block, resume, set_name | `luadebug_execution_flow.cpp:319` tests before it locks |
| `SetStepCountReturns` (ExecutionFlow) | one debugger with block, resume, set_count | `:274` waits for a mutex held through the pause |
| `NoLayerWhileExecuting` (ExecutionFlow) | any program that calls a function | `:282` answers while the program runs |
| `OneRun` (RuntimeHandler) | two clients with run_code | `luaruntime_handler.cpp:204` |
| `StopReturns` (RuntimeHandler) | a thread in `LatePausers`; `luathread_control.h:43` says stop waits until stopped | `luathread_control.cpp:82` |
| `EntryDataOutlivesCreator` (RuntimeHandler) | any run_execution | `luathread_control.cpp:348` |
| `ReturnedIdIsListed` (RuntimeHandler) | spurious wake-ups | `luathread_control.cpp:348` |
| `RefusedOnlyWhileRunning` (RuntimeHandler) | run_code, handles, join | a joined thread's handle counts as running, `luathread_control.cpp:103` |
| `HandleClosedOnce` (RuntimeHandler) | two clients with run_execution, handles, join | `luathread_control.cpp:137` |
| `StopMeansStopped` (RuntimeHandler) | with detach | `luathread_control.cpp:130`: nothing to join |
| `EveryReferenceFreed` (RuntimeHandler) | any stop_running | `luaruntime_handler.cpp:246` |
| `LoadOnlyIdle` (RuntimeHandler) | a thread whose id is 1444 | `luaruntime_handler.cpp:230` |
| `DestroyFinishes` without its exceptions (RuntimeHandler) | a thread paused, or asking for a handle, when the destructor begins | `luathread_control.cpp:285-298` |
| `InstalledForEveryone` (HookHandler) | a hook set by another thread is never called | `luadebug_hook_handler.cpp:139` |
| `NobodyLeftOut`, `MutexGivenBack` (HookHandler) | as in `hooks`: a callback that throws what is no `std::exception` | `luadebug_hook_handler.cpp:181` |
| `InstalledAsRegistered` (HookHandler) | `Destroyers` = Lua threads | `luadebug_hook_handler.cpp:116` |
| `StatesStayAlive`, `GoneLeaveNothing` (StateAccess) | as in `state_and_print` | `luathread_util.cpp:280`, `:143-149` |
| `NoLockCycle` (StateAccess) | `Known` = {c1}, or `Leavers` = all | `luathread_util.cpp:268`, `luadebug_variable_watcher.cpp:155` |
| `StackIsMine`, `OwnersStandStill` (StateAccess) | `Passed` = {Main, p} | `luathread_util.cpp:272-280` |
| `LockedPointersLive` (VariableWatcher) | as in `watcher`: `lock_object`, a getter, `update_global_ignore`; then another client updates | `luadebug_variable_watcher.cpp:244` |
| `SetsWhatWasRead` (VariableWatcher) | as in `watcher`: the level is counted anew | `luadebug_variable_watcher.cpp:462` |
| `NoLevelOutsideLocals` (VariableWatcher) | as in `watcher` | `luadebug_variable_watcher.cpp:272` |
| `NeverWaitsForOutput` (PrintOverride) | two readers, or read_n on an empty pipe | `luaglobal_print_override.cpp:166` |
| `EveryPrintRead` without `Full` (PrintOverride) | a message longer than the pipe | `luaglobal_print_override.cpp:111` |
| `CountIsHolders` (References) | two threads; `luavalue_ref.h:11` says `[Thread-Safe]` | `luavalue_ref.cpp:110` |
| `NoObjectLost`, `ObjectGivesItself` (LibraryObjects) | a library loaded under a name in use | `lualibrary_loader.cpp:105` |
| `IteratorOfLive` (FileHandler) | the iterator of a file that was collected; `lualibrary_iohandler.h:240` | `lualibrary_iohandler.cpp:1227` |
| `ReferencesRemoved` (TableVariants) | any remove_reference_values | `luavariant.cpp:1520` |

Reading for the models met more that no property states:

- Variants: `_rename_value` of a copy tests the opposite of what it needs
  (`luavariant.cpp:1202`); a rename on a reference leaves the keys stale;
  `set_function` sets when its header says it does not (`:2310`); a failed
  `from_state` leaves neither reference nor data; `_copy_from_var` of a Lua
  function loses the chunk's name; the recursive argument of `from_state_copy`
  has no effect; shared sub-tables are lost in recursive copies.
- Objects: keys are the low 32 bits of an address and may collide; an object
  given to Lua twice is destroyed twice; `get_library_object` of a name that is
  not loaded makes an empty library.
- Files: `io.close()`, `io.flush()` and the C++ calls without an object fail
  silently; `read` with a format returns nothing (`lualibrary_iohandler.cpp:1629`),
  so `lines` never yields; a line read skips all following line ends; a number
  written is written as ""; append needs an existing file.
- Watcher: ignored keys, local data and the last error are never freed.
- Stack (`Unexpected`, `Misled` and `Greedy` in `MCApiStack` name the functions and
  say what they do): `set_special_type` of a value without a metatable pops its
  caller's topmost value (`luavariant_util.cpp:132`: `lua_getmetatable` has pushed
  none), and if that is the value itself makes the new table its own metatable;
  `get_object_from_table` looks into whatever is on top then
  (`luaobject_util.cpp:169`), which for `get_library_object` and `load_library` of a
  new library is the library's table, for a function of an object called with
  another table its last argument; and pops one value too many if it finds
  an object there; `get_table_value` empties the stack (`lua_pop(-1)`);
  `set_local_variable` of a slot without a name leaves its value; the copy of a
  foreign C function leaves an upvalue; functions in `Greedy` push per argument
  without `lua_checkstack`; `luaL_tolstring` of a negative index reads a slot off
  when `__name` is there.
- Metadata: `require_state_mutex` returns NULL for a mutex that exists
  (`luathread_util.cpp:249`); what `get_metadata` returns is used after its mutex
  has been left; a failed `lua_newstate` crashes `initstate`, though
  `llimits.h:236` notes that the state may be null.
- File info: headers of local functions and the last `end` of an `if` count as
  valid, as do pieces of a long comment that compile.
- `string.unpack` of "z" without its end gives a position one too far; "X" takes
  the option behind it.

Every property of a passing run has a mutant in the modules (an operator with a
comment "Mutant: ...", named after what it gets wrong) under which TLC finds it
violated. The modules state a few properties more that the runs leave out to
stay short (`AppendKeeps`, `TemporaryWhileOpen`, `FlushedInTime`,
`OpenFileStays` of FileHandler, which section 5 proves, `PeekMatchesRead`,
`PushesOwn`); they are there to be put into the cfg when those parts change.

## 4. Fairness

- A thread inside a call goes on (weak fairness per debugger, client or thread):
  calls do nothing but wait for mutexes and events, and the system schedules
  threads. No thread must begin a call, and a Lua program runs on (weak fairness
  of some step of it), as programs without a blocking C function do.
- `StepWait` and the client's `WaitPause`/`WaitResume` are strongly fair: they
  wait for an auto-reset event that others may take; the kernel wakes a waiter
  when the event is set.
- A thread that was told to stop and gets to run ends (strong fairness of
  `ThreadEnd` for threads in `stop_thread`): its line hook throws at the next
  line. A program that catches this error for ever is thereby excluded.
- `StateAccess`: strong fairness per thread. The mutexes are handed over to
  waiters, and Lua leaves the state mutex at every C call (`lua_unlock`).
- `PrintOverride`: strong fairness per thread inside a call, for the same reason;
  a listener goes on for ever, nobody has to call.
- The other modules state safety only, and no fairness.

## 5. Proofs

All theorems hold for every value of the constants that meets the named
assumptions of the modules (`ConstAssumption`, `SessionAssumption`,
`ControlAssumption`, `HookAssumption`, `AccessAssumption`, `PrintAssumption`,
`WatcherAssumption`, `ReferencesAssumption`, `ObjectsAssumption`, `FileAssumption`,
`TrackerAssumption`, `CallsAssumption`), which TLC evaluates on the runs whose module
extends theirs: for any number of threads, clients, variables or values.
`CallsAssumption` says that a thread that resumes a coroutine has `nCcalls` below
9/8 of `LUAI_MAXCCALLS`: at that depth `stackerror` (`ldo.c:480`) throws instead of
calling, and `CountersTellTheStack` bounds `nCcalls` by it for every thread.
Some theorems have a hypothesis more, which names how the interface has to be
used; most have their failure in the table of section 3:

| hypothesis | meaning | without it |
|---|---|---|
| `OneStepper` | at most one thread calls `step_execution` | `StepReturnsToEveryCaller` fails |
| `OthersOnly` | a callback leaves its own registration alone | the iterator of the event is erased |
| `"other" \notin Throws` | callbacks throw nothing but `std::exception` | `NobodyLeftOut`, `MutexGivenBack` fail |
| `OwnHandlers` | a handler only its own thread uses is of a thread that leaves other handlers alone and deletes none | `InstalledAsRegistered` fails with `Destroyers` |
| `NoDetach` | no client detaches | `StopMeansStopped` fails |
| `~SpuriousWakes` | condition variables wake only when notified | `ReturnedIdIsListed` fails |
| `OneRunner` | one client calls `run_code`; no thread has the id 1444 | `OneRun`, `LoadOnlyIdle` fail |
| `OneReader` | one thread reads, and calls `read_n` only as a listener, which has seen output | `NeverWaitsForOutput` fails |
| `Discipline` | every thread but the program's and the debugger's has used the state and does not end; only the watcher passes the program's state | `NoLockCycle`, `StackIsMine` fail |
| `MainPassed` | clients pass the main state only | `OwnersStandStill` fails |
| `NobodyLoses` | no client uses both `lock_object` and `update_global_ignore` | `LockedPointersLive` fails |
| `OwnKeys` | different addresses have different keys | the code keeps 32 bits of an address |
| `Contents(Chars)` | what programs write are sequences over some set `Chars`, and `Missing`, which stands for no file, is none | `disk` would not tell a file from none |
| `NoneApart`, `~MayOverlap` | `None` is no number and no thread; a state is opened or closed while no other is | `MutexUntilClosed` fails |

**Execution flow.** `ExecutionFlowProofs`: `TypeCorrect`, `PausedPositionCorrect`,
`LayersCorrect`, `StepsStayShallow`, `PauseIsSteady`. The invariant `IInv` adds
to the types that the fields show the position of a thread that has decided
to pause (`StoppedPosition`), that the flag says paused only from `Park` to
`Resumed` (`FlagMeansParked`), which step types arm which check
(`ChecksOfStepTypes`), and how far `step_layer_check` can drift from the depth
it stands for (`StepDrift`): without the last two "never too deep" says
nothing about the step that stops. `NoPauseIsLost` (`OneStepper`) is that a
`step_execution` does not sleep on while the program is parked. `PauseTold`
strengthens it: from the announcement on, as long as nobody is on the way to set
the block event, it or the object's pausing event is set; and only a step takes
the latter.

`DebugSessionProofs`: `NoSignalLeftOver`, `ReadsHoldInSession` (what a getter has
tested still holds when it reads) and `SessionImplementsContract`. The invariant
`SInv` is `IInv` with `Protocol`, which relates the client's phase, the Lua
thread and the three signals. Each step of the session maps to one step of the
contract or to a stutter (`ContractStep`).

**Hooks.** `HookHandlerProofs`: `IteratorStaysValid`, `EveryCallbackIsCalled`
(`OthersOnly`). `Walk` relates the iterator, the objects still due, and the owner
of the mutex. `EveryCallbackIsCalled` leaves an event two ways to end: everybody
called and the mutex given back, or in a callback whose error escapes. That only
the first is left when callbacks throw nothing but `std::exception` are
`NobodyIsLeftOut` and `MutexIsGivenBack`. `RegistrationsReachTheState` (`OwnHandlers`): the hook in a thread's
state is what its handler's maps ask for. The property is inductive with its
types alone, because every call that changes a map installs the hook under the
same mutex; the hypothesis says in whose state.

**Threads and program.** `RuntimeHandlerProofs`, in four layers:

1. `IInv`: `TypeCorrect` and `LiveThreadsStayListed`. `IdsExclusive` (two threads
   with one id do not both have an open handle) makes a reused id harmless.
2. `HInv` adds which operation can be at which point (`OpsPlaced`) and what a handle
   says of its thread (`Handles`: a thread that runs has its handle, what is listed,
   referenced or in a call has registered itself, and a join closes only what has
   ended). From it `StoppedWhenBack` (`NoDetach`): when `stop_running` or
   the destructor's loop is past a thread, that thread has ended.
3. `QInv` adds that `run_execution` does not come back before the thread is in the
   table (`Waited`), that no other call is under way with the destructor
   (`DestroyAlone`) and none when the object is closed (`ClosedIdle`). From it
   `QuietAfterDestroy` (`NoDetach`, `~SpuriousWakes`).
4. `RInv` adds `RunsOne`: while a program runs, `_current_tid` is its id or its
   runner is between creating it and writing the id, so a `currently_running` in
   between does not let a second one in. From it `MainFunctionRunsOnce`
   (`NoDetach`, `~SpuriousWakes`, `OneRunner`).

**States and print.** `StateAndPrintProofs`: `TypeCorrect` without hypothesis;
`NewStatesOnTop` under `Discipline` and `MainPassed`: whoever makes a state holds the
code mutex (`CodeInv`), so new states do not lie on each other, and makes it on the
stack of the main state, or of the paused program as its watcher (`FromInv`,
`StackInv`), so that nobody else moves the top meanwhile. What owners of states push
themselves is not a variable of the model; that they stand still is what the theorem
adds. `NoCycleOfWaits` and `StacksAreKept` under `Discipline`, from who holds the
state mutex (`LockInv`), where debugger and clients can be, and that nobody
but a watcher works on the program's stack (`StackInv`). `MessagesStayWhole`: in
the output a message stands in one piece. `PInv` says that a byte of a message
not yet counted is at the end of the output, where its printer, who holds the
mutex, goes on (`EndUnderWay`). `SingleReaderNeverWaits` (`OneReader`): with what
the pipe held when the reader asked (`ReaderSees`), no read waits with the mutex
in hand.

`LuaStateProofs`, first part: `StatesStayApart` and `MutexStaysUntilClosed` (`NoneApart`,
`~MayOverlap`). `MInv` says that numbers are used once (`Numbered`), that one
thread at most opens or closes (`OneAtATime`), that an open state has its own
mutex and no thread has a dependent state of an earlier one (`OpenKept`), what a
user has found (`UsersKept`) and how far an opener is (`OpenersKept`).

**Watcher.** `VariableWatcherProofs`, all from who has which mutex at which point of
a call (`LInv`: `Typed`, `Locked`, `Holding`): `PointersStayLive` (a pointer of a
holder is deleted only after it has lost the object by its own
`update_global_ignore`) and `LockedPointersStayLive` (`NobodyLoses`: then never);
`GlobalsReadAtOnce`, with `GInv` (what has been read is what the program has now,
since it cannot run); `LocalsSetByName`, with `SInv` (the slot of a name is the last
one declared under it). `update_global_ignore`, which leaves mutexes it should
take, is in all three.

**References and objects.** `LibraryObjectsProofs`: `CountsAreHolders`, as long as
calls do not overlap, whatever the keys. `Serial` says that one variant alone
is on its way (`Alone`), that what it has read of the storage is still so
(`Placed`), and that a count is the number of variants that have counted
themselves (`CountsRight`; the lemmas `JoinHolders` and `LeaveHolders` do the
cardinalities). `VariantsKeepWhatTheyShow` (`OwnKeys`), with `Kept`: what a variant
shows is stored under its key (`ValueKept`), its object is not destroyed
(`ObjectKept`), what is stored lives (`StoredLive`), and an object has its table
(`TablesRight`).

**Files.** `LibraryObjectsProofs`: `NothingIsLost` (what a program reads and skips
between seeks and writes is the file up to the pointer), `TemporaryFilesGo`,
`AppendedFilesKeep`, `WritesAreFlushed`, `OpenFilesStay` (`Contents`). `FilesInv`: an
open handler has its file, stands inside it, is anchored in Lua's storage and has
taken what lies before its pointer (`InItsFile`); one that is not open has nothing
unread or unflushed (`NotInAFile`); and two open handlers never have one file
(`OneOpener`), without which a write of the one would move the text under the other's
pointer. What is compared is the text without line ends, so the lemmas on
`WithoutEnds` (of the empty text, of a text and a character more, of two texts one
behind the other) carry the proof.

**Memory.** `LibraryObjectsProofs`: `LeaksAreToldApart`. `TrackerInv`: the two global
variables through which the manager tells the tracker the line are empty unless the
lock is held (`LockKept`), and are the line of the thread that holds it once it has
told it (`Told`); so what is listed is what was asked, and the usage is the sum of
what is listed (`Listing`, with the lemmas on `SizeSum`).

**Lua calls.** `LuaStateProofs`, second part: `CountersRight`. That `nCcalls`, `nny`,
`allowhook`, `errfunc` and the state mutex are what is on the stacks now is not
inductive: an error or a yield cuts the C stack down to any `luaD_rawrunprotected`
below, and puts back what was stored there, to a frame list that a call may have
made longer and the unroll has yet to finish. `Fine` says therefore of *every* level of
the C stack what it would be to go on from there: each activation begins above a
number of frames (`Levels`), works on frames of the kind it expects (`Places`,
`Neighbours`), would find its frame if all above it were gone (`Going`), and what a
frame of `lua_pcallk` remembers is what was so when it was made (`Flagged`); the
counters are sums over the C stack (`Counted`), as they were when a protected call
stored them; stored counts stay below the error limit (`Limits`). A coroutine that
is suspended has no C stack, and keeps what `resume` puts back (`Suspended`).

**Induction over data.** The library's induction theorems cannot be used here, but a
sum, a fold or a recursive function can be reasoned about by its smallest
counterexample: `LeastElement` (a set of naturals that is not empty has a least
element) is proved from the library's fact that strict inclusion of finite sets is
well-founded. On it rests that the recursive functions in `WithoutEnds` and below
`MapThenSumSet` exist (`KeptExists`, `SumsUpExists`), and what is said of them, of a line
read character by character, and of `Max`.

**Only model-checked.**

- Liveness (`StepReturns`, `PauseRequestServed`, `ImplementsFairContract`,
  `StopReturns`, `RunReturns`, `CallsReturn`, `EveryPrintRead`) is beyond the prover.
- What the `RECURSIVE` operators of a module compute, since the prover cannot use a
  module that has one: of the run `parts` `OwnedOnce` and `CopyTellsTheTable`
  (`TableVariants`), `TableIsMap` and `WalkGivesEachOnce` (`LuaTable`), `FindsPreferred`,
  `PackKeepsValues`, `ChunkKeepsFunction`, `BreakpointsWhereCodeIs`, and
  `NothingInUseIsFreed` (the marking of `LuaCollector` is a recursion over the heap).
- `StackBalanced` and `StackIndexesHit`: they say of the functions listed in
  `MCApiStack`, a finite table of programs, what each does with the stack it is
  listed with; TLC goes through all of them.

Some theorems state more than a run checks: `LiveThreadsStayListed`,
`NoSignalLeftOver`, `PauseIsSteady`, `IteratorStaysValid`, `NewStatesOnTop`,
`NobodyIsLeftOut`, `MutexIsGivenBack`, `LockedPointersStayLive`, `SingleReaderNeverWaits`, `TemporaryFilesGo`, `AppendedFilesKeep`, `WritesAreFlushed` and
`OpenFilesStay` hold of properties that no run repeats; `MutexStaysUntilClosed` is
what the run `state_mutex` refutes when states do overlap.

## 6. Plan and what is not modelled

Next, in this order:

1. A proof of `NothingInUseIsFreed`: the collector's invariant that no black object
   leads to a white one, with its exceptions, after the marking operators have been
   written as recursive functions.
2. Composition: threads, hooks and flow of one thread together (stop against
   pause without `LatePausers` as a constant).

Left out, and why:

- The `luaapi_*` classes forward each call and keep nothing. Logging, string and
  DLL helpers are formatting and pure I/O.
- Lua's lexer, parser, code generator and instructions (`llex.c`, `lparser.c`,
  `lcode.c`, most of `lvm.c`): what the debugger needs of them is which lines have
  code and when hooks are called, which is external to `FileInfo` and chosen
  freely in `ExecutionFlow` and `LuaCalls`.
- Floating-point numbers, string formatting and the system behind `io` and `os`.
- The last error objects of runtime handler and watcher; pipes and standard
  files of the file library; the order of variants, whose number comparison with
  a tolerance of 0.01 is not transitive; arrays of variants.
- `set_config` of the memory manager while others allocate; blocks freed by
  another allocator.
- Coroutines in the hook handler: `LuaCalls` has the coroutine, but the hook there
  stands for any callback.

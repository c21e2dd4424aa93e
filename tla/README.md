# A verification project for protolang0

protolang0 (p0) is a small JavaScript-like language: a compiler from source text to an
intermediate code of register instructions, an optimizer for that code, an interpreter with a
mark-and-sweep garbage collector, and a runtime library of native modules. This directory
holds TLA+ models of its parts, TLC configurations that check them on small instances, and
TLAPS proofs that hold for every value of the constants. Source paths are relative to the
repository (`src/` below is its root).

## 1. Inventory

| component | state | operations | hard behaviour | what makes it correct |
|---|---|---|---|---|
| garbage collector (`p0run/default_garbage_collector`, `raw_storage`, `construct.hpp`, `object`) | `m_storage` (raw memory), `m_objects`, `m_is_marked` of every object | allocate, construct + commit_object, deallocate, unmark, mark, sweep | construction can fail half way; cyclic graphs; an object embedded in another (class_instance::m_fields) is not in `m_objects`, yet has a mark; collections repeat | nothing reachable is destroyed, nothing unreachable stays, raw memory has one owner, marking ends |
| interpreter, calls (`p0run/interpreter.cpp`) | `m_locals`, `m_current_function_stack`, `m_next_call_frame`, the C++ stack | call, native_call, call/call_method/load_module instructions, return, raise_error | native code calls back into p0 code at any depth; exceptions leave through guards only (pop_guard, auto_swapper); frames overlap on purpose | no callee touches its callers' slots; function stack and frame offset always match what runs; the result is where the caller looks |
| interpreter, integers (`interpreter.cpp`, `value.hpp`) | two local slots | 14 integer instructions, 6 comparisons | overflow, division, shifts at their limits | result exact or an error, never both or neither |
| interpreter, other instructions | code, program counter, slots | set_*, copy, jumps, tables, bind, get_bound, current_function | jump targets; uninitialized locals; extra arguments | a program does what its tree means |
| module cache (`p0rt/module_cache`) | map name -> lazy_module(cached, loader, is_being_loaded) | add_module, get_module | a loader imports further modules, its own too; it throws; its importers catch | each module loads once, all importers agree, a failed module can be retried |
| module_loader (`p0rt/module_cache.cpp`) | decoders | load_module | none of its decoders exists | not modelled |
| values, strings, tables (`p0run/value`, `string`, `table`) | hash table of values | get, set, compare, hash | an order that mixes content and address; null erases | equality is exact, an element is found under its key |
| standard module (`p0rt/std_module.cpp`) | class definitions, instances, arrays | class, new, array, enumerate, assert, to_string | native variables hold objects during callbacks | instances keep their fields alive (partly modelled, by `GarbageCollector`) |
| code generation (`p0compile/*generator*`, `local_frame`, `temporary`, `loop`) | next free slot, symbols, bound variables, pending jumps | one visit per tree node | temporaries shared by lifetime; forward jumps patched; closures bind through several functions; errors are thrown past half-made functions | invalid programs and no others are rejected; the code is complete and does what the tree means |
| scanner, parser (`p0compile`) | source position, one token of look-ahead | next token, one function per construct | the longest token; precedence; error recovery | a text is read as what was written, nothing of it is dropped, every error makes progress |
| optimizer (`p0optimize`) | instruction vector | fold constants, remove no-ops, remove dead code, make the graph of sections | jumps move when instructions go; what is known on one path is wrong on another; reads that are not seen | a program means the same before and after: same result, same error, same effects in the same order |
| intermediate code (`p0i`) | instruction vector, strings | emit, save | the roles of arguments are declared apart from what the interpreter does with them | instructions have the arguments their type asks for |
| native classes (`p0rt/native_class.hpp` ...) | methods by name and arity | overloads | - | not modelled |
| net (`p0rt/net_module.cpp`) | posted handlers, `m_callback_ownerships` | create_io_service, post, run | who keeps a posted object alive | a waiting callback is owned, a finished one is not |
| tempest (`p0tempest`) | sessions: socket, coroutine, what is being sent; the acceptor | run, poll, handler, respond | shared pointers held by callbacks and coroutines; handlers that run the server again; several answers; the end of the program | no session dies under an operation; one answer, written to its end |
| command line (`p0`, `p0c`) | - | options, files | I/O | not modelled |

**How they interact.** Everything runs on one thread. The host (`p0/main.cpp`) compiles a
unit and calls `interpreter::call`; the compiler's own program (`p0c/main.cpp`) compiles a
unit, optimizes it if asked to (`-O`) and saves it. The interpreter calls native objects
(`object::call`, `call_method`) and the module loader (`m_load_module`, which is the module
cache); these call back into the interpreter. All objects belong to the collector, which runs
only when the host asks for it (`mark_required_objects` gives it the roots, `m_locals` and
`m_current_function_stack`). Errors are C++ exceptions that pass all of these and end in the host.
The concurrency of this system is therefore re-entrance: the interleaving of p0 code, native
code, loaders and exceptions in a nest of activations, and, in the web server, of coroutines and
asynchronous operations whose callbacks any of the nested loops may run.

The hazards this gives rise to are listed, at their lines, in `PROJECT.json`.

## 2. Modules

| module | models | abstracted |
|---|---|---|
| `ManagedHeap` | what `garbage_collector.hpp` promises: objects appear, refer to each other, and vanish in a collection only if nothing that stays refers to them | |
| `GarbageCollector` | the collector, construction of objects, the graph | contents other than references; sizes |
| `MCGarbageCollector` | symmetry for TLC | |
| `GarbageCollectorProofs` | theorems | |
| `CallProtocol` | every way to enter and leave an activation | which instruction comes next |
| `CallProtocolProofs` | theorems | |
| `Arithmetic` | integer instructions, comparison | addresses of objects |
| `ArithmeticProofs` | theorems | |
| `ModuleTable` | what a module cache promises: a module gets its value once | |
| `ModuleCache` | `add_module`, `get_module`, the load lock | what a loader does besides |
| `Trees` | the trees of a program, as the parser makes them | positions in the text |
| `Scanner` | `scanner.cpp`: from a text to tokens | words are letters; escapes of strings |
| `Tokens` | what the scanner promises of a text | |
| `Parser` | `parser.cpp`: one operator per rule, with errors and recovery | messages |
| `Parsing` | `parse_unit`: the outermost block's loop over a text | |
| `ParsingProofs` | theorems about `Tokens` and `Parsing` | |
| `CodeGenerator` | function, rvalue, lvalue and statement generators, local frames, temporaries, loops, the emitter | string escapes |
| `Values` | values, operators on them, tables, characters of strings | hash codes |
| `Language` | what a tree means, without code or slots: the specification of the generator | |
| `Interpreter` | the interpreter running a unit, on shared slots, with closures and tables | the world outside: a native object that answers |
| `InterpreterProofs` | theorems | |
| `Execution` | `compile_unit`, and the interpreter running what it makes | |
| `Compilation` | a text that is written, `Parsing`, and the generator after it | |
| `SamplePrograms` | bounded sets of trees | |
| `MCExecution`, `MCCompilation` | which trees and texts TLC takes | |
| `WebServer` | tempest: sessions, coroutines, nested loops, writes | bytes |
| `NetService` | net: posted callbacks and their owners | |
| `MCNatives` | both services side by side | |
| `NativesProofs` | theorems about `WebServer`, `NetService` and `ModuleCache` | |
| `Instructions` | the instructions and the roles of their arguments | |
| `FunctionRuns` | what the interpreter makes of the instructions of one function | what happens outside the function: an event, and whatever answer to it |
| `Optimizer` | the three passes, the graph of sections | |
| `MCOptimizer` | bounded sets of programs for TLC | |
| `OptimizerProofs` | theorems | |
| `NaturalInduction` | induction over the natural numbers, functions defined by recursion | |

`ManagedHeap` and `ModuleTable` are abstract specifications; `GarbageCollector` and
`ModuleCache` instantiate them and are shown to implement them. `Language` is one too, a
denotational one: `Execution` composes the code generator with the interpreter and is compared
with it. `Optimizer` extends `FunctionRuns`, which shares `Instructions` with `CodeGenerator` and `Interpreter`; `Values` instantiates
`Arithmetic`; `Execution` composes `CodeGenerator` and `Interpreter`; `Compilation` composes `Scanner` (with `Tokens`, its promise), `Parser` and
`CodeGenerator`.

### GarbageCollector
`storage` is `m_storage`, `objects` is `m_objects`, `marked` the set of objects with
`m_is_marked`. `handles` are the `raw_storage` objects that still own memory. `refs[a]` is what
`mark_recursively` of `a` marks directly (elements of a table or array, bound values of a
function, the definition of an instance), `fields[a]` the content of the table embedded in a
class instance, whose own mark is `fieldsMarked`. `roots` is what `m_locals` and
`m_current_function_stack` hold. `Allocate`, `Deallocate` and the `Commit...` actions are the
steps of `construct`; a program stores, erases, loads and forgets references it holds
(`Store`, `Erase`, `Load`, `Forget`); a collection is `Unmark`, `MarkRequiredObjects`, some
`Mark` steps and `Sweep`. Marking is a recursion in the code and a worklist (`pending`)
here, because only the set of marked objects matters and the order in which containers are
walked is that of hash tables. `stale` is a history variable: the instances whose embedded
table was still marked after the last `unmark`.

The model keeps a fact that is easily abstracted away: `unmark` walks `m_objects`, and the
table inside a class instance is not there. The run `gc_fields`
shows what follows; `DanglingOnlyInStaleFields` says what still holds.

### CallProtocol
`size` and `locals` are `m_locals`; `functions`, `nextFrame` are `m_current_function_stack`
and `m_next_call_frame`; `stack` is the C++ stack as far as it belongs to calls: an
activation of p0 code (`native_call`), of a native object, or of a loader. Each carries what
the C++ guards have saved, and three fields for the properties: the callee, the height of the
function stack, and a snapshot of the slots below that are not its own. Every other
instruction is `Instruction`: it may grow the array (`get` resizes) and change one slot of
its own frame. The models are of an interpreter without a listener, and nothing in the
repository sets one. With `m_listener` set, `raise_error` would call `on_error` and return
(`interpreter.cpp:160`), and the instruction would go on behind the check that failed.
`raise_error` is `Throw`; `Unwind` destroys one activation with its guards and `Catch` is
native code, or the host, catching. An exception can arise in any activation.

`LoadersRunCode` says whether module loaders call `interpreter::call`. None in the repository
does, and it matters: `load_module` (`interpreter.cpp:649`) does not move `m_next_call_frame`,
so a loader that did would write its callee over slots of the importing function.
`CallersUntouched` is checked and proved for loaders that do not; the balance of the
function stack and of the frame offset (`CallsAreBalanced`) is proved for all.

That an instruction changes slots of its own frame only is part of this model (`Instruction`).
`CallersAreLeftAlone` shows it of the instructions themselves, in `Interpreter`.

### Arithmetic
The width is a parameter. `left` and `right` are the operands of the running instruction,
which stores in the left one. `CheckedAdd`, `Sub`, `Div`, ... follow the code case by case,
including the detour of `sub` through `-right`. Bitwise operations are defined from the bits
of the two's complement. Signed overflow, undefined in C++, is what the build does: it wraps
in `sub`, `mul` and shifts; in `compare<integer>` a compiler may also compare the
operands themselves, so `CompareIntegers` is a set of outcomes. (`Values`, where a comparison
needs one outcome, takes the second, the only one under which comparison has a meaning.)

### ModuleCache
`registered`, `loaders`, `cached`, `loading` are the members of the `lazy_module`s, `running`
the nest of loader calls. `GetUnknown`, `GetCyclic`, `GetCached`, `GetWithoutLoader`
and `StartLoading` are the ways through `get_module`; `FinishLoading` is its rest after
the loader has returned, `LoaderThrows` and `Unwind` the other end of the call. Loaders may
import, register and catch.

### Instructions, FunctionRuns and Optimizer
A program is a sequence of instructions `[type, args]`, with positions and slots that count
from 0 as in the code. `Execute` is one turn of `native_call`'s switch, for a machine with a
program counter, slots, an error and the events so far. The instructions that the optimizer
looks into, and all that stay within the function, are executed exactly: constants, copies,
`add` with its overflow, unary operators, jumps. The others (calls, tables, closures, modules,
comparisons, the arithmetic that no pass folds) are *events* (`External`): the instruction and
the values it read go into `events`, and what comes of it is the *answer* of the world to the
events so far. `Answer` is a constant, an arbitrary function: of the world, which is an
arbitrary parameter of a run like the function's own, and of all that happened by then with
every value that was read. So a
comparison may be true once and false later, a call may return null, zero or an object, and the
same instruction with the same operands may answer differently the next time; it is the same
world before and after a pass. `Result` makes of the answer what the instruction can yield (0 or 1 of a comparison, an
integer of arithmetic, an object of `bind`). An answer that is no value is an error inside of
the instruction: a division by zero, a callee that throws or supports no call, a table that
does not. Errors that the function's own values decide are raised by the instruction itself
(`Bind`, `Access`: a call of what is no function, an element of what is no table), and
arithmetic on operands that are not integers leaves them alone (`ComputeLocals`). A world
can answer more than any real one can (it may give a quotient that is wrong), hence what is shown for all worlds
holds in the real ones. Two programs that
produce the same events, result and error therefore do the same whatever the rest of the
world is. Objects that the function makes itself (`new_table`, `set_string`) carry no identity:
no pass merges or repeats the instructions that make them. `Junk` is a slot that no instruction has set, or that a call has truncated; a run
that reads it has no meaning that could be kept.

The state of `Optimizer` is the code, its steps are the passes: `Fold` (`fold_constants` with
`local_constant_tracker`), `RemoveNoOps` and `RemoveDeadCode` (both end in
`remove_instructions_at_positions`). `KnownAfter` is the tracker's map after each instruction,
`FindObsoleteInstructions` the one loop of `remove_no_ops`, `NewPosition` the table
`original_to_optimized_position`. `ReachableInstructions` is the least set closed under
control flow, which is what the pass's worklist reaches whatever its order. p0c runs the three
passes in one order; the model runs them in all, so that each pass sees what the others leave.
`DissectFunction` is `dissect_function`: `SectionEnd` and `LeadsTo` are what `find_section_end`
returns, `SectionOf` is `instruction_to_section`, and the sections' numbers are the positions where they begin.
`SectionGraphIsTheFlow` compares the graph with the flow between single instructions
(`Successors`, which `remove_dead_code` follows): a step within a section goes to the next
position, a step out of its end is a link, recorded on both sides, to the section that begins
where the step leads, and every link is such a step. Two exceptions are what the code does:
see Disagreements. Only tests call `dissect_function` so far.

Meaning (`KeepsMeaning`): in every world, a run that ends, and reads no junk, ends afterwards
with the same result, the same error and the same events in the same order.

### Scanner, Parser and Compilation
A text is a sequence of characters, a word of letters being one; a token has its type and its
range. `NextToken` is `next_token`; the loop over `optional_token` alternatives is
`Continuations`. A parser is a record that the rules hand on: the scanner, the look-ahead, the tree a
rule returned, and `thrown`, the `compiler_error` on its way up. Every rule does nothing once
`thrown` is set; `parse_block`'s handler records the error and skips the line, and
`end_of_file_error` passes it by, as in the code. The C++ functions call one another; here a rule
gets what it may call as an argument (`calls`), and `Parse[depth]` are the rules for texts in which calls
are nested `depth` deep. A loop is a rule that handles its first turn and calls itself for the
others. No call is made before something was taken from the text, so that its length
is depth enough (`ParseFrom` in `ParsingProofs`). In `Parsing`, one turn of the outermost
block's loop is a step (`ParseTurn`); in `Compilation`, `Generate` then makes the unit and
changes neither the text nor the parser. `Spell` writes a tree out, with parentheses only where
precedence asks for them, from the language's table and not from the parser's.
`Tokens` states what the scanner promises of a text at any position in it, inside of what is
a token too; `Begin` and `End` are what a token covers, which its range does not always say.

### CodeGenerator, Interpreter, Language and Execution
A generator `g` is what all generators on the C++ stack hold together: for every function being
generated, the innermost last, its code, bound variables, and local frames (symbols
and `next`, the next free slot). Every visitor is an operator from `g` to `g`. A temporary
takes slots when it is made and gives them back when it goes, by the same counter as variables;
that this stack discipline survives closures, assignments and errors is not assumed, it is
what the runs test. Errors are `g.thrown`: the rest of the visitor does nothing, and its destructors and
the handlers (`Catch`) do what they do in the code.

`Interpreter` runs a unit: `frames` are the activations of `native_call`, `locals` is `m_locals`,
on which they overlap; every action is one `case` of the switch with its errors, and `LeaveFunction`
the return with its truncation. Closures and tables are on `heap`, which is never collected.
`MachineSpec` runs any unit that is complete (`IsComplete`), whoever made it; `Execution` runs the
generator's. `MachineIsSound` and `CallersAreLeftAlone` are about all complete units,
`UnitIsComplete` says that the generator's are such.
A module is an object that answers every call, with 1 and 0 in turn, so that conditions go both ways; each call is
an event.
`Language` gives the meaning of a tree by scopes, captured names and control flow. It says
what an observer sees: the events in their order, the error or the result. It knows
nothing of slots, instructions, jumps or bound lists. What it cannot say it marks: `"unknown"`, `"unset"` (a
variable was read that was never given a value) and `"endless"` (more than `MaxTurns` turns); such runs
are only checked for completeness of the code.

`Execution` and `Compilation` take the compiler and the language as parameters (`CodeOf`,
`MeaningOf`), whose values in the configurations are `GenerateUnit` and `Meaning`.

### WebServer and NetService
`stack` is the C++ stack: calls of `run` and `poll`, and handlers that these call, which may call
`run` again. `coroutine[s]` is where a session's coroutine is; `holders[s]` the shared pointers to the session
(the accept callback's, `keep_alive` on the coroutine's stack, `this_` in the write's callback),
so that it is destroyed when the set gets empty. `Respond` is the lambda with its guard on `sending`;
`async_write` is a number of `WriteSome` steps and `WriteEnds`, with or without the client still
there. `End` is the end of the program in any nest of loops, by itself or by an error.
`offered` is a history variable: the first answer of the handler.

`NetService` has the queue of the io_service and `m_callback_ownerships` with its removal by
object. Running a callback throws, since it is not implemented.

## 3. Runs

| run | question | bounds | states |
|---|---|---|---|
| `gc_plain` | without class instances: does anything dangle or leak, is `ManagedHeap` implemented, does a collection end? | 3 addresses | 85 186 |
| `gc_instances` | with class instances and failing allocation: what can dangle? | 3 addresses, symmetric | 436 795 |
| `gc_fields` (violation) | do fields of an instance survive the second collection? | 3 addresses | |
| `call_protocol` | do callers keep their slots, are the guards balanced on every path, is the result in place? | 4 slots, 4 activations, 1 argument | 64 597 |
| `arith_checks` | every instruction, every pair of operands | 4 bits | 775 |
| `arith_comparison` (violation) | are integers ordered? | 4 bits | |
| `modules_nested` | nested, cyclic, failing imports | 3 modules, 3 values | 16 504 |
| `opt_passes` | do folding and dead code removal keep the meaning, in any order of passes? does remove_no_ops where it sees all reads? is code code afterwards, all of it reachable? is the graph of sections the control flow? | all programs of 3 instructions out of 28, loops of 4 instructions out of 13, 3 slots, 3 worlds, 12 steps | 51 288 |
| `opt_return` (violation) | is the return value kept? | 3 instructions: sets and jumps | |
| `execution` | are exactly the invalid programs rejected, is the code complete, does it do what the tree means, does it end? is the interpreter sound, are callers left alone? | 5-bit integers, expressions of two operators in every place, statements nested twice, 8 turns, 12 events | 47 333 |
| `compile` | do scanner and parser read what is written, drop nothing, and get through every text with at most one error a line? | all pairs of operators, three programs with every character replaced, removed or followed by others, all texts of 3 delicate characters | 30 942 |
| `natives` | do sessions outlive their operations, does a client get its first answer and all of it, are waiting callbacks owned? | 3 sessions, 6 loops and handlers, 2 answers of 2 pieces; 3 callbacks in the queue, of 2 objects | 18 756 |

**Why the bounds are enough.** Three addresses give a cycle of two, an outsider that refers
to it, address reuse after a sweep, and an instance with a definition and a field; the mark
that survives a collection needs two collections, and their number is not bounded. Four
activations are p0 code that calls a native object that calls back p0 code that calls again;
one slot more than a callee and its argument makes truncation visible. Four bits give all
combinations of sign, zero, the two limits and the shift limits; the proofs cover the other
widths. Three modules give a cycle through another module and a bystander. Three instructions
are enough for each pass to go wrong once (a jump over a write, a destination in the middle),
four for a loop that changes what was known before it and leaves on a comparison. Three worlds
give, for the first event and for later ones, a true and a false answer in either order, null, an
object and an error. 12 steps run a loop of four instructions
three times: by then a comparison was true and false, and a counter that grows has overflowed. The
theorems cover all programs, all worlds with all their answers, and all numbers of steps. Two operators in a row are
enough for a temporary to be live while another expression is generated, and the places include
discarded values, operands of calls, both sides of assignments, conditions, and bodies of a function
in a function, where a variable has to be bound twice; 5 bits hold every literal used and overflow with two
digits. Three sessions are one that is served, one that is served inside of its
handler, and one that waits; six entries of the stack are three loops and three handlers.
The theorems about the services have no such bound but the constants themselves.

Runs without a deadlock check: `gc_instances`, because after the double free (undefined behaviour) the model
takes no step; `execution` and `compile`, because a program is compiled and ends; `natives`, because the program ends.

**Fairness** is assumed in three runs.
* `gc_plain`, for `CollectionTerminates`: `mark_required_objects`, the marking and `sweep` are loops
  and recursions on the host's thread without waiting, so each, once called, goes on. Nothing is
  assumed of the program: it need never collect.
* `execution`, for `EveryProgramEnds`: the interpreter takes its next turn (`WF_vars(RunUnit)`); nothing
  else could, there is one thread. `EveryProgramEnds` speaks of programs the language lets end.
* `natives`, for `EveryResponseIsWritten`: between calls, the program calls `run` or `poll` again or ends;
  a handler returns; a session whose write is ready again and again is served at some time (strong
  fairness, since loops come and go), as the io_service's queue is first in, first out. A
  program that stays in p0 code for ever, or polls never again, sends nothing: that is excluded.
  Clients may do anything, vanish too.

## 4. Proofs

`tlapm` checks every theorem from nothing; no fact is assumed beside the constants' types.

* **GarbageCollectorProofs.** `TypeCorrect`, then `OnlyStaleFieldsDangle`. The invariant behind
  it: during a collection, every root is marked or pending, and so is what a marked object
  refers to (but for stale fields), so that what `Sweep` keeps is closed; the marked objects
  and the pending ones can all be reached, which gives `Precision`. If there are no instances,
  nothing is stale: `NothingDangles` and `Implementation` follow. Assumption of these two:
  `~WithInstances`, as `gc_fields` shows that they fail otherwise.
* **CallProtocolProofs.** `CallFrame`: the offset and the saved offsets form a chain
  (`FrameAfter`). `FunctionStack`: heights grow by one with each p0 activation, so that popping
  never removes an outer entry. `CallersKeepTheirSlots`: the parts of the array that
  activations leave to their callers are nested (`Nested`), thus what the innermost
  one may not touch nobody below may expect otherwise. `Result` follows from the chain.
* **ArithmeticProofs.** For every width from two bits: every result is a word (`TypeCorrect`), one
  addition, and subtraction of all but the smallest integer, are exact, quotient and remainder
  fit (`DivisionAgrees`), equality is exact. A word is the value of a pattern of
  bits (`BitsExist`, by induction over the bits), and every pattern is a word; powers of two are a
  recursive function, so that `2 ^ k`, which the provers know nothing of, does not occur.
* **InterpreterProofs.** `Soundness`: whatever complete unit runs, every value in a slot, in a table,
  in a closure and in an activation refers to a function or object that exists, and every
  activation is within its code. `CallersAreSafe`: no instruction, call or return changes or
  removes a slot of a caller. The invariant (`MachineInv`) has three parts that need each other:
  a slot's value is sound because the heap's and the frames' values are; a call enters the
  code of a function that exists because the slot is sound; and the truncation at a return
  leaves the caller its slots because each frame begins at the slot its caller's call names
  (`FramesAreNested`, `IsCallOf`). It assumes that the unit is complete and nothing else:
  code that uses slots nobody wrote, or calls what cannot be called, is included.
* **ParsingProofs.** First the scanner. `TokensAreAll`: wherever in whatever text the scanner is, its next token
  comes after white space and comments only, could not have been longer, and ends where the
  scanner goes on. By cases on the first character. What a run of letters, digits or
  white space is follows from its end being the last one possible (`RunIs`); that an operator
  could not have been longer follows from the order in which the alternatives are tried
  (`LongTokenIs`); the search for a closing quote, a recursive function that goes forward by
  one or two characters, is defined because the text ends (`StringIsRead`, with
  `RecursionExists` for two neighbouring positions at a time).
  Then the parser, on any sequence of characters (`ParsingSpec`): `OneErrorPerLineAlways` and
  `ParsingAlwaysAdvances`. The invariant (`ParsingInvariant`) says that the errors so far are in the
  order of their lines, one on each, and that between two statements the parser is `Resumed`:
  what it will look at next is on a later line than the last error, or there is nothing left.
  The property alone is not inductive, since it says nothing of the next error. Inside of a
  statement nested blocks recover, too: so every rule, called at some place, is shown to leave
  the parser `Sound` or throwing, with the error not before that place, and never to go back
  (`From`, `Took`, one lemma for each rule, `RuleFrom` for all). The rules call one
  another, hence an induction over the depth (`OneLessFrom`, `ParseFrom`): a rule called with `n`
  characters left only calls rules with fewer. `ParseIs` shows that the recursion has a solution.
  A turn of the outermost loop is then one more case distinction (`TurnIs`), and
  the recovery rests on what `skip_line` does to the place where the scanner goes on
  (`SkipLineIs`, `RecoverIs`, `PeekResumed`).
* **OptimizerProofs.** `CodeStaysCode`: every pass maps well-formed code whose jumps stay in it to
  such code; `TypeCorrect` and `Jumps` follow. It rests on lemmas about `NewPosition` (it counts
  what stays, so it grows by one past an instruction that stays and is onto the new positions).
  `FoldingIsCorrect`: the run of the folded code is, step by step, the run of the code, as long
  as the tracker's knowledge holds in the machine (`Known`); the invariant is needed because
  a folded instruction does the same only in the states that can come there, and it is kept
  because control arrives at an instruction either from the one before it or at a jump
  destination, where nothing is known. `DeadCodeRemovalIsCorrect`: the run of the new code is
  the run of the old one with the program counter mapped by `NewPosition` (`Moved`), as long as
  the counter is at reachable instructions (`Reached`). `AllDeadCodeGoes`: a set closed under the
  new code's flow, mapped back, is closed under the old one's. In all three the answers of the
  world are nothing but the constant `Answer`: an event after the pass finds the same events before it and
  the same values, so it gets the same answer. `Sections`: every position but the first is
  in the section of the one before it or begins one (`SectionsCover`), and no destination
  lies inside of one (`SectionInside`); so a position that control leads to is where a
  section begins, the translation of positions to sections (`SectionOf`) leaves links what they were (`EntriesAre`), and a section's
  links are its last instruction's successors (`LeadsToIs`). `NoOpRemovalIsCorrectOnStraightCode`: the runs of both codes
  agree but for slots that are *stale*, written by an instruction that went and not yet
  written again; no instruction that stays reads a stale slot, and none is left when straight
  code ends. All for every program, parameter, world and number of steps.
* **NativesProofs.** `SessionsLive` and `OneAnswerOnly`, for any number of sessions, pieces and
  any depth. The invariant behind both (`WebInvariant`) ties the three views of a session together: who
  waits for a client, the coroutine's state and the pending write on one side, the
  pointer that goes with each on the other; and that `sending` is empty exactly as long as no
  answer was offered, which is what makes "at most once" survive handlers inside of handlers.
  `Ownership`, for any number of callbacks. The property is inductive as it stands,
  given the types (`NetInvariant`). Of the module cache, `Flags` (the load lock is held exactly
  while the one loader call runs) is inductive by itself; with it, a cached value is never
  replaced, hence `Imports`; `Implementation` maps every step to one of `ModuleTable` or a stutter.
* **NaturalInduction** (lemmas of mathematics that the other proofs cite). The passes and the runs are functions defined by recursion over
  positions and steps. The library's induction theorem takes an operator as a parameter, which
  the provers cannot instantiate; this module derives, from the well-foundedness of `<`, a
  statement about sets (`InductionOnNat`) and the existence and uniqueness of functions on
  `0 .. N` (`RecursionExists`, `RecursionIsUnique`), which they can. `Fuel`, the number
  of steps, and the length of the code are the parameters inducted on.

Only model-checked:
* `RejectsWhatIsInvalid`, `UnitIsComplete`, `GeneratedCodeKeepsTheMeaning`: what the generator makes
  of a tree and what a tree means are recursive over trees (`RECURSIVE` operators, with which the
  prover does no arithmetic, and an induction over data).
* `WhatIsWrittenIsRead`, `NothingIsDropped`: they compare the text with the tree that is read, written
  out again by `Spell`, which is recursive over trees, too. (Where the parser is in its text and
  what it reports does not depend on the trees: that is proved.)
* `CollectionTerminates`, `EveryProgramEnds`, `EveryResponseIsWritten`: liveness.

Only proved, not run: the balance of calls when loaders run code (`LoadersRunCode`).

## 5. Disagreements

Three have a run that shows them:

* `class_instance` fields are collected by the second collection (`std_module.cpp:129`):
  `gc_fields`.
* Distant integers compare wrongly (`value.hpp:77`): `arith_comparison`.
* `remove_no_ops` removes the return value if a later write to slot 0 is jumped over
  (`remove_no_ops.cpp:88`): `opt_return`.

Others are visible in the models. Those that a property would otherwise fail for are excepted by
a named condition:

* A failing `push_back` in `commit_object` leads to a second deallocation (`raw_storage.hpp:30`);
  `GarbageCollector` stops there.
* `x - min` overflows while it is checked (`interpreter.cpp:368`): `SubtractionIsExactUnlessMin`, a part
  of `SumsAreExact`.
* `fold_constants` folds additions that overflow, and their error is gone
  (`local_constant_tracker.cpp:69`): `FoldingKeepsMeaning` speaks of runs without that error.
* `remove_no_ops` does not see the operands of `not`, `negate`, `invert` (`remove_no_ops.cpp:50`)
  nor the arguments of calls (`:66`) as reads: `IsStraight`. With `-O`, p0c hence changes what most
  programs do.
* The graph of sections misses the link from a section into a following jump destination
  (`analyzation.cpp:51` leaves the loop without a destination), and links the last section to the end of the code even if it
  ends with a jump elsewhere (`:119`): both excepted in `SectionGraphIsTheFlow`. Nothing uses the graph yet.
* A literal counts as too large only if a digit makes the wrapped value smaller
  (`rvalue_generator.cpp:100`); others that do not fit are compiled to their wrapped
  value: `IsUnchecked`. `test/semantic_error.cpp:53` has one that is noticed.
* `||` generates no code, for its operands neither (`rvalue_generator.cpp:509`, a TODO): `IsUnchecked`,
  `HasGap`.
* In `x = t[x]` the table is evaluated into `x` before the key is read (`rvalue_generator.cpp:569`):
  `HasGap`.
* Nothing ends a statement: a line that begins with `(`, `[` or `-` goes on the one before it:
  `GoesOn`.
* The range of a `>>>` token begins one character late (`scanner.cpp`): `Begin`.
* The end of a posted handler takes away the owner of other handlers of the same object
  (`net_module.cpp:24`): `finished` in `CallbacksAreOwned`. As long as running a callback is not implemented, it does no harm.
* `respond` may not be called after its handler has returned (`tempest_module.cpp:306`): the model's
  p0 code does not. A session that got no answer is destroyed inside of its own coroutine
  (`tempest_module.cpp:157`), which no property speaks of.

## 6. Not modelled

* `module_loader`: a loop over decoders of which none exists.
* Native classes and objects (`native_class.hpp`, `native_object.hpp`, `expose`): templates that
  convert C++ types. They keep no state of their own. The standard module's `assert`, `to_string`, arrays'
  methods and `enumerate` read or write one object in one step.
* Roots of native code: native methods, `enumerate` and the module cache hold references that the
  collector is not told of (`std_module.cpp:99`, `:256`, `module_cache.cpp:98`). No program can collect
  while they do: only a host calls the collector, and the command line programs never do.
* Hash codes and the order of a hash table; string escapes; `pretty_print_error`; `save_unit`, whose output
  nothing reads.
* Runs with an interpreter listener, which nothing in the repository sets: `raise_error` then calls it
  and returns instead of throwing.
* The command line programs: options and files.
* `inlining.cpp`, an empty stub.

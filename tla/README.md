# A TLA+ model of AliluOS

AliluOS is a bare-metal x86_64 kernel in Rust: a shell over an in-memory
filesystem, a VGA text screen, a PS/2 keyboard, a heap allocator and a few
full-screen programs. It has one CPU, one thread and two interrupts. This
directory models its core, checks it with TLC and proves what matters most
with TLAPS. References of the form `fs.rs:79` are to `src/src/fs.rs`.

## The system

| Part | State | Operations | Talks to |
|---|---|---|---|
| Scancode ring (`interrupts.rs:13-50`) | array of 256, head, tail | push, pop | IRQ1 handler, `pop_scancode` |
| IRQ1 handler (`interrupts.rs:379-412`) | none | read port 0x60, push, EOI | controller, ring |
| Keyboard driver (`keyboard.rs`) | modifier flags | `read_key`, `translate` | ring, ports 0x60 and 0x64 |
| Kernel loop (`kernel.rs`) | driver and shell | `run`, `handle_key_event`, `handle_key_press` | driver, shell |
| Shell and editor (`shell.rs`) | line, mode, cwd, editor's name, text and `save_pending` | one handler per key, one branch per command | filesystem, screen, programs |
| Filesystem (`fs.rs`) | nested maps from names to nodes | create, write, read, list, delete, resolve | shell, `git_clone` |
| Heap allocator (`allocator.rs`) | size-class lists, sorted region list | `alloc`, `dealloc`, `init_heap` | every `String`, `Vec` and map |
| Screen (`vga.rs`) | cursor, colours, 80x25 cells | write, newline, scroll, backspace | everybody who prints |
| Spinlocks (`vga.rs:313-379`, copies in `fs.rs`, `allocator.rs`) | one bit | lock, drop of the guard | screen, filesystem, ring, heap |
| Programs (`game.rs`, `network.rs`) | local to each | loops that read keys themselves | ring, ports, screen |
| Browser (`network.rs`) | query, results, scroll offset | one branch per key | HTML parser, simulated network |
| HTML parser (`network.rs:300-381`) | the variables of one pass | `parse_html` | browser |
| `WebBrowser` (`network.rs:427-482`) | address, two stacks of pages | navigate, back, forward | no one yet |
| Network (`network.rs`) | local values | simulated | nothing outside the kernel |
| Boot and exceptions (`main.rs`, `interrupts.rs`) | GDT, IDT, PIC, PIT | set up once; print and halt | screen |

Interaction is by call, except at two places: the IRQ1 handler may start
between any two instructions of the kernel and shares the ring and port 0x60
with it, and the programs read the ring without the keyboard driver.

What is hard in it:

* interleaving of handler and kernel over the ring, its lock and the port;
* spinlocks that are not reentrant, in code that calls itself across modules;
* long sequences of allocations, where one wrong split or join shows up much later;
* state kept by name and resolved again later (cwd, the file in the editor);
* bytes that somebody else has read (modifiers released inside a program);
* arithmetic at an edge: wrapping indices, padding, subtraction of bytes, a full row;
* two copies of one thing that have to agree: the text and the screen, the flags
  and the keys, a pass with flags and the page it reads;
* the order of the boot sequence, with a keyboard that does not wait for it.

`PROJECT.json` lists every hazard with its line and the properties that cover it.

## Modules

| Module | Models | How state and actions correspond |
|---|---|---|
| `ScancodeQueue` | what the ring promises | a sequence of at most `Capacity` bytes |
| `ScancodeBuffer` | the ring | `buffer`, `head`, `tail` are the fields; `Push` and `Pop` the methods; `popped` is what the last `pop` returned |
| `Boot` | controllers, interrupt flag, and how `_start` sets them up | `port`, `obf`, `irr` and the rest are the hardware; `SetupIdt`, `SetupPic` and `Sti` are its steps, one per byte written |
| `InputPath` | ring, lock, handler and `read_key`, on the machine of `Boot` | `pc` is the next step of `Kernel::run`, `irq` the handler's |
| `Heap` | what an allocator promises | the blocks in use |
| `HeapLayout` | addresses, alignment, size classes | the constants and arithmetic of `allocator.rs` |
| `Allocator` | the allocator over sets | one action per path through `alloc` and `dealloc` |
| `LinkedAllocator` | the allocator over its lists | `regions` is the sorted list, `blocks` the stacks of `list_heads` |
| `FileNames` | names and bounds of the next three | constants only |
| `FileTree` | the filesystem as a function from paths to contents | one action per operation |
| `FileSystem` | the nested maps of `fs.rs` | `root` is the map of the root; `FindNode` walks as the code does, `Rebuild` carries a change back up, `Flatten` is the tree the maps mean |
| `Shell` | commands and editor over `FileTree` | `mode`, `cwd`, `editor_*`, `save_pending` are the fields; one action per command and per kind of key |
| `Teletype` | what a text screen promises | the end of a roll of paper: full rows, and the line being printed |
| `Screen` | the screen of `vga.rs` | `row`, `column`, `cells`, and `cursor`, the hardware's; one action per method |
| `Typing` | command line and editor text, over `Screen` | one action per handler; `out` is what the handler has still to print, character by character |
| `Keyboard` | the driver's flags and `translate` | the flags are the fields; `event` is what `translate` returned |
| `Session` | who gets which byte | `foreground` says whether the loop or a program reads; `handler` is the shell's method the last key went to |
| `Console` | the locks on every path | each path is cut into pieces, a piece is a sequence of lock operations, key reads and allocations; a panic or an exception may come in between |
| `Chess` | the chess game | `board`, `turn`, `input_buffer` are the variables of `start_chess` |
| `Canvas` | the drawing program | `cursor_x`, `cursor_y`, `grid` are the variables of `start_canvas`; `dots` is a history of where dots were put |
| `Html` | `parse_html` and `decode_entities` | `Read` is one turn of the loop on a token, `Finish` what follows it; `Found` says what a page holds, without a pass over it |
| `Browser` | `start_browser` and the search | `query`, `results`, `scroll_offset` are its variables; one action per branch |
| `Visits` | what a history promises | a row of pages and a place in it |
| `WebBrowser` | the history of `WebBrowser` | two stacks and the address are the fields |
| `Applications` | the programs of the last six rows, one at a time | their state is local to a call, so a behaviour is one run of one program; Escape leaves it |

`InputPath` extends `Boot` and instantiates `ScancodeBuffer` (with the reader's
`code` for `popped`), `Shell` instantiates `FileTree`, `Typing` extends `Screen`,
`Session` extends `Keyboard`, `Browser` extends `Html`. The refinements: `FileSystem`
of `FileTree`, `LinkedAllocator` of `Allocator` of `Heap`, `ScancodeBuffer` of
`ScancodeQueue`, `Screen` of `Teletype`, `WebBrowser` of `Visits`. The `*Proofs` modules
extend the modules whose theorems they prove: `FilesProofs` those of `Shell` and
`FileSystem`, `KernelProofs` those of `Session`, `Console` and `Typing`,
`ApplicationsProofs` those of the programs, the others the one they are named for.
`SequenceLemmas` has the inductions over lists that they share. The `MC*` modules and their `.cfg`
files are the instances for TLC.

An operator marked "Slip" is not the code. It is a mistake one could make in the
definition that follows it; putting it in the place of that definition makes
the property named for it in `PROJECT.json` fail, which shows that the property
looks at that part of the code.

### What is abstracted

* **One step.** The filesystem's lock, the screen's lock inside a shell command
  and the allocator's lock are each held from the first step of an operation to
  the last, and the handlers of interrupts touch none of them; so in `Shell`,
  `FileSystem` and the allocator an operation is one action. Where the lock
  itself is the question (`InputPath`, `Console`) it is a variable.
* **Bytes.** `InputPath` numbers the bytes of the keyboard in the order they are
  sent. `Session` has keys and the release bit, and only what kind of key it is.
* **Names and texts.** Names are records of a stem and an extension, as far as
  `normalize_and_validate_filename` looks at them; texts are model values in
  `Shell` and sequences of characters in `Typing`, which is about them.
* **Paths.** An argument comes as its segments. A path that ends in a slash is
  left out, apart from `/` itself: `normalize_and_validate_filename` would add
  its extension to the empty name behind the slash.
* **Locks of the pieces.** In `Console`, what is drawn between lock and unlock is
  left out. An allocation stands where the code makes it, with the locks held
  there; a row of allocations with the same locks is one.
* **Printing.** In `Typing` a message is one character, and so is the prompt; a
  program draws one cell before it ends. Colours are left out.
* **Pages.** A page is a sequence of tokens: a tag the parser knows is one token,
  and "<" and ">" with anything else between them are tokens of their own, so
  that a tag may be left open or closed twice. Of the pieces of text those are
  told apart that trimming and decoding tell apart.

## Runs

Every run but the three marked "violation" ends without an error. Deadlock is
checked except where the system may really stop.

| Run | Question | Bounds, and why they are enough |
|---|---|---|
| `scancode_buffer` | is the ring a bounded queue? | 4 slots, 3 scancodes: head and tail wrap, meet full and meet empty at every offset |
| `input_path` | what can boot and the race of handler and reader do to a byte? | 3 slots, 5 bytes: fills, wraps and refuses, and a byte may come before any step of the boot sequence. Stops at the last byte, or in the collision, so deadlock is not checked |
| `input_drain` (violation) | does the handler keep the controller empty? | 3 bytes |
| `allocator` | do the lists implement the sets, and the sets an allocator? | heap of 36 bytes at an odd address, node of 4, classes 4 and 8, three small and two large layouts, one of the small aligned to a whole block and one large by its alignment: all cases of splitting, padding, joining on one or both sides, and exhaustion (after which the kernel has panicked: no deadlock check) |
| `allocator_leak` (violation) | does the heap come back? | the same heap, two large layouts: one of odd size, and one that leaves a gap before it |
| `file_system` | do the nested maps mean a tree? | 2 names, 3 levels, 5 nodes |
| `shell` | what can a sequence of commands and keys do? | 4 names that collide under normalisation, 10 arguments with `..`, `/` and nesting, 2 levels, 3 nodes: files and directories under colliding names, deleted under the cwd |
| `session` | do flags and shortcuts follow the keys? | one key of each kind that is treated differently and a second Shift, at most 3 held (both Shift keys and a letter), one byte on its way at a time: a longer line delays bytes but does not change their order |
| `console` | can a lock be asked for twice, or be held while waiting? | all pieces; the kernel halts after a panic and hangs in Breakout, so deadlock is not checked |
| `breakout` (violation) | does Breakout get to poll the keyboard? | the pieces on the way to it |
| `typing` | do text and screen agree? | 3 columns, 2 rows, lines and texts of up to 3 characters over a letter, a blank and the newline: with prompt and message every line wraps, everything scrolls and backspace goes back over the edge of a row; the commands are `q` and `qq`, so that one is part of the other and of typed text, with blanks before, behind and around it |
| `applications` | what can a program's input do? | chess: keys e, 2, 7, 8, 9 and an unknown one, lines of 5 characters, 3 moves (the code takes 10 characters; 4 make a move); drawing of 3 by 2 cells, where a wrong stride shows; queries of 3 characters, and an argument of 4, longer than may be typed; 4 pages of history; every page of 5 tokens with 2 link numbers, so that the number of a bracket wraps. Ends when a program is left or panics, or the page is read: no deadlock check |

What they show:

* **Input.** `LockDiscipline`, `NothingLost`, `BufferedInOrder`, `AtMostTwice`: in
  every interleaving no byte vanishes, the ring is in order, and the race for the
  port can at worst deliver a byte a second time. `EveryByteAnswered`: each byte
  is delivered or refused by a full ring, unless the handler ever interrupts
  `pop_scancode`. That takes the polling of `read_key`: the request for a byte
  sent during boot is wiped out by `setup_pic`, and without the poll neither that
  byte nor any later one would be read. `NeverAstray`: no request is taken before
  gate and controller are ready for it.
* **Heap.** `NoOverlap`, `FreeListSound`, `AllocatorRefinement`, `HeapRefinement`: no byte
  has two owners, nodes always fit, touching regions are always joined, and every
  block is aligned as asked for.
* **Files.** `NestRefinement` and `LookupsAgree` for the nested maps: every operation
  changes the whole tree as its path says and nothing else, and every lookup
  answers what is there; `ResolveIsLexical` and `TreeRefinement` for what the shell
  does with them.
* **Editor.** `SavesWhatWasOpened`, `OpenedFileStays`, `ArmedInThisSession`: the path
  resolved again at the save is the file that was opened, the file is still
  there, and a Ctrl+S of an earlier session does not count. `SavesUpToTheCommand`,
  `NoCommandLineInside`: `:wq` saves the text up to its own line, whatever blanks
  that line has, and no command is ever left inside a text or a file.
* **Screen.** `ScreenRefinement`: rows, cells and cursor are the end of a roll of paper.
  `LineOnScreen`: the command line always stands on the screen as typed, and the
  editor's text since the cursor last came to a place the text does not know.
* **Keys.** `FlagsFollowKeys`, `CapsOncePerPress`, `LettersAsTyped`,
  `CtrlOnlyWhileHeld`: flags, case and shortcuts follow the order of the bytes,
  also when a program has read some of them, as far as it can be; and what two
  keys that share a flag can do to it.
* **Locks.** `PollsWithoutLocks`, `LocksComeFree`, `PanicIsShown`: who waits for a key
  holds no lock, every lock comes free except in Breakout and after a panic or an
  exception, and its message is shown unless the screen was locked when it came.
* **Programs.** `OnlySquaresMove`, `SquaresNeverPanic`: wrapped bytes never name a
  square, a move is one of the player to move and passes the turn, without a move
  the turn stays, and a line that names two squares never panics. `checked` chooses between
  the debug build that the repository's README describes and a release build.
  `DotsStay`: a dot stands where it was put. `FindsTheText`: the pass of `parse_html`
  finds what a page holds. `HistoryRefinement`: going back and forward loses nothing.
  The type invariant says that the results are never scrolled past their end.

### Disagreements between code and comments

Three runs show that the code does not do what a comment promises.

1. `input_drain`: the IRQ1 handler spins on the lock held by the `pop_scancode` it
   interrupted (`interrupts.rs:409`, `:421`); the comment at
   `interrupts.rs:398-399` says this handler keeps the controller from locking up.
2. `allocator_leak`: `dealloc` returns fewer bytes than `alloc` took
   (`allocator.rs:330` against `:202`); the comment at `:314` says it prevents leaks.
   The gap before an aligned block is dropped from the free list and never returns
   either (`:189-193`, `:245-256`).
3. `breakout`: `print_num_at` locks the screen its caller has locked
   (`game.rs:213`, `:276`); the comment at `game.rs:15` has Breakout poll the keyboard.

Others seen while modelling, without a run of their own:

* `read_key` polls the port although an interrupt for the byte may be pending
  (`keyboard.rs:127-131`), and a byte may be delivered twice; the comment at
  `:119-120` says it does not poll. `AtMostTwice` bounds it.
* `delete` takes the working directory too, and `back` does not ask whether the
  parent exists (`shell.rs:385-393`), so that cwd may name a directory that is gone;
  what is done there then fails and changes nothing.
* A save that fails discards the text (`shell.rs:117-127`, `:244-253`).
* Backspace over a newline in the editor goes back one cell, not to the end of the
  line above (`shell.rs:177`, `vga.rs:183-186`); a message of Ctrl+S is printed into
  the text (`shell.rs:100`). Until the next newline the two differ.
* `git clone` reports success when `/git` is a file (`network.rs:402`).
* A modifier whose release a program has read stays set until its next byte; two
  Shift keys share one flag (`keyboard.rs:185-188`).
* A panic or an exception while the screen is locked is never shown: its handler
  spins on the lock (`main.rs:41`, `interrupts.rs:308`).
* The release of Enter answers "Press any key to start" (`game.rs:102`, `:159`, `:333`).
* `exit` cannot be typed in chess: `x`, `i` and `t` are no characters there
  (`game.rs:58-80`, `:386`). Escape works.
* `&amp;lt;` is decoded twice and comes out as `<` (`network.rs:376-377`); `<a>` without
  an address keeps the address of the anchor before it (`network.rs:345-352`). `Found`
  describes both as they are.
* Several comments speak of a heap of 100 KiB; it has 5 MiB (`allocator.rs:12`).

## Fairness

Four runs rest on fairness (`input_path` and `console`, and the violations
`input_drain` and `breakout`). It says that the CPU executes instructions as long
as it is on: `WF(Kernel)` for the boot sequence and the loop, and in `InputPath`
`WF(Irq)` because the interrupt gate runs to its `iretq` and the CPU takes a pending
interrupt while interrupts are enabled (`main.rs:76`; no code disables them
afterwards). The kernel's actions are disabled while a handler runs, so weak
fairness of both does not promise the kernel a step between two interrupts.
Neither the keyboard nor the user owes anything: `Keyboard`, `Input` and `User`
have no fairness, and neither have `OutOfMemory` and `Fault`. A spin on a lock is
an action that is not enabled; no fairness makes it succeed.

## Proofs

The theorems hold for every value of the constants that satisfies the named
assumptions, which TLC evaluates in the runs. They say no more than the code
does: sizes are positive (`NAssumption`, `SizeAssumption`, `CanvasAssumption`), bounds of
the instances are numbers (`BoundAssumption`, `HistoryAssumption`,
`MaxBytesAssumption`), values that stand for different things differ
(`ContentAssumption`, `CharacterAssumption`, `KindAssumption`, `TokenAssumption`), names are closed under
what the shell makes of them (`NameAssumption`), the editor's commands are two
words that fit into its text (`CommandAssumption`, `TextAssumption`), the layouts are
such as Rust allows (`HeapAssumption`, `BlockAssumption`, `LayoutAssumption`).

Lists, folds and flattenings are recursive functions in the community modules.
What they compute is proved all the same: `SequenceLemmas` has a least number
in every set of numbers, so that what holds of 0 and goes from each number to
the next holds up to n (`UpTo`), the existence of the function that a fold
applies (`FoldExists`), and what one more list adds to a flattened row of them
(`FlattenNext`). For the same reason `FileSystem` writes its walks as
functions on the places of a path.

* **`ScancodeBufferProofs`**: `TypeCorrect`; `RingImplementsQueue`. The lemmas say what
  push and pop do to `Contents`, the sequence read from `tail` to `head`; the
  modulus is first turned into a case distinction (`SuccIf`), so that the rest is
  linear arithmetic.
* **`InputPathProofs`**: `TypeCorrect`, `LockHeld`, `NothingEverLost`, `RingInOrder`,
  `NeverMoreThanTwice`, `NeverGoesAstray`. The lemmas about the ring come from `ScancodeBufferProofs`
  through an instance. `NothingLost` and `BufferedInOrder` are inductive together
  with `TypeOK`, because they name every place where a byte can be and bound the
  ring by the byte in the handler's hands. For `NeverAstray` the invariant says what
  each step of the boot sequence has left behind in gates and controller. For
  `AtMostTwice` it counts: the copies of the last byte, wherever they are, and the
  reads of the port that may still come before the next byte are together at most
  two; `TimesAppend` and `TimesTail` say how a ring operation changes such a count.
* **`AllocatorProofs`**: `InvHolds` for the conjunction `Inv` of types, `NoOverlap`,
  `FreeListSound` and `BlocksAligned`; from it the four as theorems, and
  `KeepsPromise`: every step is one that `Heap` allows. `JoinGood` and `AddGood` say
  that adding a region disjoint from the free ones keeps a list of disjoint,
  separated regions and adds exactly its bytes; `FallbackGood` that what is taken
  lies in one region. None of the four is inductive alone: disjointness needs the
  types, separation needs disjointness.
* **`LinkedAllocatorProofs`** carries all that to the lists of the code:
  `ListsImplementSets`, and through it `ListsNeverOverlap`, `ListStaysSound` and
  `ListsKeepPromise`. Its invariant adds to that of the sets that the region list is
  sorted and that no address is twice in a pool. `AddIs` is the heart: walking
  to the place of a region, linking it and joining it with its neighbours leaves
  the sorted list of what joining sets leaves, in all four cases; `FirstIsLowest`,
  that the first fit of the list is the lowest fit of the set; `FallbackIs` and
  `Unlinked`, that taking a region out of the list takes it out of the set.
* **`FilesProofs`**, the nested maps: `NestImplementsTree` and `LookupsAlwaysAgree`. The
  invariant is `Nest`: whatever path is walked, the walk ends nowhere or at a file
  or a directory of names. Then `TreeIs` says of `Flatten`, which goes level by
  level, what is at each path: what `FindNode` finds. `OnTheWay` and `Aside` say what
  is found after a change below a directory: on the way to it the directories
  that were there, with the changed one at the end, and everywhere else what was
  found before, so no sibling is lost. `RebuildChanges` puts them together for one
  name, and `InsertStep` and `DeleteStep` turn that into the operations of `FileTree`.
* **`FilesProofs`**, the tree and the shell: `TypeCorrect`, `AlwaysClosed`;
  `ShellTypeCorrect`, `CommandsAreOperations`, `ShellKeepsTreeClosed`; `AlwaysLexical`;
  `AlwaysArmedHere`, `AlwaysSavesWhatWasOpened`, `AlwaysOpenedFileStays`. For
  `AlwaysLexical`, `Places` is inductive along an argument: the stack of segments
  after k items are those items that still stand, each as high in the stack as
  names exceed `..` after it. The invariant behind `AlwaysSavesWhatWasOpened` says
  that in the editor `opened` is what the editor's name resolves to from the cwd,
  which no key of the editor changes.
* **`KernelProofs`**, the keys: `SessionTypeCorrect`; `FlagsAlwaysFollow` for any number of
  keys to a modifier; `LettersAlwaysAsTyped`, `CapsTurnsOncePerPress` with one key that
  the driver takes for CapsLock (`OneCapsLock`; the driver knows one code, 0x3A);
  `CtrlAlwaysHeld`. Their invariant says that until a program takes a byte the flags
  are what the bytes add up to.
* **`KernelProofs`**, the locks: `AlwaysPollsFree`. From every place of every piece the
  rest of the piece has a `Plan`: a sequence of sets of locks that the remaining
  operations go through, none of which is held where a key is looked for. Every
  piece fits such a plan when it is chosen, with or without failing
  allocations, and each step uses up its first operation.
* **`KernelProofs`**, text and screen: `TypingTypeCorrect`; `NeverCommandLineInside`, which
  is inductive by itself; `AlwaysSavesUpToTheCommand`; `ScreenIsPaper`, which needs that
  behind the cursor the screen is blank (`Clean`), but for what a program has drawn,
  which is wiped before anything is printed (`Drawing`); `LineAlwaysOnScreen`. The
  invariant of the last, `LineInv`, says at every character on its way to the screen
  which part of the line is there already: `Ends` compares the cells in front of
  the cursor with the end of a text, and scrolling, wrapping and rubbing out
  keep it.
* **`ApplicationsProofs`**: `ChessTypeCorrect`, `OnlySquaresEverMove`, `SquaresNeverEverPanic`,
  `TurnsAlwaysAlternate`. `MoveIsOwn` has what a move does to the board. The arithmetic is in `RowIsRank` and `ColumnIsFile`: of the
  characters of the game only `1` to `8` and `a` to `h` lead to the board, wrapped or not.
  `DotsAlwaysStay` for the drawing: rows of the grid do not overlap (`RowsApart`), so
  that two points never share a cell. `HistoryImplementsVisits`: `RowPages` says of each
  place of the row which stack it comes from; `MoveKeepsRow`, that moving a page
  from one stack to the other does not change the row. `TypeCorrect` holds for the
  results of the browser because the pass of `parse_html` numbers its links without
  a gap on every page (`ParsedPage`). `WhicheverProgramRuns` brings the theorems of the
  single programs to `Applications`.
* **`ApplicationsProofs`**, the text of a page: `AlwaysFindsTheText`, for pages of any
  length. `FindsTheText` compares the end of a pass with the whole page and is not
  inductive. `Abreast` is: between two tokens the parser's flags and target are those
  the page so far gives to its end, the buffer holds the pieces since the last
  break, and lines and links are those of the breaks passed. `MarksNext`, `TextNext`
  and `ItemsNext` say how each part of the definition grows by a token, and that what
  stands before it is not told anew; `FlushIs` and `CloseIs`, what the parser does.
  `DecodedIs` says of `decode_entities` that its two rounds of `str::replace` give what
  one round gives, unless an ampersand that is an entity itself makes a new
  entity (`Twice`): character by character, as long as nothing is pending at the end.

Only model-checked are the temporal properties `EveryByteAnswered`, `LocksComeFree`
and `PanicIsShown`, since liveness and `ENABLED` are out of the prover's reach, and the
violations. Every other property of a passing run has a theorem.

## Not modelled

* GDT and PIT: straight-line register setup the input path does not depend on.
* The timer handler: it adds one to a counter that is only printed.
* The PCI scan and the network card: the scan stores an address no code uses.
* TCP, DNS and HTTP are simulated in the code: `connect` and `send` change fields of
  a local value and the answer is a constant page. `Browser` has what they answer;
  there is no protocol behaviour beyond it.
* Ball and bricks of Breakout: no execution gets there.
* `clear_line`, `set_cursor_position`, `show_cursor` and `hide_cursor` of `vga.rs`, and the
  mode `HelpViewer`: nothing calls or enters them.
* `WebBrowser::render`, which only prints.

## What could follow

1. `InputPath` with `Session`, so that a byte delivered twice reaches the flags.
2. The screen inside a program, with the title lines it prints before it draws.

# A TLA+ model of the key/value server

The program is a network key/value server written in C++ (`server_main.cpp`,
`server.cpp`, `client_connection.cpp`, `table.cpp`, `value_stack.cpp`), its
message layer (`message.cpp`, `message_serialization.cpp`), three clients
(`get_value.cpp`, `set_value.cpp`, `incr_value.cpp`) and the buffered I/O both
sides use (`rio_*` of `csapp.c`). Every connection has a
thread; the threads share named tables, each protected by a mutex; a connection
computes on a private stack and can group requests into transactions.

## The system and its parts

| Part | State | Operations | What makes it correct |
|---|---|---|---|
| `Table` | `theMap` (committed), `tempMap` (pending), `m_mutex` | `set`, `get`, `has_key`, `commit_changes`, `rollback_changes`, `lock`, `trylock`, `unlock` | the two maps together are one map that can be edited and then kept or taken back; used only under the mutex; clean when the mutex is free |
| `ValueStack` | `stk`, `total` | `push`, `pop`, `get_top`, `is_empty` | the count is the length, so the guards on it protect `stk` |
| `Server` | `server_tables`, `tables_mutex` | `find_table`, `create_table`, `server_loop`, `client_worker` | a name denotes one table for ever; a new table disturbs no one |
| `ClientConnection` | `logged_in`, `client_stack`, `transaction_mode`, `locked_tables`, `response` | one handler per request, `handle_table_locking`, `commit_tables`, `rollback_tables` | mutual exclusion, isolation of uncommitted changes, no thread waits for ever, failures are answered |
| `Message`, `MessageSerialization` | type and arguments | `encode`, `decode`, `is_valid` | `decode` inverts `encode` on messages that keep to the format, and an accepted line means one message only |
| `csapp` (`rio_*`) | `rio_buf`, `rio_cnt`, `rio_bufptr` | `rio_writen`, `rio_read`, `rio_readlineb` | the lines read are the messages written, whole and in order |
| clients | place in a fixed script | `LOGIN`, requests, `BYE` | no increment is lost, nothing uncommitted is printed, a client ends and leaves nothing locked |

Interaction: a thread reads a line, decodes it, and calls the handler; handlers
call `find_table`/`create_table` (one `tables_mutex` critical section each) and
the methods of a `Table *`, which they keep after the critical section. The
only other shared state is the tables' mutexes. Failures travel as C++
exceptions to the handlers at the bottom of `chat_with_client`.

What is hard here: threads interleave between `find_table`, `lock`, the use of
the table, `commit_changes` and `unlock`; a transaction holds several mutexes
over several requests, may fail at a `trylock`, at an operation, or by losing
its client; exceptions cut across locking; a lookup and the creation that
follows it are separate critical sections. Clients talk to the server in several
requests, wait for every answer without a time limit, may be killed anywhere,
and may find the server gone; the bytes between them arrive in any pieces.
`PROJECT.json` lists these hazards
at their lines with the properties that watch them.

## Modules

* `StringValue`: strings, abstracted to identity, emptiness and what
  `std::stoi` reads from them; `int` and `int64_t` with parametric width; the
  four arithmetic operations. C++ division truncates.
* `Table`: the operations of class `Table` as operators on
  `[theMap, tempMap]`. `get` includes what the code really does with a missing
  key: the comparison of iterators of two different maps never holds, so the
  key is inserted into `theMap` with an empty string.
* `TableObject`: a `Table` as a state machine, any sequence of calls.
  `StagedMap` is its abstract specification; `TableObject!ImplementsStagedMap`
  is the refinement. `MCTable` is the instance TLC checks.
* `ValueStack`: the stack, and `pop_two_values`, which removes operands before
  it checks them.
* `Server`: the shared state and the critical sections. A `Table` object is
  named by its name and its creator, so that two objects made for one name are
  two objects.
* `ClientConnection` (the core): the threads. A control point `pc` marks where
  a thread can be overtaken. Everything between two accesses to state another
  thread can reach is one step:

  | `pc` | next step | code |
  |---|---|---|
  | `reading` | a request arrives and is dispatched, up to the first shared access after `find_table` | `chat_with_client`, lines 32-106 |
  | `creating` | `create_table` | 134-138 |
  | `locking` | `lock`, a lock already held, or `trylock` | `handle_table_locking` |
  | `working` | `get`, or the stack test and `set` | 181-182, 205-215 |
  | `finishing` | `commit_changes` and `unlock` of a single request | 185-188, 218-221 |
  | `committing`, `rolling` | one table of `commit_tables`, `rollback_tables` | 291-307 |
  | `replying` | the response is written; next request, or the connection object is destroyed | 124, 261-266, `server.cpp` 83-93 |

  `AutoCommit`, `CommitTable` and `RollbackTable` each take a change of the maps
  and the `unlock` together: until the unlock, no other thread looks at the
  maps (`TablesChangeUnderLock` is that statement, for every step).
  `process` records what ended the server: an exception no handler matches
  (`FailedTransaction` thrown by a handler, `out_of_range` from `decode`) or a
  signal (`SIGFPE`, `SIGPIPE`). Nothing runs afterwards.
* `AtomicStore`: what the server promises of its tables. A unit of work (a single
  GET or SET, or a transaction) takes the tables it uses, edits copies of its
  own, and either publishes all of them in one step, or gives them up. No other
  unit sees anything in between.
* `StoreRefinement`: how a state of `ClientConnection` is read as one of
  `AtomicStore`: the committed maps, except that the tables a thread still has to
  go through in `commit_tables` already count as committed;
  `TransactionsAreAtomic` is the refinement.
* `MCConnection`: instances for TLC; one set of requests per question.
* `Protocol`: the message types and how many arguments each has.
* `MessageSerialization`: `encode`, `decode` and the rules of `Message::is_valid`
  on text, a character at a time, including what `decode` throws. Characters
  are classes the code tells apart; a command word is one character, which keeps
  whole messages within reach of a few. `MCSerialization` builds every text and
  states the properties.
* `Clients`: the three programs, each a script of requests and one client of a
  connection of `ClientConnection`, which it `EXTENDS`: `Arrive` is a server step
  whose request is the one the client wrote, `Answer` delivers the response.
  `phase` is where a program is: about to write, in `rio_readlineb`, or how it
  ended. `Kill` ends a program from outside; `reset` says that the server's
  next write to that client raises `SIGPIPE`. `LoseServer` is a read on a
  connection whose server closed it or died; `get_value`, which in two places
  does not stop at a failed read, may go either way there. `MCClients` has the
  casts TLC runs. `seen` is a history variable for `PrintsWhatWasCommitted`.
* `Rio`: one direction of a connection at the level of bytes: `rio_writen` with
  partial and interrupted writes, the kernel's bounded stream, `rio_read` with its
  buffer and `rio_readlineb` with its limit. `LineChannel` is its abstract
  specification, a queue of messages. `MCRio` is the instance.
* `DataLemmas` (the operators of tables, stacks and strings), `TableProofs`,
  `ConnectionProofs`, `StoreProofs`, `ArithmeticProofs`, `ClientsProofs`,
  `RioProofs`, `SerializationProofs`: the proofs.

Operators whose comment starts with "A plausible slip" are not part of any
specification: each is what a definition would be with a likely mistake in the
code, and with it the property it belongs to fails.

## Runs

| Run | Instance | Shows |
|---|---|---|
| `table` | 2 keys, 2 strings | `TableObject` implements `StagedMap` for every order of calls |
| `locking` | 2 connections, 2 existing tables, 1 key, SET on both, GET on one, BEGIN, COMMIT, PUSH; no faults; fair threads | mutual exclusion (`LocksAreHeld`), no uncommitted change survives an unlock (`UnlockedTablesAreClean`), no hold-and-wait (`WaitersHoldOnlyLeaked`), nothing uncommitted is visible (`OnlyCommitsAreVisible`), and every transaction takes effect at one moment although `commit_tables` goes table by table (`TransactionsAreAtomic`); a request inside a transaction is answered whichever tables the others hold (`TransactionsNeverWait`) |
| `creating` | 2 connections, 1 name nobody has created, input errors anywhere | the inductive invariant `IInv`; tables change only under their mutex, also when `create_table` replaces them; a leaked mutex is never released, and only a SET of an empty stack or the end of a connection with an open transaction leaks one |
| `arithmetic` | 1 connection, 3-bit `int`, operands at both ends, a text, a text with a leading number, all faults | the stack agrees with its count whatever `pop_two_values` takes away before it fails (`TypeOK`); every result fits the double-width type it is computed in |
| `serialization` | every text of up to `MaxLen` + 1 characters, taken as a line and as arguments | which messages come back from `decode` as they were encoded; that an accepted line has one canonical encoding, which fits; that a line whose quotes are closed is read to its end or refused with `InvalidMessage`; where arguments begin and end |
| `clients` | 4 programs on 1 table and key, 3 casts, 1 program may be killed | no increment of a transaction is lost or counted twice (`EveryIncrementCounts`); `get_value` prints what was committed while it ran; only a program killed in a transaction leaves a lock, and without one nobody waits in vain (`WaitersAreServed`); `SIGPIPE` needs one that was killed; every program ends (`EveryClientEnds`) |
| `rio` | 3 messages of 2, 3 and 5 bytes, a stream of 3 bytes, `rio_buf` of 2, a line buffer of 4, 1 signal, crash and reset | the lines read are a prefix of the messages sent (`MessagesArriveWhole`), and all of them if nothing fails (`MessagesArrive`) |

Bounds. Two connections are enough for every pairwise conflict, and the
properties quantify over pairs of a thread and a table; two tables are needed
for a transaction that fails after it has changed one. One stored string
suffices in `locking` because absent, empty and stored values are told apart.
`MaxStack` bounds the stack a *client* builds (the code has no bound): PUSH and
GET are not sent to a full stack. A 3-bit `int` has the same asymmetry
(-4..3) as the 32-bit one. `Early` names tables that clients long gone have
created, a state the server reaches by itself; it saves their creation. In
`serialization` the length limit is a handful of characters, so that lines just
below, at and above `MAX_ENCODED_LEN` all occur: the limit of 1024 matters to
the code only by comparison. In `clients`, `set_value` runs first; the casts put
two transactional increments and a reader against each other, increments of a
text (which fail, and inside a transaction end the server), and a reader with an
unusable name beside increments one after the other. Two increments that
overlap without `-t` can lose one, which no document denies; they are left out of
the casts, and `EveryIncrementCounts` is about the rest. In `rio`, the stream and
the buffer are smaller than a message, and there is a message that fills the
line buffer exactly and one that does not fit. `MaxMessages` and `MaxSignals`
bound that run. In
`creating` the connections are interchangeable (`SYMMETRY`); the run has no
liveness property. `locking` saves the LOGINs: its connections are served without
one, as `FreshLogin` lets them be; `arithmetic` has both kinds, and is where
every fault of the environment happens. Deadlock checking is off where it would report
states in which the server has ended, every connection is closed or every
program has, a text or a stream of messages has its full length, or (a finding)
threads wait for a mutex that is never released.

The other runs show the code doing something else than its documents say:

| Run | Finding |
|---|---|
| `failed_operation` | LOGIN, BEGIN, POP ends the server: `throw FailedTransaction` inside a catch clause (`client_connection.cpp:109`) is not caught by the next clause |
| `set_deadlock` | a SET with an empty stack leaves the table locked (`client_connection.cpp:206-208`); the next SET waits for itself |
| `create_race` | two CREATE of one name both succeed; the second replaces the first's table |
| `missing_key` | `get` of a missing key inserts it (`table.cpp:60-66`) instead of throwing |
| `malformed_line` | a line with a quote that is not closed is not refused with `InvalidMessage` (`exceptions.h:6-8`): `decode` reads past its end (`message_serialization.cpp:87-95`), the `out_of_range` of `at` is caught by nobody and ends the server; in a line of exactly `MAX_ENCODED_LEN` characters the text is dropped and the rest may be accepted |

Four more disagreements are in the model but have no run of their own. A
connection that ends inside a transaction never unlocks its tables (a second way
to break `NoDeadlock`; `LeakIsPermanent` says that nothing repairs it). CREATE of
an existing table gets ERROR and ends the connection, where `exceptions.h:32-34`
has it as the example of an `OperationException`. `logged_in` is never
initialised (`client_connection.cpp:21`), so a connection may be served without
LOGIN: `FreshLogin`. In `message.cpp:219`, '@' (64) passes for a letter:
`Letter`.

`NoDeadlock` fails only by leaked mutexes: `WaitersHoldOnlyLeaked` says that
a thread that waits holds nothing it would have released, so no cycle of waiting
threads can form from correct use.

## Fairness

`FairSpec` is weak fairness of `Thread(c)`, everything a thread does once it
has a request: the kernel runs every runnable thread. `Input(c)`, what clients
and the network do, has none. `Lock` is part of `Thread`, and weak fairness
does not promise that a waiting thread ever gets a contended mutex, as
`pthread_mutex_lock` does not; the property `TransactionsNeverWait` needs no
such promise, because transactions only try.

`ClientsSpec` is weak fairness of each program and of each connection's thread:
processes are scheduled and TCP delivers what was written. `Kill` has none. Nobody
promises a program that waits for a mutex that it gets it before others, but
the scripts are finite, so contention ends. In `Rio`, `Writing` and `Reading` are
weakly fair, calls of `rio_writen`, `Close` and the faults are not; interruptions
are bounded by `MaxSignals`, as an endless stream of signals would hold up the
retry loops for ever.

## Proofs

`tlapm` checks every module with theorems. From the assumptions on the constants
(`NULL` is not a connection, a table, a name or a key; requests are messages
`is_valid` accepts; `int` is two's complement) and nothing about their size:

* `TableProofs`: a table is well typed and implements `StagedMap`. The key
  steps: `get` leaves what is visible as it is although it may add an entry,
  and `commit_changes` keeps exactly what was visible.
* `ConnectionProofs!Invariance`: `Spec => []IInv`. `IInv` conjoins
  - `TypeOK`, with the agreement of `total` and `stk`;
  - `ControlInv`, what a control point says about the thread's locals;
  - `FreshInv`, that the table `create_table` is about to make is used by nobody;
  - `LocksAreHeld`, that a thread holds the mutexes of the tables it will unlock;
  - `UnlockedTablesAreClean`.

  No part is inductive alone. An unlock preserves `LocksAreHeld` only because
  the same invariant says the mutex is the thread's own; `UnlockedTablesAreClean`
  survives a `set` only because `LocksAreHeld` says the table is locked, and a
  `create_table` only because of `FreshInv`. Most steps are `Quiet`: they touch
  neither the store nor gain anything (lemma `QuietStep`), and the releases
  share lemma `ReleaseStep`.
* From it: `TypeCorrect`, `MutualExclusion`, `Isolation`, `NoHoldAndWait`, and
  for steps `LockedAccess`, `NoDirtyData`, `LeaksStay` and `LeaksComeFrom`.

* `StoreProofs!StoreIsAtomic`: `Spec => TransactionsAreAtomic`, the step simulation.
  Under `IInv`, dispatching a request or ending one leaves the abstract store as
  it is; locking takes a table; `get` and `set` read and edit the copy; the
  step into the loop of `commit_tables` publishes all the unit's tables at once, and
  each turn of the loop stutters, because the view of a table counts it as
  committed from that moment on; `rollback_tables` likewise drops them all on the
  step into its loop.
  The crux is that no two threads share a table they will unlock (`LocksAreHeld`),
  so one thread's loop does not change how another's tables are read.
* `ArithmeticProofs!ArithmeticIsSafe`: with `ValuesFit` (every string on a stack or
  in a table stands for a number that fits), for every width of `int`. The operands
  are ints because `stoi` is what lets them in; the bounds of product and quotient
  are lemmas. The hypothesis `PushesFit` is about the numbers clients push.
* `ClientsProofs!ClientsRunTheServer`: `ClientsSpec => Spec`. A program's step leaves
  the server as it is, a server step of the composition is one of
  `ClientConnection`; so every theorem above holds of the composition too.
* `ClientsProofs!EndedClientsAreHarmless`: `SIGPIPE` needs a client that was killed,
  for any number of programs and any command lines of words (arguments without a
  quote or a newline, which `Program` stands for). `ClientsInv` follows each
  conversation: at any time at most one of the request, the server's work on it
  and the answer is under way, and after a program has ended its thread can only
  read the end of file, write one last response and close.

* `ClientsProofs!Sessions`: `ClientsSpec => [](IInv /\ ClientsInv /\ SessionInv)`.
  `SessionInv` ties a connection to the place its client has reached in its script:
  what the requests so far have left on the stack, whether they have opened a
  transaction, and which request or answer is under way. It is about the scripts
  themselves, so a script that pushed too little, or sent COMMIT too late, would
  break it.
* `ClientsProofs!TransactionsLetGo`: `OnlyKilledLeaveLocks`, for every number of
  programs and every such command line. By `LeaksComeFrom` there are two
  ways to leak a mutex. `SessionInv` excludes the first, a SET on an
  empty stack: a script reaches SET only with a value on the stack. The second needs a connection that ends inside a transaction, and a program
  that ends by itself either has not opened one or has had it committed or
  rolled back.
* `ClientsProofs!ClientsDoNotDeadlock`: `WaitersAreServed`. The server by itself
  breaks its promise to be free of deadlocks (`set_deadlock`); with these programs it
  keeps it unless one is killed inside its transaction. A thread that waits would hold
  leaked mutexes only (`NoHoldAndWait`), and there are none (`TransactionsLetGo`), so
  whoever it waits for waits for nobody.
* `ClientsProofs!ReadersSeeCommitted`: `PrintsWhatWasCommitted`. `ReaderInv`
  adds to the above that a value `get` has read under the mutex is the committed one
  (`FreshLook`: the table is clean when locked and a reader writes nothing), and
  that from then on the reader's stack and the answer it is told carry a value that
  was committed while it ran (`Told`).
* `ClientsProofs!IncrementsAddUp`: `ClientsSpec /\ Orderly(program) =>
  []EveryIncrementCounts`, for any finite set of connections. `Orderly` says of the
  command lines that whoever else writes to the key of a `set_value` of a number is an
  `incr_value -t` and starts when the `set_value` has ended; overlapping increments
  without `-t` do lose some, so something of the kind is needed. The first two casts
  of `MCClients` are orderly; the increment without `-t` in the third stays with TLC.
  The invariant, `CountInv`, says what each request of the two scripts has left
  (`LeftBySetting`, `LeftByIncrement`): from its GET on, an increment holds the
  table, has the committed value on its stack, then one more than it, then that as
  the pending change. An increment is applied (`HasApplied`) from the moment
  `commit_tables` has released its table, which is neither when it is asked for nor
  when it is reported; a key is `Settled` when it holds the number set plus one for
  each applied increment. `CommitCounts` is the step that keeps it so: what is
  published is what is committed plus one, as nobody else could commit since GET
  (`OthersKeep`), and nobody else's change is pending (`PendingIsOwn`).
  `AppliedBounds` compares the applied increments with those reported and requested.
* `RioProofs!LinesImplementChannel`: `Spec => MessagesArriveWhole`, for any messages
  and any sizes of stream, buffer and line. `ChannelInv` gives each message an offset
  in the stream of all bytes (`Cut`) and says that what is pending - the
  unfinished line, `rio_buf`, the stream and what is left to write, in that order -
  is those bytes from the message the reader is at (`Carried`), up to what a writer
  that died has cut off. `write` and `refill` only move bytes within what is
  pending (`WriteMoves`, `RefillMoves`). A newline is the last byte of a message and
  no other (`RioAssumption`; `SerializationProofs!OneMessageOneLine` proves it of
  `encode`), so the first newline
  pending ends exactly the next message (`LineIsMessage`).

* `SerializationProofs`: the four properties of `MCSerialization`, for texts of
  every length, over any of the classes of characters, and any limit. The loops of `encode` and
  `decode` are recursive functions over a text. `ScanStates` and `EncodedStates`
  show that they have a value at every position, and `ScanAppend` and
  `EncodeAppend` that one element more is one turn more. From there on the proofs are
  inductions over the text. The library's induction theorems range over predicates,
  which the provers cannot instantiate, so `Induction` and
  `SequenceInduction` are stated for *sets* of numbers and of sequences, and follow
  from `<` being well founded on the naturals. The arguments:
  - `DecodeInverts`: `ReadArgs` reads back what `encode` writes, argument by
    argument, if each is a non-empty run of characters that are no space, newline or
    quote. Conversely, what `decode` returns for a line without quotes consists of
    such words (`ArgsWithoutQuotes`), and if the line has quotes, no quote is left in
    the arguments (`ArgsHaveNoQuote`): so nothing else comes back.
  - `AcceptedLinesCanonical`: reading is never shorter than writing.
    `ArgsFitTheLine` has, for every prefix of the line, the length of the encoded
    arguments plus the one being read at most that of the prefix: each argument
    costs the line at least its own characters and one separator. So the
    message found can be encoded, and as it is valid its arguments are words
    (`ValidArgsAreWords`) and `DecodeOfEncoded` applies.
  - `ClosedQuotesRead`, from `RunsOff`, which says exactly on which texts `decode` throws
    `out_of_range` (the extent of the finding `malformed_line`): by `LoopByQuotes` the
    loop is in its inner part exactly after an odd number of quotes, and done exactly
    after a newline with an even number before it.
  - `ArgumentsCounted`: `Counted` relates the arguments to the words and quotes for
    each of the loop's places (a word under way counts already, an open quote
    not yet, and nothing after the newline), and `CountedStep` keeps it.
  - `OneMessageOneLine`: what `encode` writes has one newline, at its end. `is_valid` looks
    for none in the text of a FAILED or ERROR message, so there it is a hypothesis; the
    server's texts are literals without one.

Only model-checked: liveness (`TransactionsNeverWait`, `EveryClientEnds`,
`MessagesArrive`), which is out of the prover's reach; and
`EveryIncrementCounts` for casts that are not `Orderly`. Every safety property of the
passing runs is a theorem. The findings are counterexamples by TLC.

## Not modelled

The rest of `csapp.c` (name resolution, socket set-up, wrappers nobody calls),
`tctest.*` (third-party), `guard.h` (unused), `server_main.cpp` and
`Server::listen` (start-up), the `ref_*` binaries (no source). Memory exhaustion, a
`pthread_mutex_init` that fails, and the never-freed `Table` objects are left
out. The text of responses is left out of the server model: a response is its
type and, for DATA, its value. The kernel (delivery, end of file, reset, `SIGPIPE`) is
modelled as the code sees it, and marked external in the map. A write that fails
(`rio_writen` returns -1, its callers go on) breaks the connection for every later
write as well; its reader sees a piece of a message and the end of the stream, which
is `Crash` in `Rio`. Command lines of the clients whose arguments hold a quote or a
newline, which `encode` would put on the line as they are, are left out of `Clients`. `Clients` works with
messages, not bytes: `Rio` and `MessageSerialization` justify that, each by itself
(`OneMessageOneLine` is what the first needs of the second).

## Plan

1. Done: `StringValue`, `Table`, `ValueStack`, `Server`, `ClientConnection` and
   their proofs.
2. Done: `Protocol`, `MessageSerialization`.
3. Done: `AtomicStore`, `StoreRefinement`, and the proof.
4. Done: `Clients`, composed with the server, with liveness and a client that dies.
5. Done: `Rio` and `LineChannel`.
6. Done: the refinement of `LineChannel` by `Rio`, and the invariants of the
   composition behind `OnlyKilledLeaveLocks`, `PrintsWhatWasCommitted` and
   `EveryIncrementCounts`.
7. Done: what `encode` and `decode` compute, by induction over the text.

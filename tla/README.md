# TLA+ models of the Qtum C smart-contract API

This directory holds TLA+ modules for the code in `src/`, the TLC
configurations that check them on small instances, and proofs that TLAPS checks
for every value of the constants. `PROJECT.json` lists the runs, says which
lines of the code each definition stands for, and lists the hazards that the
properties are for.

    tlc -config XRC20Ledger.cfg MCXRC20         # one run
    tlapm XRC20Proofs.tla                       # the proofs of one module

## 1. The system

A contract is an ordinary program, `./main <init|call> <context file>`. One run
of the program is one transaction: it opens a context, reads and writes a
LevelDB database in the current directory, prints its result and exits. Nothing
stays in memory from one run to the next; contracts interact only through the
database and its lock.

| part | code | state | operations | interacts with |
|---|---|---|---|---|
| contract store | `qtum.c:216-228, 293-327`, LevelDB | database `.contractdb`, its lock | open, `qtum_put`, `qtum_get`, release at exit | every contract process |
| token contract | `contracts/c-xrc20/main.c` | keys `owner`, `totalSupply`, `balanceOf...` in the store | `init`, `handle`: `totalSupply`, `balanceOf` (`mint` is empty and not reachable) | context, store |
| context and errors | `qtum.c:27-279, 329-392`, `qtum.h` | `qtum_context`, `qtum_err`, the context file, the blocks and handles held | `qtum_context_open`, `qtum_context_close`, `qtum_exit_error`, constructors of errors | JSON parser, hex codec, store, the file system |
| JSON parser | `json.c`, `json.h` | two passes over a text, a chain and a tree of values | `json_parse_ex`, `json_value_free` | called by the context reader |
| hex codec | `hex.c`, `hex.h` | none | `decodeHexString`, `bytesToHexString` | context reader, everything that prints |
| C++ binding | `qtum.hpp` | a `Context` that owns a `qtum_context`, `Error` | `open`, `put`, `get`, `getString`, `getAddress`, `hexStr` | context, store |
| Rust binding | `contracts/rust/src/{ffi,qtum}.rs` | the same in Rust | `open`, `put`, `get`, `Drop`, `from_c` | context, store |
| owner contracts | `contracts/{c,cpp}/main.*`, `contracts/rust/src/main.rs` | key `owner` (with a length of its own in each language) | `init`, `handle` | bindings, store |

What is hard about it:

- **concurrency**: several contract processes in one directory. Only the lock of
  the database stands between an init of three separate puts and other inits
  and queries, and nobody ever calls `qtum_context_close` on success.
- **crashes**: a process may be killed between two puts, and a put that
  returned may be lost with the power, since `qtum_put` does not ask for sync.
- **failures**: every allocation, file operation and storage call may fail, and
  `qtum_context_open` has seventeen ways out, through four labels.
- **stale state**: the context file is measured, opened and read in three
  calls, and others may write it in between.
- **a two-pass parser**: pass 1 counts, pass 0 writes without bounds, and the
  two read numbers with different code.

What makes each part correct: a query sees all of an init or nothing of it, a
status of 0 means that everything is stored, the lock is given back (store and
token contract); open returns a context or an error, releases what it holds
once, asks for the store only when the file is good, and the context is what the
file says (context); the passes agree, the
tree is the text, nothing is written past a block or released twice (parser);
bytes survive printing and reading (codec); every block that crosses a language
boundary is released once, and reads find what was put (bindings); what a
contract reports as stored is stored, whatever language says so (owner
contracts).

## 2. Modules

| module | what it is | code it is about |
|---|---|---|
| `ContractStore` | the database as `qtum.c` uses it | external, and `qtum.c:216-312` |
| `XRC20` | the token contract, any number of processes over one `ContractStore` | `c-xrc20/main.c`, parts of `qtum.c` |
| `Ledger` | abstract: transactions that take effect one at a time | what `c-xrc20` promises |
| `XRC20Ledger` | the refinement mapping from `XRC20` to `Ledger` | |
| `MCXRC20` | small instances of `XRC20` with its mapping | |
| `XRC20Proofs` | theorems about `XRC20` and the mapping | |
| `QtumContext` | open, close, the context file's reader, error objects | `qtum.c:27-291, 329-392` |
| `Opening` | abstract: the two steps that a contract takes open to be | what `XRC20` and `OwnerContracts` assume of open |
| `MCQtumContext`, `QtumContextProofs` | its instance; its theorems | |
| `JsonParser` | both passes of the parser, and the two ways to free a document | `json.c` |
| `JsonText` | what the parser promises: the text as the grammar sees it, token by token, and a tree written down again | the result of `json_parse_ex` |
| `MCJsonParser` | texts, and a reference grammar | |
| `JsonProofs`, `JsonTreeProofs`, `JsonTextProofs` | theorems about `JsonParser` and `JsonText` | |
| `HexCodec` | the encoding and the decoding loop; `hexStr` | `hex.c`, `qtum.hpp:17-27` |
| `MCHexCodec`, `HexProofs` | its instance; its theorems | |
| `Bindings` | the C++ and the Rust `Context` over `qtum_put`, `qtum_get` and the error objects, block by block | `qtum.hpp`, `qtum.rs`, `ffi.rs`, `qtum.c:293-327, 386-394` |
| `MCBindings`, `BindingsProofs` | its instance; its theorems | |
| `OwnerContracts` | the sample contract in three languages, any number of processes over one `ContractStore`; the mapping to `OwnerRegister` | `contracts/c`, `contracts/cpp`, `contracts/rust/src/main.rs` |
| `OwnerRegister` | abstract: a register with versions, held by one process at a time | what the owner contracts promise |
| `MCOwnerContracts`, `OwnerContractsProofs` | its instance; theorems about what it reports and about its registers | |

`XRC20` and `OwnerContracts` extend `ContractStore`; `XRC20Ledger` extends
`XRC20` and instantiates `Ledger`, and `MCXRC20` extends both; `OwnerContracts`
instantiates `OwnerRegister` once per key. `QtumContext` instantiates `Opening`: that is where
the reader of the context file meets the store, since `OpenRejected`, `OpenStore`
and `OpenStoreFails` of the contracts are the steps of `Opening`. The bindings
meet the store in two ways: `Bindings` looks at one program and its blocks,
`OwnerContracts` at many programs and what they report, and a program that a
double free ends is killed there. `QtumContext` takes the parser by its result (a document,
or NULL) and the codec by its result (bytes, or 0). `JsonParser` and `HexCodec`
are where those results are looked into.

### ContractStore and XRC20

`lock` is the database's LOCK file, `wal` its log of puts, `durable` how many of
those a power loss cannot take. A record names its writer, which LevelDB does
not store and no operation reads. `pc[p]` of process `p` is where it is in
`main`: `idle`, `open`, `main` (the context is open, `init` or `handle` is about
to be called), `putTotalSupply`, `putBalance` (between two puts of `init`),
`return`, `exit` (a status has been passed to `exit`), `exited`, `killed`.
Actions are named for the function whose storage call they make: one action up
to and including one storage call, since nothing else a process does can be seen
by others.

A put that reports an error may have reached the log (`Put`). A get that fails
and a key that is missing are the same to the contract (`Get`). Every failure
may become `QERR_OOM`, as `qtum_err_new` exits by itself. `Kill` and `PowerLoss`
are the environment.

Call data is a size, a first byte, an address and a word: all that `init` and
`handle` look at. No code does arithmetic on a supply, so supplies are model
values.

### Ledger

The ledger is the sequence of inits that took effect. A transaction is running
or over; it takes effect in one step, when it ends: an init that exits with 0 in
full; one that fails or is killed as its first none, one, two or three
effects; everything else not at all. A query answers from the whole ledger. A
power loss drops a suffix. There is no log, no lock and no put.

`XRC20Ledger` maps: the ledger is the log cut into inits, without the records
of the process that now holds the lock. An init begins where an owner is put
(`Heads`), and `Effects` looks whether the next record and the one behind it are
its own. The records of the lock holder are the newest, so to leave them out is
to cut the log after the first `Settled` records. Status and reply are hidden until the process
has exited. `ImplementsLedger == L!Spec`.

### QtumContext

`pc` names the call that is made next, or the label a `goto` went to
(`exit_fp`, `exit_fileContent`, `exit_err`). `live` is the set of blocks,
streams and handles that have been acquired and not released, each named by the
line that acquires it; releasing something else sets `badFree`. `file` is what
the path names now, `stream` what the open stream would deliver; `EditFile`
may delete, replace or rewrite the file before each call that looks at it. The
contents of a file are a sequence: its member `n` stands for the document that
the first `n` bytes are, or for None when they are no document. A read of a size
that was measured before an edit gets `stream[fsize]` (`Parsed`): a document,
the beginning of one, or a document with something behind it. `fread` reads one
element of that size, so it delivers all of it or nothing (`ReadFails`).

Which beginnings of a text are documents is the parser's affair, so it is an
assumption here (`PrefixAssumption`: the objects and arrays that a text begins
with are all the same one), and a property there: `CutsAreRefused` of
`MCJsonParser` says that no document cut short parses, and `ResultIsTheText` that
what parses is all that was read. A number may be cut, but configures nothing.

`json_parse_ex` has four outcomes. It returns a document (`Parse`), or NULL
(`ParseFails`), for bad JSON and also when memory runs out, and then it may leave
values behind that it was in the middle of (`"open values"`); or it goes through
NULL while it releases a root without room for its entries (`ParseCrashes`).
`JsonParser` states both (`LeaksOnlyOpenValues`, `CrashesAtRootOnly`). So three
things can be forgotten: superseded call data, by any call of open; by a call
that fails, the message of `leveldb_open` or the parser's open values.

An entry is the set of field names that its name is a prefix of, which is what
`memcmp(k, name, name_length)` tests, and a value: whether it is a string, its
length, whether its digits are all hex, and what they decode to. (A name that
is longer than a field's name and begins with it and a NUL would compare bytes
behind the literal; that is left out.)

`StoreThroughNull` is the call of `decodeHexString` with the unchecked result of
`malloc`. The caller's part is `Close` or `ExitError`.

`Phase` maps it to `Opening`: judging the command line is one step, getting the
store another, each failure has its code, an open store is never left by an
error or by `exit(QERR_OOM)`, and open ends.

### JsonParser

The parser is one loop over characters with fifteen flag bits. An action is what
one iteration does with one class of characters; `FinishValue` is the code
behind the switch (`flag_next`). A character of the model stands for what one
step of the loop consumes: a class of characters that are treated alike, a whole
literal, the opening or closing of a comment, `uXXXX` behind a backslash. The
text is chosen while pass 1 reads it, so every text up to the bound is covered;
pass 0 reads the same text. `values` is the chain of values by position, and
`length`, `names`, `size` and `room` are what pass 1 counts, what pass 0
allocates and how much of it has been filled. Every allocation may fail.
`Rejected` is the places that `goto e_failed` for what stands in the text, one
operator for each part of the loop (in a string, in a block comment, behind the
root, where a value may stand, in an object, in a number).
Comments are enabled, as `qtum.c:71-75` does. `//` directly behind the digits of
a number is an error (`json.c:467`), and the model has it.

Left out: what a number is worth, the byte order mark, line and column, error
texts, and the two `e_overflow` exits (they need a text of 4 GB). An unfinished
literal at the very end of the buffer is compared with the byte behind it
(`json.c:596`): it is refused, or the scanner passes the end (`ReadPastEnd`), and
the model ends there. `StaysInText` says that this is the only way out of the
text.

`JsonText` has the specification of the result and no step of the parser:
`Lexed` is the text as tokens (numbers, literals, strings with their length in
bytes, punctuation; no blanks, no comments, no comma in front of a closing
bracket), `Written[root]` the tree as tokens, and `ResultIsTheText` says that
they are equal.

### HexCodec

Two loops, one behind the other in both orders: bytes are encoded and the text
decoded again, or a text is decoded and the bytes encoded again. A character is
its code, a byte is 0..255; `HEX` and `nibbleToChar` are the macro and the
function. `hexStr` is the C++ binding's printer, on signed chars.

### Bindings

One program, in C++ or Rust, opens a context, calls its methods in any order and
drops it. A call is two steps: the C function (`Open`, `Put`, `Get`: it succeeds,
or fails with an error object), and what the binding does when it comes back
(`GetBytes`, `CppError`, `RustError`, ...). `log` is the history of calls and
results; `live` holds each block by its site and the call that acquired it;
`pc = "qtum_err_free"` is between `error(err)` and the second `qtum_err_free` of
`qtum.hpp:101` and `120`. The undefined behaviour is nondeterminism: the
uninitialised `err` of `Context::open` is NULL or `Stray`; a second free is
survived or not; the bytes behind a message without a NUL are UTF-8 or make
`unwrap` panic. A value counts as an address (twenty bytes) or something else.

A stray pointer that is taken for an error (`ReadStrayError`) kills the program,
or is survived: then `open` returns an error although the C function succeeded,
up to two arbitrary blocks have been released, and the open context, its call
data and its database are lost. `Open` has the context's call data
(`qtum.c:258` releases it) and that which a later entry of the file superseded
(`qtum.c:168`), as in `QtumContext`. Rust collects its arguments before it calls
C; `unicode` says whether they are Unicode, and if not it panics there
(`ArgumentPanic`).

Allocations do not fail here, so what the parser leaves behind out of memory is
in `QtumContext` only; C++'s own exceptions are left out.

### OwnerContracts

`pc[p]` is where process `p` is in `main`: `open`, `main` (the context is open),
`put` (Rust has announced the owner and not put it), `print`, `close` (the
destructor's call), `end`, `exit`. `result` is what Rust's `run` returns, `out`
the kinds of lines printed, `answer` the owner that was read. C and C++ print an
error and exit at once, with the store open; Rust closes the store first, prints
the error and exits with 0, or panics with 101. `printf` and `cout` may fail and
C and C++ do not look (`MayPrint`), so a line may be missing; Rust's `println!`
panics, which closes the store. `keyOwner` of C is eight bytes,
the size of a pointer, and `Behind` the two of them behind the literal: whatever
the linker put there, one value per build.

`OwnerRegister` has the versions of one register, who holds it, and what each
process has learnt. A process may say "stored" only while its version is there
or was replaced by a later one. The mapping takes the records of one key as
versions, and "stored" from `put owner` on, or from a quiet exit with 0.

## 3. Runs

| run | instance | distinct states | shows |
|---|---|---|---|
| `xrc20_ledger` | 3 processes, 2 competing inits and a query, kills, failing puts, power losses | 911,582 | `InitsNeverMix`, `OwnerHoldsSupply`, `SuccessMeansAllPut`, `ImplementsLedger` |
| `xrc20_requests` | 2 processes, 10 command lines, one on each side of every check | 31,690 | each is refused, answered or executed as the ledger says; the lock is given back |
| `xrc20_mint` | 1 process | violation | the comment's method `mint` is refused as unknown |
| `context` | 948 documents, every combination of failing calls, edits of the file, fair | 448,640 | a context or an error; nothing released twice; three things forgotten and no more; the context is what the file says; the error is the first bad item's; `ImplementsOpening` |
| `context_message` | the same | violation | no error message ends with a NUL inside its block |
| `json_scan` | every text of up to 7 characters, no comments | 664,741 | passes agree, writes fit, no bad free, only open values are lost, the tree is the text |
| `json_comments` | every text of up to 5 characters, with comments, fair | 137,956 | with comments, too, the tree is the text; the text is left at an unfinished literal only; every step leaves less to do (`AlwaysForward`); termination |
| `json_documents` | documents of a reference grammar of depth 3, plain and full of comments; the example of `README.md:61-70`; each of them cut before its last bracket | 281,026 | documents are accepted, cut ones refused; only open values leak, on deeper trees |
| `bindings` | a program of up to three calls behind open, in C++ and in Rust; 2 keys, 2 addresses, 1 other value | 714,812 | nothing bad is released, and nothing lost, but as known; reads find writes |
| `bindings_errors` | the same, one call | violation | a C++ call that fails may end the program |
| `owner` | an init in C or Rust, one in C or C++, a call in C or Rust or a refused one, in any order | 1,009,873 | `ReportsAreTrue`, `ImplementsRegisters` |
| `hex` | all single bytes and characters, sequences of up to 3 bytes and 5 characters at the edges of the ranges | 15,054 | round trips, rejection, C and C++ print alike |

The bounds, and why they are enough:

- **Three processes** (`xrc20_ledger`): one that is between two puts, one that
  competes with it and a reader is the smallest set in which all of the
  properties can fail. Each process is one transaction; it may be launched at
  any time, also after another has ended. Processes are symmetric. The two inits have different
  senders and supplies, so that mixing them is visible.
- **Requests** (`xrc20_requests`): sizes 7, 8, 9 for init; 0, 1 or more, 20, 21
  for call; every method; an invalid context. A balance is asked for by
  somebody else than the one it is about.
- **Context files**: up to three entries of nine kinds, chosen so that each
  decoder succeeds, fails by type, by length and by digit, names match none,
  one or all fields, and duplicates and supersession occur; arrays of 2, 3 and
  4 elements; files that are not JSON, or empty. Edits make the file shorter,
  longer, different at the same size, a document with something behind it that is
  no JSON, or a number, which is a number also when its end is not read.
- **Texts**: seven characters are enough for an object with an entry in which a
  number or an empty container is nested, or for two entries in an array, and
  for each number state; deeper nesting is in `json_documents`.
- **Calls** (`bindings`): a put, a put that fails or succeeds on top of it, and
  a get behind both is the longest history that `ReadsFindWrites` tells apart; a
  failing call between two others shows that its blocks are not confused with
  theirs. What a call leaves behind does not depend on older calls.
- **Processes** (`owner`): two inits and a reader, as in `xrc20_ledger`. The
  languages are chosen so that both keys are written and read, and that C++ and
  Rust meet at theirs; a C++ reader differs from the C one only in its key.
- **Hex**: the edges are the characters next to `0`, `9`, `A`, `F`, `a`, `f`;
  the theorems remove the bound.

Deadlock is not checked where the program ends: `context`, `json_*`, `bindings`
and `hex` are single runs to an end, and so is a process of `owner`. In `xrc20_*` deadlock is checked: a power loss is
always possible there, so the check finds nothing, and liveness is stated as
`StoreIsReleased` instead.

Fairness: `xrc20_requests` assumes weak fairness of each process's own steps,
for an operating system that schedules every running process; nothing is assumed
of `Launch`, `Kill` and `PowerLoss`. Without it a process could sit on the lock
for ever. `context` assumes weak fairness of the steps of open, which waits for
nobody, and nothing of its caller and of those who edit the file. `json_comments` assumes weak fairness of the parser, a single thread
that waits for nothing. No other run has fairness.

### Findings

- `xrc20_mint`: the comment at `contracts/c-xrc20/main.c:118` lists
  `mint address [02][address (20 bytes)]` among the methods; `handle` has no
  such case and refuses the call as an unknown method, and `mint` is empty.
- `context_message`: `qtum.h:53` says that `qtum_err_new` copies the message
  string to an allocated struct. The block has `strlen` bytes: `qtum_err_new`
  copies no NUL, and `qtum_err_fmt` writes it one byte behind the block.
- `bindings_errors`: `README.md:162` says that the C++ methods return errors.
  `put` and `get` release the error object a second time (`qtum.hpp:101, 120`)
  behind `error(err)`, which has released it, and the program may end there.

What the passing runs state of known faults, rather than their absence:
`OnlyKnownFaults` (a bad release or a death needs a failing call or C++'s unset
pointer, and a panic of Rust a failing call or arguments that are not Unicode; in
Rust only a panic releases badly), the two `OnlyKnownLeaks`, and in the
parser `LeaksOnlyOpenValues` and `CrashesAtRootOnly`. A C or C++ contract that
exits with 0 may have printed nothing: `ReportsAreTrue` says of such an exit that
the value is stored, or was read, and of Rust that it was printed, too.

## 4. Proofs

TLAPS proves these for all values of the constants, so for any number of
processes, addresses, context files and texts.

**XRC20Proofs**, from `StoreAssumption` (the model values for "nobody" and
"nothing" are no process and no value) and `XRC20Assumption` (the store's keys
and values are those of the contract, requests are requests). `InitsNeverMix`
says that the records of an init are consecutive. It is not inductive: it takes
that nobody else appends between two puts. `Inv` adds `HoldsLock` (a process with
an open context holds the lock), `Progress` (the newest one, two or three
records are the ones the running init has put so far) and `NoEarlyStatus` (only
a process that called exit has a status). The theorems are `TypeCorrect`,
`InitsSerial`, `SuccessIsStored`, and `SupplySettled` (`OwnerHoldsSupply`, which
follows from `InitsNeverMix` alone: whatever the log, when its last record is a
balance the newest owner, supply and balance are one init's).

In the same module, from the same assumptions: `TransactionsAreAtomic` says that
the contract implements `Ledger`. The argument:

- `LedgerInv` adds to `Inv` that a process is the writer of one init at most
  (`OneInitEach`), that the lock holder's records are the newest
  (`HolderIsLast`), that no other running process has records (`WriterHolds`),
  that each record is one of its writer's well-formed init (`PutByInits`), and
  that a process about to exit has a status and a reply that the log bears out
  (`Outcomes`: a query's reply is still the newest value when it exits, since it
  has the lock until then). TLC checked it as an invariant of both instances.
- So the log is a log of inits (`LogOK`), and cutting it after any record gives
  the ledger of what is left (`CutLedger`: the entries before the last one whole,
  the last one in part): that is a power loss. What one process has at the end of
  the log is one more entry (`TailInit`): that is the end of a process, which is
  when its records become settled (`EndSettles`). While it runs, the ledger stays
  (`TransactionsStay`): its steps are stutters.
- `NewestInit`: the last entry of the ledger that has put a key is where the
  newest record of the key is, so a query gets the ledger's answer (`AnswerIs`).
- The entries of the ledger are the owners' positions in order. That the set of
  positions can be listed so (`SortedByRank`) is an induction over a set of
  numbers. It is done without the induction theorems of the library, by the least
  number that has no member of its rank: `LeastNumber` follows from the
  well-foundedness of the finite sets.

**QtumContextProofs**, from `ContextAssumption` (edits are texts; None, Zero and
Garbled are not contents) and, for `DecodesTheFile` alone, `PrefixAssumption`:
what was read is then the one document of the file. `Inv` says for every label which blocks are owned
(`LiveIsOwned`), which of context and error exist (`ResultSoFar`), that the data
pointer is the block of a data item that has been decoded (`DataIsLast`), and, as
a loop invariant, that the first `i - 1` items describe the context
(`DecodedSoFar`). `OneResult`, `MemorySafe`, `LeaksKnown` and `DecodesTheFile`
follow. Each needs the others: what close releases depends on what was decoded.
`ErrorNamesItem` (`ErrorNamesFirstBadItem`) follows from the loop invariant: what
has been decoded was valid. `OpensInTwoSteps` is the safety half of
`ImplementsOpening`: under the mapping of `QtumContext` every step is one of
`Opening` or a stutter. It rests on which labels of open are which phase, and on
the store being asked for at one label only.

**HexProofs**, from `HexAssumption` (buffers and texts are sequences of bytes).
`Inv` relates text and bytes round by round. `BytesRoundTrip`, `TextRoundTrip`
and `Rejection` rest on two lemmas: HEX reads back what nibbleToChar writes, and
nibbleToChar writes in lower case what HEX read. `BindingsAgree`
(`BindingsPrintAlike`) follows from the same invariant: a `char` of C++ has, with
its sign, the same two nibbles.

**OwnerContractsProofs**, from `StoreAssumption` and `OwnerAssumption` (the two
keys, addresses as values, command lines that are requests). `ReportsAreTrue`
speaks of processes that have reported, so it is not inductive. `Inv` says the
same of those that are about to: a process that is at its line of output, or that
is closing with the result "ok", has its record in the log (`SuccessIsStored`) or
its answer, in Rust a printed one (`CallsAreAnswered`: a call that prints has read
an owner, and one that is done has, too); `NothingEarly` adds that a process that has
not called exit has no status. The proof takes that only a power loss shortens
the log, and that a power loss notes whose records it took. `TypeCorrect` and
`ReportsTrue` follow. The lock plays no part: the reports would be true of a
database that let several programs in.

In the same module, from the same assumptions: `RegisterOfKey` says that the
contracts implement `OwnerRegister` for each key, `ImplementsAll` that they
implement the two that there are. Here the lock does matter: `Steady` adds to
`Inv` that a process with an open context has it (`HoldsLock`), that a process
which has yet to put has no record in the log (`FirstPut`: so each sets the
register at most once), that no running process has lost a record (`NotLost`: so
who says "stored" still has its version), and that only a call has an answer
(`Asked`). Versions are sets of positions in the log: a put adds one behind all
others (`PutAdds`), what a get reads is the last (`NewestVersion`), and a power
loss takes those behind some position (`PowerTakes`).

**BindingsProofs**, from `BindingsAssumption`. The properties speak of the time
between calls, so the invariant is about the call in progress: `InCall` (err is
the error object of this call if and only if it failed, and the value that
`qtum_get` gave is what the store has), `LiveIsOwned` (a live block is the
context's with its call data, the program's, one that the binding has in hand and
will release, or forgotten by a call that is known to forget), `ErrUnset` (only C++
leaves `err` unset, and no program goes on behind the `open` that did),
`FaultsKnown`, and `StoreIsPut` (the store has the last put that succeeded, or one
that failed behind it).
`FaultsAreKnown`, `LeaksAreKnown` and `ReadsAreWrites` follow for any number of
calls.

**JsonProofs**, from `ParserAssumption` (the text is made of the model's
characters). `TypeCorrect` is not obvious here: that `top` is a value wherever
the scanner uses one, that what `kids` and `parent` lead to is in the chain, that
`SkipNumber`'s CHOOSE finds a character (`NumberEnds`: the NUL at which pass 1
ended is still ahead). `Inv` says so with `ChainOK` and `ScanOK`. That a set of
numbers has a least one (`Least`) comes from the library's well-foundedness of
the naturals. `StaysInside` (`StaysInText`) follows
from what `ScanOK` says of the place of the scanner in each pass: it has no NUL
behind it, and in pass 0 there is still one ahead.

In the same module, from `Inv`: `WritesFit` and `PassesAgree`. Both say that pass 0 does what pass 1 did, and what pass 1 did is no longer in
the state. So the invariant says that there is a set of snapshots of pass 1
(where the scanner was, the chain, the names met in each object), in which
whatever the scanner does next leads from one to another (`Leads`), and that pass
0 is at one of them (`Follows`). While pass 1 runs, the set is what it has been
through; then it stays, and pass 0 goes along it. Nothing has to be counted and
nothing is recursive.

- `Kind` and `ScanAfter` give the scanner as a function of the flags, the type of
  `top` and the character, so that from the same place both passes go to the
  same place.
- Numbers are one step, for pass 0 does not read them: it skips what looks like
  one, and stops where pass 1 did because pass 1 goes on only with characters
  that are skipped, and what may stand behind a number is not skipped
  (`NumberIsAll`).
- `Below`: between two snapshots nothing is taken back, so that what pass 0 has
  filled up to one of them is within what pass 1 had counted at the end
  (`Filled`, `BlocksFit`).
- `Balanced`: each name is followed by one value, so that an object has as many
  keys as entries.

From `PassesInv`, too: `GoesForward` (`AlwaysForward`) is the argument for
`Terminates` that needs no fairness. Each step lowers what there is to do: the
phase (scan, failed or returned, release, over), then while scanning the pass,
the distance to the end of the text and the looks left at the character
(`LooksLeft`), then while releasing the entries not yet walked and the place in
the chain. A character can be looked at again behind a line comment, at the start
and at the end of a number, and where a value ends; `LookingOK` (no comma is due
in a number, no comment is open in a string or behind a value) and `ReadAgain`
(only the end of a value is read again) say that these come in one order. The walk
of `json_value_free_ex` takes an entry off a list, or goes up to an older value.

TLC cannot evaluate `PassesInv`, which says that a set of snapshots exists; it
checks what follows from it, `WritesFit` and `PassesAgree`, and the same two
under the mutants.

**JsonTreeProofs**, from `PassesInv`: `NoBadFree`, `LeaksOnlyOpenValues` and
`CrashesAtRootOnly`. The three are about what `json_value_free_ex` meets when it
walks the tree without a stack, so the invariant is the shape of the tree.

- While pass 0 runs (`Growing`), the values that it has taken and not completed
  are a `Branch`: from `top` by `parent` to the root. Every other value that it
  has taken is in its parent's `kids`, once, and nothing else is there. Each block
  that is live belongs to a value (`Held`), and what a complete value says of its
  entries is true (`Sound`): that follows from `PassesInv`.
- The walk (`Walking`) is at the end of a branch, too. What is left of the tree is
  that branch, and values that are in the rest of their parent's list, the part
  up to its `length`; the walk takes the last of them off the list before it
  goes down to it, so it goes down to no value twice. Where it goes up, nothing of what
  it releases is in a list any more.
- When pass 0 fails, the values of the branch but the root are in no list, and
  what is below them is out of reach (`OutOfTree`): the leak. They are `Lost`
  (`OutOfTreeIsLost`). `Lost` is defined by the recursive function `Path`; that
  there is such a function is proved by giving it without recursion (`Above`:
  the least set that contains the value and is closed under `parent`).
- The one value that is not sound is `top` when its allocation has failed; the
  walk meets it only if it is the root, which is where it crashes.

**JsonTextProofs**, from the invariants of the two modules before it:
`ResultIsText` says `ResultIsTheText` for every text. The invariant (`TextInv`,
theorem `TextInvariance`) relates three things that know nothing of each other:
the scanner in pass 0, the lexer of `JsonText` beside it, and the tree so far.

- The lexer is behind the characters that the scanner is done with (`Lex`), and
  it is in a string or a comment when the scanner is (`SameMode`). `LexingExists`
  shows that the recursive function `Lexing` satisfies its equation, so the proof
  can take one character at a time.
- `Reading` says that there are places `from[n]` and `to[n]` in the tokens for
  each value: a value met has its beginning and, behind one another, its complete
  entries with their names and commas (`Begun`); a complete one has its end
  (`WholeAt`); the next entry of what is not complete has its place (`NextOf`).
  `Spans` is all of it, and `Frontier` says what the last token is and, from the
  flags (`need_comma`, `need_colon`, `seek_value`, `next`, `done`), which one
  the scanner takes next. The positions are quantified, not kept in a variable, so
  the model has nothing that the code has not.
- When pass 0 returns, all values are complete and the root is all of the tokens
  (`WholeText`). Values lie in the chain behind their parents, so going from the
  last to the first, each is written as the part of the text that it came from
  (`AllCopied`), and the root as all of it.
- `Written` and `Listed` are recursive functions, too. That there are such
  functions is proved by giving them without recursion, as parts of the text
  (`TextWrites`, `ListedText`). Where a proof goes from one character, entry or
  value to the next, it looks at the least one that fails (`Least`), so none of
  the library's induction theorems is needed.

TLC cannot evaluate `TextInv`, which says that there are positions; it checks
`ResultIsTheText`, and that the mutants break it.

Only model-checked:

- `StoreIsReleased` and `Terminates`, which are liveness, and the liveness of
  `ImplementsOpening`; of `Terminates`, `GoesForward` is the part that can be
  proved;
- `AcceptsDocuments`: that a document is accepted is a fact about every document
  of the recursive grammar of `MCJsonParser`, so its proof would be an induction
  over documents;
- `CutsAreRefused`, which `PrefixAssumption` of `QtumContext` rests on, for the same
  reason.

## 5. Not modelled

- LevelDB, the C library and the file system are external: they are what the
  code asks of them.
- Exceptions of C++'s own allocations, and allocations of Rust's; two `Context`
  objects in one program (LevelDB refuses the second).
- `ADDRESS_SIZE` bytes printed of a shorter value (`contracts/c/main.c:28`): no
  contract of the repository stores one under that key.
- What the scanner does behind the end of the buffer (`json.c:596`), and the worth
  of a number (`json.c:733-841`), which no caller looks at.
- What is printed, but for the hex strings; build files; sample contexts.

## 6. Plan

Done, in this order: the store and the token contract with its ledger, the
context, the parser, the codec, since a wrong ledger is what users of a contract
would see, and the context is what every contract begins with; then the bindings,
the owner contracts with their register, and the steps of open that the
contracts build on.

Next: `AcceptsDocuments`, the converse of `ResultIsTheText`, and `CutsAreRefused`.
The first would need the grammar as a predicate on tokens, without a bound on the depth, and an invariant
that says of the rest of the text, rather than of what has been read, that the
scanner's flags allow it.

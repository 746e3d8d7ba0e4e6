# TLA+ models of SPDM-Hardware-Implementation

The repository puts the Security Protocol and Data Model (SPDM) on a NetFPGA
SUME: the LiteX BIOS on a Rocket CPU is the *requester*, a Microblaze inside the
Ethernet card is the *responder*. The two talk over one FIFO that both CPUs
clock by hand. The repository also brings its own copies of the BIOS's boot
code, of the card's transceiver initialisation, of the firmware's measurement
and signing functions and of mbedTLS's bignum.c, all of them edited. This
directory models these programs, checks them with TLC on small instances, and
proves with TLAPS, for every instance, the safety properties of all of them but
the big-number functions above the limb loops.

Paths below are relative to the repository; `bios/` stands for
`src/LiteX/litex/litex/soc/software/bios/`.

## 1. Inventory of the system

| component | state | operations | interacts through |
|---|---|---|---|
| requester device I/O, `bios/spdm_requester.c` 266-357 | locals, `m_send_receive_buffer` | send, receive | SPDM CSRs |
| responder device I/O, `src/Microblaze/requester.c` 274-339, 514-520 | locals, `m_send_receive_buffer` | send, receive, dispatch loop | five AXI GPIOs |
| SPDM hardware: `SoC/SoC_with_SPDM/digilent_netfpga_sume.tcl`, `.../src/digilent_netfpga_sume.v`, `*_mux_2to1.vhd`, `liteeth/phy/v7_1000basex.py` | CSRs, GPIOs, FIFO | clock edges, multiplexing, reset | wires |
| requester session, `spdm_requester()` 360-564 | libspdm context | nine SPDM phases | device I/O |
| responder main, `requester.c` 354-533 | libspdm context | set-up, dispatch until UNSUPPORTED_CAP | device I/O |
| serial boot, `bios/boot.c` 99-296 | frame, failures, timer | magic handshake, LOAD, JUMP, ABORT | UART |
| other boot media, `bios/boot.c` 456-1012 | RAM, FATFS volume and file, tokens | TFTP/SD/SATA boot by JSON file or boot.bin, flash boot | console, drivers |
| network addresses, `bios/boot.c` 309-454 | addresses in the BIOS and in the UDP stack | parse and set, start of the stack | console, netboot |
| measurements, `measurement_functions.c` | record under construction | collect blocks, summary hash | called by libspdm |
| signing, `signature_functions.c` | RSA context | set key, sign, free | called by libspdm |
| certificate chain | none after set-up | build chain | called by main |
| GTH initialisation, `gth_7series_init.py`, wiring in `v7_1000basex.py` 743-799 | FSM, timer, watchdog, synchronisers, CDR counter | reset sequence, restart | PLL, MMCMs, transceiver |
| multi-precision integers, `mbedtls/library/bignum.c`, `bios/bswapsi2.c` | objects on a heap | arithmetic, division, modular powers, primes, reading and writing | called by RSA |

libspdm, the rest of mbedTLS, FATFS, TFTP, jsmn and the host's upload program
are not in the repository; they appear only through the calls this code makes
or serves, and are marked external in `PROJECT.json`.

What is hard here, and what should hold:

* **Two CPUs, no lock.** The FIFO's clock, enables and input are switched by the
  requester's control byte. One CPU's transfer must never overlap the other's.
* **Level flags that are never consumed.** `ready` (bit 5) and `wait` (bit 3)
  mean different things in different phases of an exchange; only timing tells
  the old level from the new one.
* **A FIFO without reset, full or empty flags.** A byte too many or too few in
  one exchange would shift every later message.
* **Failures in the middle.** `malloc` may fail after registers were written;
  the error values are not what libspdm expects.
* **Partial reset.** The SoC's reset reaches neither the Microblaze nor the FIFO.
* **A lossy line.** Serial boot resynchronises by timer and CRC only, its
  answers are not numbered, and not every error is counted.
* **Files that end early.** A boot command goes through dozens of calls, each of
  which may fail, with one status that nobody looks at and a negative error code
  kept in an unsigned byte. Nothing half loaded must be jumped to.
* **Sizes computed twice.** The measurement record's size is worked out apart
  from the code that fills it, and read back by its own size fields.
* **Arithmetic at the limb's width, in place.** Carries that wrap, quotient digits
  that are guessed, destinations that are their own operands, a heap that runs
  out half-way, a cache that outlives its call.
* **Signals that arrive late.** The transceiver's answers pass two flip-flops and
  the reset a register, so the initialisation may see an old answer; and two
  waits for the clock recovery, of different lengths, run side by side.

`PROJECT.json` lists each hazard at its line with the properties aimed at it.

## 2. Modules

| module | models | extends / instantiates |
|---|---|---|
| `SpdmChannel` | what libspdm may rely on: a half-duplex channel | |
| `SpdmMailbox` | both drivers, registers, multiplexers, FIFO | instantiates `SpdmChannel` |
| `SpdmMailboxProofs` | theorems about `SpdmMailbox` | extends `SpdmMailbox`, `TLAPS` |
| `SpdmSession` | `spdm_requester()` and the firmware's `main` | instantiates `SpdmChannel` |
| `SpdmSessionProofs` | theorems about `SpdmSession` | extends `SpdmSession`, `TLAPS` |
| `SerialBoot` | `check_ack` and `serialboot` with host, line and user | `SequencesExt` |
| `SerialBootProofs` | theorems about `SerialBoot` | extends `SerialBoot`, `TLAPS` |
| `SerialImageProofs` | the theorem that the image is whole | extends `SerialBootProofs` |
| `BootImage` | boot from network, SD card, SATA and flash | `SequencesExt` |
| `NetAddr` | parsing and setting of addresses, start of the UDP stack | `SequencesExt` |
| `BootConsole` | both, one console command after another | extends `BootImage` and `NetAddr` |
| `BootConsoleProofs` | theorems about `BootConsole` | extends `BootConsole`, `WellFoundedInduction`, `TLAPS` |
| `Measurements` | measurement collection, summary hash, signing | |
| `MeasurementsProofs` | theorems about `Measurements` | extends `Measurements`, `TLAPS` |
| `GthInit` | both transceiver initialisations, clock cycle by clock cycle | |
| `GthInitProofs` | theorems about `GthInit` | extends `GthInit`, `TLAPS` |
| `MpiLimb` | what one round of a limb loop does | |
| `Mpi` | objects, shifts, comparison, addition, multiplication, division | extends `MpiLimb` |
| `MpiModular` | Montgomery multiplication, powers, gcd, inverse | extends `Mpi` |
| `MpiIO` | strings, files and bytes | extends `MpiModular` |
| `MpiCalls` | a program that calls these functions | extends `MpiIO` |
| `MpiPrime` | random numbers, primality test, prime generation | extends `MpiIO` |
| `MpiLoops` | the limb loops one limb per step | extends `MpiLimb` |
| `MpiLoopsProofs` | theorems about `MpiLoops` | extends `MpiLoops`, `WellFoundedInduction`, `TLAPS` |
| `MC...` | constants for TLC | the module of that name (`MCMpi`: `MpiCalls`); `MpiLoops` and `GthInit` have theirs in the `.cfg` |

### SpdmMailbox

One action is one register access of one CPU, so the CPUs interleave between any
two accesses.

| variable | code |
|---|---|
| `csr` | `SPDM_FIFO`, `SPDM_register`, `SPDM_requester_control`; the read-only CSRs are `fifo`'s head, `gpio.counter` and `gpio.ready` |
| `gpio` | GPIO 0 channel 2 (`packet`), 3.1 (`write_en`), 3.2 (`read_en`), 4.1 (`clk`), 1.2 (`counter`), 5.2 (`ready`) |
| `fifo` | contents of `fifo_generator_0` |
| `rq`, `rs` | program counter and locals of the two programs |
| `served` | ghost: the responder raised `ready` since the last handover |

`Rq...` actions follow `spdm_requester_send_message` and
`spdm_requester_receive_message` line by line, `Rs...` actions those of the
responder; `RsDispatch` is the point where libspdm has built a response and
calls send. `FifoNext` derives the FIFO's step from the edge that a register
write makes on the selected clock. If that write also moves a multiplexer, the
FIFO may sample the enables and the data from before or after it. `SocReset`
clears the CSRs and restarts the BIOS and leaves the rest running.

Polling loops are one action that is enabled when the loop would end. The
printing, the copy into `data` and the sixteen settings before the dispatch loop
do not touch the mailbox and are left out.

Abstractions that matter:

* The FIFO shows its oldest word at once. The real core needs a few clock edges
  to let the first word through; every message has at least an MCTP and an SPDM
  header, so those edges have happened before the first word is read.
* `MaxLen <= FifoDepth` is an assumption (`MailboxAssumption`): the FIFO holds
  8192 words and libspdm's messages are shorter.
* **Timing.** Nothing in the code orders the requester's poll for `ready` after
  the responder's acknowledgement (`requester.c:319`), nor the responder's next
  poll of `wait` after the requester's `0x02`. `PromptResponder` and
  `PromptRequester` state these two reliances as guards on the polls; with
  either `FALSE` the model has every interleaving. On the board the requester
  prints and returns through libspdm between send and receive, and the responder
  returns through libspdm before it polls again; that makes the assumptions
  plausible there and is no guarantee.
* **Reset.** `ResetAt` is where the requester may be when the SoC is reset. A
  reset in the middle of a transfer leaves words in the FIFO that nothing
  removes, so the theorems assume it happens between exchanges (`AtRest`).

`Undisturbed` collects these reliances.

### SpdmChannel

Who may speak (`turn`), the last message (`wire`), and what each side was last
handed (`heard`). `ImplementsChannel` maps the registers onto it: the message
changes hands when the control byte becomes `0xF8` and when `ready` rises, and
is heard when a receive function sets `*message`.

### SpdmSession

The two programs above the mailbox, composed over `SpdmChannel`, which the
mailbox is shown to implement. `RqContext` to `RqNoChain` are the set-up of
`spdm_requester()` (405-520), `FwContext` to `FwStart` that of `main` (354-514);
every allocation takes `Size` units from a heap and fails when they are not
there. The six libspdm calls of the BIOS go through the nine phases
(`FirstPhase`, `LastPhase`, `NextCall`); `RqRequest` waits for the ready flag as
the send function does. Only `RqConnectionFailed` looks at a status;
`RqNextCall` goes on after any other. `FwHear`, `FwServe`, `FwRefuse` and
`FwBreak` are one round of the dispatch loop.

The capability flags and algorithm lists are those of the two source files. What
libspdm does with them is external: a phase is served in the connection state
and with the flags it needs (`Serves`, `Acceptable`), and one common algorithm
of each kind is agreed on. `MayFail` lets the hash, an answer, a verification,
the dispatch loop, or the call with the uninitialised `cert_chain_size`
(`spdm_requester.c:536`) fail. `SocReset` happens between two exchanges and
leaves the firmware as it is, its connection included.

The set-up steps between two allocations are one action each: no other program
can see between them. A failed `malloc` of a message copy breaks the channel
and is the subject of the mailbox runs.

### SerialBoot

`Start` is the return of `spdm_requester()` and the magic request; `AckChar` and
`AckTimeout` are `check_ack`; `ReadLength`, `ReadByte` and `FrameTimeout` are
the reader; `CrcError`, `Abort`, `Load`, `Jump` and `Unknown` are the cases of
one iteration. The bytes of a frame are tokens `<<n, k>>`, byte k of frame n: a
frame passes the CRC exactly when its tokens are those of one frame (a CRC that
misses no error), and a token out of place can be any length. The environment
is a host that resends after every answer but SUCCESS, a line that loses bytes,
and a user who types while the BIOS waits; `MaxFaults` bounds the last two.
`FrameTimeout` needs an empty line: the timer's quarter of a second is ten times
what a frame takes. `heard` and `log` are ghosts.

### BootImage, NetAddr, BootConsole

A step of `BootImage` is one call that may fail: `TftpJson`, `f_mount`,
`f_open`, `ReadJson`, `TftpImage`, one `f_read` (`ReadChunk`), one chunk of
flash (`CopyFlash`), or one token of the JSON file (`Element`). The SD card and
SATA functions are the same code on another disk and share actions. A document
is the sequence of jsmn's tokens; a keyword matches by its first characters as
`strncmp` does (`Key`), and an error of `jsmn_parse` becomes a count of tokens
modulo 256 (`ParseJson`), all of which the loop goes over: those jsmn had written
and, behind them, whatever the stack holds (`Leftover`, with the contents of
`Behind`), elements and images included. A leftover token may name any image, but
only for a place of the model: a copy to an address or with a name length that is
none at all is outside of it. `JumpAsDocument` therefore says of a file that
jsmn could read that the program gets what the file says, and of another that it
gets what the beginning of the file and the leftovers say. The build has main RAM, so the branch of
`flashboot` that executes in place is not compiled. `touched` is a ghost.

`NetAddr` keeps the parsers' number buffer: its first content and the character
behind it are what the stack held (`Stacks`), and `NextNumber` converts and
clears it as the code does. `Rounds` is the loop over the text, `Splits` the cut
of the text at its separators that `RightFormatTaken` compares it with; both are
recursive functions, so that they can be proved about. Two things the model shows about the code without
any property being broken: a text that ends with its last separator is taken
with 0 as the last number, and a number that fills the buffer, like the first
one, is right only if the stack happened to be zero there. `RightFormatTaken`
says which numbers can be relied on.

`BootConsole` composes the two: `netboot` starts the UDP stack with the
addresses set so far; an address command returns at once.

### Measurements

`Begin` (called from `GetMeasurements` or `GenerateSummary`) computes the size
and answers the early returns, `Fill` writes one block, `ReadBlock` is a round of
the loop that reads the record back for the summary hash, with what it chooses
(`Wanted`) and how much of it is hashed (`Hashed`), `Summarise` is the hash at its
end, `SetKey` and `Sign` are the two halves of `libspdm_responder_data_sign`. The
buffer is a function from byte offsets to blocks, so a wrong size field makes the
reader look where no block is (`Missing`). The loop of assertions before the
hashing loop changes nothing: `RecordComplete` and `SummaryCovers` state what it
asserts. libspdm only passes the DMTF specification and a supported hash,
so the early returns for others are not taken.

### GthInit

A step is one cycle of the system clock: every register takes its equation's
value in the state before. `Registers` is one instance of GTHInit inside its
`ResetInserter`, `ModuleReset` and `restart_in` are the PHY's wiring. The PHY
sets `buffer_enable`, so the states of the alignment are not reached, and leaves
`Xxuserrdy` unconnected: TXUSERRDY and RXUSERRDY are the locks of two MMCMs. The
transmitter's is held in reset while the PLL is not locked, the receiver's for
`cdr_lock_time` cycles after the receiver's reset (`CdrLock`, `Clocks`). PLL,
MMCMs and transceiver are external: their answers fall and rise within bounded
times, never rising sooner than they could have fallen, a flip-flop takes the old
or the new value of an answer that is just changing (`Seen`), and a start of a
transceiver may come to nothing until the next reset (`Hung`, at most
`HangBound` times).

Two things follow from the design's own times. The receiver's reset-done comes
only after 5000 cycles and the lock of its MMCM, so the FSM's own 1024 cycles add
nothing to a start from a transceiver that was down. And a start that finds the
transceiver up can take the reset-done of the start before, because it is seen
two cycles late and the reset is a cycle late: it is then ready after 1024
cycles, with the transceiver still in its reset, in spite of the comment "Wait
for clock recovery lock" (gth_7series_init.py:103). `wasUp`, a ghost, tells the
two kinds of start apart: `ReadyIsUp` is stated for the first, and of the second
`LinkComesUp` says that the transceiver comes up later, unless just that start
comes to nothing, which the watchdog, idle in READY, does not notice.
`ReadyIsRecovered` holds for both.

### Mpi, MpiModular, MpiIO, MpiCalls, MpiPrime

Each function of bignum.c is an operator from a state `[m, mem, ret]` (objects,
callocs that will still succeed, return value) to the next; a call that has
failed passes its state through, as `MBEDTLS_MPI_CHK` jumps to `cleanup`.
Limbs, their width, the double-width type, the window size and the byte order
are constants. `MpiCalls` is a program that makes one call after another; what
it got is compared with integer arithmetic in `Finish`. The parts that use
random numbers are steps of their own in `MpiPrime`: every draw the generator
can give is taken, and it may fail at any. `MULADDC_CORE` and the two functions
of constant_time.c are external; the self test is not modelled.

A destination may be an operand, with three exceptions: the exponent and the
modulus of exp_mod and the divisor of mod_mpi, which are read after the
destination was written (mod_mpi would then not end). `mod_int` is compared for
divisors of up to half a limb, which all of bignum.c's own are; beyond, `y << biH`
wraps.

In two cases the code does not compute what its comments say. `ResultExact` takes
the integers from the comments and names these cases and the value they leave
instead (`odd` in `call`); without either of them TLC finds it violated:

* "A = Q * B + R" (bignum.c:1642), when Q is an operand (`ReadAfterWrite`). The
  signs of A and B are read after Q was copied (1747-1748, 1754), so the sign of a
  negative operand replaced by the quotient is lost and, if that is A, the
  remainder gets B's sign; for |A| < |B| a Q that is A is zeroed before A is copied
  to R (1673-1674), so the remainder is 0. bignum.c's own call of this kind
  (505) divides a positive number and wants no remainder.
* "X = A^E mod N" (bignum.c:2009, 2221), for a negative base, an odd exponent and a
  power that N divides (`NotReduced`): exp_mod adds N once to the negated power
  (2225-2229) and returns N instead of 0.

Objects are values: that exp_mod's cache and its local copy share their limbs,
and that the copy is freed only when there is no cache (2239), is not visible to
`NoLeak`.

`Generated` says that a prime has the bits asked for, but of a safe prime only that
it has no fewer: X is raised by 4, 8 and 12 without a bound (2877-2880, 2908), and
for 3 bits, for example, the result is 11.

### MpiLoops

The loops of `mbedtls_mpi_add_abs`, `mpi_sub_hlp` with the borrow loop of
`mbedtls_mpi_sub_abs`, and `mpi_mul_hlp`, one limb per step, on arrays that may
be the same. `vl`, `vr` and `vx` are ghosts: the integers of the limbs read and
written so far. `Value` is the integer in a whole array, and `Account` says that
the ghosts are what they are called.

## 3. Runs

| run | properties | result | states |
|---|---|---|---|
| `mailbox_prompt` | `NoUnderflow`, `RequestIntegrity`, `ResponseIntegrity`, `RequestAnswered`, `ImplementsChannel` | all hold | 12 944 |
| `mailbox_faults` | `OneMaster`, `CleanStart`, `ReadyFallsForRequest` | all hold | 103 012 |
| `mailbox_stale_ready` | `ResponseIntegrity` | violated | |
| `session_faults` | `FailureLosesNothing`, `ConnectedAfterInit`, `AgreedSuite`, `CleanCallCompletes`, `CallEnds` | all hold | 31 904 |
| `serialboot_faults` | `AckExact`, `JumpWholeImage`, `GivesUpOnStreak`, `EveryFrameAnswered`, `Finishes` | all hold | 209 165 |
| `serialboot_empty_abort` | `AbortExits` | violated | 26 |
| `mpi` | `ResultExact`, `OperandsKept`, `NoLeak`, `WrittenExact` | all hold | 443 953 |
| `mpi_prime` | `RandomUniform`, `PrimeNotRejected`, `BaseIsLiar`, `Generated` | all hold | 6 562 |
| `mpi_loops` | `ResultExact`, `ArrayExact` | all hold | 68 816 |
| `boot_console` | `NothingHalfLoaded`, `JumpAsDocument`, `VolumeReleased`, `CommandEnds`, `RightFormatTaken` | all hold | 555 806 |
| `measurements` | `RecordComplete`, `SummaryCovers`, `KeyFreed` | all hold | 10 437 |
| `gth` | `ReadyIsUp`, `ReadyIsRecovered`, `LinkComesUp` | all hold | 374 303 |

What the runs show, and why their bounds are enough:

* `mailbox_*` use two byte values and messages of one or two bytes in a FIFO of
  two words: a full FIFO, a message shorter and longer than the one before, and
  swapped, repeated or missing bytes all happen. The exchanges repeat without
  bound. `mailbox_prompt` has resets of the SoC between exchanges and no failing
  malloc; `ImplementsChannel` includes the channel's fairness.
* `mailbox_faults`: `malloc` may fail in either send. What a receive then
  returns is not claimed: the requester's function returns no value and libspdm
  may go on to receive from an empty FIFO; the responder's `false` is success to
  libspdm, which dispatches a request read from an empty FIFO. The three
  properties of the run hold all the same, so later exchanges start clean.
* `mailbox_stale_ready` (finding): without `PromptResponder` the requester takes
  the old `ready` for an answer and returns what the responder did not send: in the
  shortest behaviour an empty buffer, in others its own request. All runs assume
  `PromptRequester`, so the opposite race, a responder that polls a stale `wait`
  bit again, is not explored.
* `session_faults`: everything may fail, the SoC may be reset, and
  `spdm_requester()` may be called again and again. The BIOS heap holds two
  calls and three quarters of a third, so that a later call lacks the chain, the
  scratch buffer or the context; the firmware finds room for none, one, two or
  all of its blocks. `CallEnds`: the endless waits are the `while(1)` after a
  failed connection, and only after something has failed, and a firmware that
  has ended (deadlock is not checked because that wait is real).
* `serialboot_faults`: up to two bytes lost from the magic string or from any
  frame, or typed anywhere; three upload programs; `MAX_FAILURES` is 3 instead
  of 256, payload lengths 0 to 3. A payload of three bytes is the shortest for
  which a lost length byte can end a frame early *and* leave bytes for the next.
  A second disturbance can make the host take a late SUCCESS for a frame that
  was lost, because answers are not numbered; so `JumpWholeImage` and `Finishes`
  are stated for one, and deadlock is not checked, because the host may stop
  while the BIOS waits for a frame.
* `serialboot_empty_abort` (finding): a frame without payload is never complete.
* `mpi`: limbs of 8 bits and chars of 4, without the double-width type, on a
  little-endian machine. Seven programs: arithmetic on numbers made of the limbs
  at which carries turn, divisions of up to three limbs by up to two, modular
  functions with good and bad operands, exponents of up to 42 bits with windows
  of up to three, every number of callocs that succeed from 0 to 9, strings in
  seven radices, with a file that cannot be read or written, and buffers of up to
  five bytes. In two programs calls repeat on their own results, so leading zero
  limbs and negative zeros occur.
* `mpi_prime`: limbs of 4 bits, big-endian, with the double-width division.
  Every draw of every call is taken; numbers of up to two limbs, among them
  primes, squares and numbers with many liars; primes and safe primes of 3 and 6
  bits, and 2 and 9, which are refused. `CandidateBound` ends the search for a safe
  prime, which in the code has no end.
* `mpi_loops`: base 4 and two limbs, every content and overlap. `ArrayExact` says
  of whole arrays what `ResultExact` says of the limbs the loop has gone over.
* `boot_console`: two commands, eight documents (images before and after the
  boot arguments, an image twice at one place, an empty image, none, a file
  named like a register), each also given up by jsmn anywhere, on a stack that is
  blank or holds an image, two arguments and an address; files of up to two
  chunks; flash images around both limits; right and wrong addresses on three
  stacks. `TOKENS` and `UINT8` are scaled down together, from 32 and 256 to 12 and
  16, and the error is -3: it is still taken for more tokens, 13, than the array has.
* `measurements`: the firmware's sizes, every index, and room that is just enough
  and just not enough for each answer.
* `gth`: two resets or restarts from outside and two starts that come to nothing
  at any cycle; the timers keep the order they have in the design: the FSM's wait
  for the clock recovery (1024 cycles) is shorter than `cdr_lock_time` (5000), and
  that, with the times of PLL, MMCM and transceiver, shorter than the watchdog
  (125 000).

**Fairness.** `WF(RqStep)` and `WF(RsStep)`: each CPU keeps executing; a poll
whose condition stays true is seen. The call of libspdm (`RqSend`) and the reset
are not fair. In `SpdmSession` both programs are weakly fair; the call of
`spdm_requester()` (`RqContext`) and the reset are not. In `SerialBoot` the
BIOS's loops, its hardware timer and the host's program are weakly fair; `Start`
is not, because `spdm_requester()` may never return, and neither is the user. In
`BootConsole` the BIOS goes on with a command (`WF(ConsoleWork)`): FATFS returns
and TFTP gives up after its retries; nobody has to type. In `GthInit` the clock
runs.

Every property has a mutant in `PROJECT.json`: a small change to one definition
(the `Mut...` operators) under which TLC finds the property violated.

## 4. Proofs

`SpdmMailboxProofs` proves, for every set of bytes, every `MaxLen`, every
`FifoDepth >= MaxLen` and every choice of failing mallocs, assuming
`Undisturbed`:

| theorem | statement |
|---|---|
| `Inductive` | `IndInv` is an invariant |
| `TypeCorrect` | `TypeInv` |
| `OneMasterAlways` | `OneMaster` |
| `FifoDiscipline` | `CleanStart` and `NoOverflow` |
| `NeverUnderflows` | `NoUnderflow`, if no malloc fails |
| `RequestDelivered` | `RequestIntegrity`, if the responder's malloc does not fail |
| `ResponseDelivered` | `ResponseIntegrity`, if the requester's malloc does not fail |
| `ReadyFalls` | `ReadyFallsForRequest` |
| `MailboxImplementsChannel` | the safety part of `ImplementsChannel`, if no malloc fails |

The argument: the safety properties speak of single program points, so they are
not inductive. `IndInv` adds what holds between them. `ControlInv` ties the
control byte and the GPIOs to the two program counters and says who may move
(while `served` is false the requester stands in `recvPoll` and the
multiplexers point at the Microblaze). `SendInv` says that during a send the
FIFO holds the prefix clocked in so far. `RecvRequestInv` and
`RecvResponseInv` say that what a receiver has and what the FIFO still holds
make up the message; after a failed malloc only the lengths are known. There is
one lemma per driver function with one case per action; lemmas on sequences
(`PopSuffix`, `AppendPrefix`, ...) and on wires (`SendControl`, `ClockGpio`,
...) say what one edge does.

`SpdmSessionProofs` proves, for every heap, block size and choice of failures:

| theorem | statement |
|---|---|
| `SessionInductive` | its `IndInv` is an invariant |
| `SessionTypes` | `TypeInv` |
| `NothingLost` | `FailureLosesNothing` |
| `AlwaysConnected` | `ConnectedAfterInit` |
| `StartedFirst` | `NoRequestBeforeStart` |
| `SuiteAsDocumented` | `AgreedSuite` |
| `CleanCallsComplete` | `CleanCallCompletes` |

Here `ExchangeInv` ties the message under way to the phase the call has reached,
so that a connected responder is never asked for an earlier phase;
`ConnectingInv` says that during `libspdm_init_connection` the responder is
exactly one phase behind; `SuiteInv` follows the agreed algorithms from the
response to the requester; `ReadyInv` and `HeapInv` are what the set-ups need.
There is one lemma per part of a program, with one case per action.

`CleanCallCompletes` speaks of the end of a call, so `CleanInv` says what leads
there as long as neither side has failed: what each set-up has set (`SetUpInv`),
and that requester and responder are in step (`InStepInv`), whatever state an
earlier call or a reset left the responder in, because GET_VERSION takes it back.
From that the firmware serves what it is asked (`CleanServes`) and the requester
accepts what it is answered (`CleanAcceptable`).

`SerialBootProofs` proves, for every upload program, every number of damaged
bytes, every `MAX_FAILURES` and every magic string that satisfies
`SerialBootAssumption`:

| theorem | statement |
|---|---|
| `TypeCorrect` | `TypeInv` |
| `AckIsExact` | `AckExact` |
| `GiveUpIsExact` | `GivesUpOnStreak` |

The assumption that matters is that the first character of the magic string
does not come back in it (the string, `SFL_MAGIC_ACK`, is in LiteX's `sfl.h`);
with a string that has a border, `check_ack` would be wrong. `NoBorder` draws the
consequence: an input that ends with m characters of the string ends with no
shorter beginning of it, so a mismatch leaves only the first character to look
at. `AckInv` adds to `AckExact` that nothing has been heard before the start;
`Streak` says that `failures` is the length of the last run of answers other
than SUCCESS, and reaches the limit only where serialboot gives up.

`SerialImageProofs` proves one more theorem about it:

| theorem | statement |
|---|---|
| `ImageIsWhole` | `JumpWholeImage`, if every program of the host is an `Upload` |

`Upload` says that every frame has a payload and that nothing is loaded behind a
JUMP, as of a host that sends the address with every LOAD and JUMP and the JUMP
last; the frame without payload of `serialboot_empty_abort` is outside of it. The single
byte that is lost or typed may be anywhere: in the magic string, in a frame's
length, CRC or payload, before, between or behind frames.

The invariant, `JumpInv`, follows an upload through five stages. `InStep`: no
byte is damaged, or the damage does not show yet, and one frame or its answer is
under way (`Waits`, `Hears`, `Sends`, `Reads`, `Answered` say where). `Damaged`:
a byte is missing or too many, the host resends frame n after every answer, and
nothing is accepted yet. What matters is then not what is on the line, which may
be cut into frames at any place, but `Resync`: wherever, in the bytes read and on
the line (`stream`), a whole frame n ends, only whole frames follow. So the first
frame that passes the CRC puts reader and sender in step again, however often the
host has sent it in the meantime. `Accepted`: the typed character lies behind
the first frame, which was accepted. `InOrder`: copies of frame n are still on the
line and earn a SUCCESS each, so the host may be ahead of the BIOS, but every
LOAD it has sent is in memory or on the line (`Held`), and the line is sorted,
so a JUMP is executed last. `AllLoaded`: nothing is missing any more. Two lemmas
per property of the stream (`DropWhole`, `ExtendWhole`, `DropResync`,
`ExtendResync`) say that the BIOS taking bytes away in front and the host adding
a frame behind keep it; there is one lemma per stage, with one case per action.

`BootConsoleProofs` proves, for every number of commands, every set of documents
and files, every chunk size and flash content, and every failing call:

| theorem | statement |
|---|---|
| `OnlyWholeImages` | `NothingHalfLoaded` |
| `JumpsAsToldTo` | `JumpAsDocument` |
| `NoVolumeLeft` | `VolumeReleased` |
| `AddressesTaken` | `RightFormatTaken`, for every text and every content of the stack |

They rest on `BootAssumption` (sizes, places and limits are what they are called)
and `DocumentAssumption`: jsmn is given 32 tokens (`TOKENS`), and as a file with
more of them makes it return an error, none has more; what the stack holds behind
them is any sequence of tokens whose images go to places of RAM. `count` is an
unsigned byte in the code (boot.c:460, 720 and 901), so the bound is 252: an error
must not be taken for fewer tokens than there are.
The invariant `BootInv` has a part for each hazard. `Volume` says exactly where
the volume is mounted and the file open. `Tokens` says that the loop has as
many tokens as it counts, of the file alone or with leftovers, and that an image
among them, if its value is there too, has a place. `Copies` says that every place but that of the copy
under way is whole. `Follows` is the invariant of the loop over the tokens: the
arguments, the places and their images are what the tokens before `i` say.

`AddressesTaken` rests on `StackAssumption` and `TextAssumption` (stack and text
hold any of the characters told apart here) and is an induction on the characters
of the text. `Tracks` is what it shows of the parser after each of them: all parts
of the text but the last are converted, the last one's digits are in the buffer,
and behind them is NUL or, in the first part, what the stack held. `Continues`
relates the parts so far to those of the whole text, so that a part is known to
be a number before it is complete; `Converted` says when a conversion stops at
the end of the digits: if the buffer is not full, or the stack was clean. The
lengths that parse_ip checks follow from the number of parts and of their digits.

`MeasurementsProofs` proves, for every number and size of the blocks and every
room for the record:

| theorem | statement |
|---|---|
| `RecordsAreComplete` | `RecordComplete` |
| `SummariesCover` | `SummaryCovers` |
| `KeysAreFreed` | `KeyFreed` |

`MeasurementAssumption` wants the sizes to fit the 16-bit size fields, which the
firmware's do (the manifest, the largest, has 128 bytes), and `HASH_NUMBER` below
16, the index of the SVN block. `Inv` needs a closed form of the offsets that the
code adds up (`Place`): `RecordInv` says that the blocks written so far lie at
their places and nothing else does (`Laid`), `SummaryInv` that the reader stands
at the place of the block it is about to read and has taken what it should.
`PlaceAll` shows that the last place is the size computed beforehand.

`GthInitProofs` proves, for every timer, every time PLL, MMCMs and transceivers
may take, and every number of resets, restarts and hanging starts:

| theorem | statement |
|---|---|
| `ReadyMeansUp` | `ReadyIsUp` |
| `ReceiverOnRecoveredClock` | `ReadyIsRecovered` |

No condition relates the timers to each other; of the devices it is assumed only
that an answer does not rise sooner than it could have fallen (`GthAssumption`).
Neither property is inductive. `Fresh` says, in each state of a start that found
the transceiver down, that the answers in the flip-flops belong to this start.
`Recovered` follows the receiver's reset through CDR counter, MMCM and transceiver:
which of them still have their value from before the reset, and that those fall
before the next can rise on them. `OnTop` says that the receiver has left its reset
only on a transmitter whose watchdog is not about to fire.

`MpiLoopsProofs` proves, for every limb base, every array length, every overlap
of the arrays and every operand:

| theorem | statement |
|---|---|
| `Inductive` | its `IndInv` is an invariant |
| `ExactTheorem` | `ResultExact`: normal ends are exact, `sub_abs` fails only for a smaller left operand, `mpi_mul_hlp` leaves the array only if the result does not fit |
| `AccountKept` | `Account`: the ghosts are the integers in the limbs below the index |
| `ArraysExact` | `ArrayExact`: the same of the integers in the whole arrays |

`ResultExact` speaks of ends only. `IndInv` adds the loop's own equation, that
the limbs written plus the carry times the weight are the sum of the limbs read
(`Sum`, `Difference`, `Bounded`), and `ReadBeforeWrite`: from the index on
everything is as it was, which is what makes in-place operation right. One
lemma per kind of limb step (`AddStep`, `SubStep`, `MulAddStep`, `CarryStep`)
says that it loses nothing at the limb's width.

`ArrayExact` speaks of the integers in whole arrays, which are recursive functions
of them. `AccountKept` is an invariant of its own, and the limbs that a loop left
alone, because it ended early or the operand is shorter, are added to it at the
end (`WholeArrays`): two arrays that agree on some limbs differ in value by what the
other limbs are worth (`AgreeBelow`, `AgreeAbove`, `ZeroAbove`).

**Induction.** No backend instantiates a theorem with a predicate, so the
library's induction principles cannot be used as they are. Both modules take from
`WellFoundedInduction` that the naturals are well-founded and that a set then has
a least member, and state induction for a *set*: one that has 0, and m + 1 with
every m, has every natural. That a recursive function satisfies its equation
(its definition is a `CHOOSE`) follows by this induction on the length of the
domain (`Recursion`, `RecursionExists`).

Only model-checked:

* liveness under fairness, which is out of the prover's reach: `RequestAnswered`
  and the fairness part of `ImplementsChannel`, `CallEnds`, `EveryFrameAnswered`,
  `Finishes`, `CommandEnds`, `LinkComesUp`;
* everything about `Mpi`, `MpiModular`, `MpiIO`, `MpiCalls` and `MpiPrime`
  (`ResultExact`, `OperandsKept`, `NoLeak`, `WrittenExact`, `RandomUniform`,
  `PrimeNotRejected`, `BaseIsLiar`, `Generated`): the functions of bignum.c call
  each other in loops that are RECURSIVE operators, which the prover cannot reason
  about. Of these functions the limb loops, where the carries are, are proved.

## 5. Plan

Done: the mailbox, its channel and its proofs; the session and its proofs;
serial boot; the other boot media and the addresses, composed; measurements and
signing; the transceiver; bignum.c and the proofs of its limb loops; the proofs
about serial boot, the console, measurements and the transceiver; the proofs that
the image is whole, that whole arrays are exact and that addresses are taken.

Next: `SpdmMailbox` and `SpdmSession` composed, the session's channel replaced by
the mailbox; the shifts and the comparison of bignum.c as loops, like those of
`MpiLoops`, and proofs about them.

## 6. Not modelled

* `mbedtls/config.h`, `int_types.h` and the LiteX integration: options and type
  names without control flow.
* The PHY and GTH wrappers outside the initialisation's wiring and the SPDM
  registers: instances of vendor primitives, clock buffers, the PCS.
* The BIOS's own responder (`spdm_responder.c`): set-up code like the firmware's,
  with send and receive functions that only print; no message reaches it.
* The console commands of `cmd_bios.c`: each prints, or calls one function with
  what the user typed.
* The self test of bignum.c.
* The payload of a LOAD frame shorter than its address (`boot.c:259`): the host
  program always sends the address, and a frame's payload is kept whole here.
* The certificate chain's contents: it is a compile-time constant, and so are
  its length and the 16-bit field it is stored in (`spdm_requester.c:92`).
* The receive loops trust the peer's size register (`spdm_requester.c:345`):
  the size of `m_send_receive_buffer` is a libspdm constant outside the
  repository.
* The write of a fifth number on the stack by `parse_ip` before the text is
  refused (`boot.c:358`): what lies behind the array is not part of the model.
* SPDM's own messages and cryptography are libspdm's and mbedTLS's, outside the
  repository.

# TLA+ for swift-xdelta

swift-xdelta is a Swift package around xdelta3: a C library (`src/xdelta3/xdelta3.c`
and the headers it includes) that computes the difference of two files in the VCDIFF
format (RFC 3284) and rebuilds a target from a source and such a delta, a Swift driver
(`src/Sources/XDelta/XDelta.swift`) that moves the bytes, and a command line tool
(`xdelta3-main.h`) that does the same with files, pipes, a block cache and external
compression. This directory holds TLA+ modules for the decoder and the encoder, the
string matching, what encoder and decoder have to agree on, the secondary compressors,
the tool's block cache, its main loop with its child processes, and its merging of deltas;
the TLC configurations that check them on small instances; and proofs, checked by TLAPS,
of what holds in every instance.

## 1. The system

| Part | Where | State it keeps | Operations |
|---|---|---|---|
| Decoder | `xdelta3-decode.h`, integer macros of `xdelta3-internal.h`, stream calls of `xdelta3.c` | the case of the switch it is in (`dec_state`), half-read integers (`dec_32part`, `dec_64part`), header and window fields, three sections with read positions, address cache, the current opcode (two half-instructions), output buffer | `xd3_decode_input`, `xd3_avail_input`, `xd3_consume_output`, `xd3_abort_stream`, `xd3_close_stream` |
| Source blocks | `xd3_source`, `xd3_set_source*`, `xd3_getblk`, `xd3_blksize_*` | the block in memory (`curblkno`, `onblk`), the block asked for (`getblkno`), what is known of the end (`max_blkno`, `onlastblk`, `eof_known`) | request, provide, account |
| Address cache and code table | `xdelta3.c` 780-986, 1213-1396 | near and same slots; the 256 opcodes | encode/decode an address; choose an opcode |
| Encoder state machine | `xdelta3.c`, `xd3_encode_input` | `enc_state`, three input buffers (the client's, `buf_in`, `buf_leftover`), chains of output pages | ENC_INIT .. ENC_POSTWIN, close |
| Instruction optimiser (IOPT) | `xdelta3.c`, `xd3_iopt_*` | used/free lists of matches, `iout`, the source window | add, flush, pair, finish |
| String matching | `xdelta3.c`, `xdelta3-hash.h`, `xdelta3-cfgs.h` | two hash tables, chains, match in progress, how far the source is indexed | source and target matching |
| Secondary compressors | `xdelta3-second.h`, `-fgk.h`, `-djw.h` | FGK: a tree on each side, over all sections of a stream; DJW: tables, groups, sectors of one section | compress, decompress, decide |
| Block cache | `xdelta3-blkcache.h` | LRU or FIFO of blocks, the position of the file, the library's current block | `main_set_source`, `main_getblk_func` |
| Command line tool | `xdelta3-main.h`, `main_input` | input, output, pipes and child processes, the flush flag | read, feed, write, wait, close, clean up |
| Delta merging | `xdelta3-merge.h`, `main_merge_*` | whole states: instructions with positions in the whole target | append a window, merge, write |
| Swift driver | `Sources/XDelta/XDelta.swift` | one input buffer, one block buffer | the loop of `XDelta.code` |
| LZMA, tests, examples, bindings | `xdelta3-lzma.h`, `xdelta3-test.h`, `testing/`, `cpp-btree/`, ... | | |

How they interact. The client owns all I/O. It hands the stream a buffer
(`xd3_avail_input`) and calls `xd3_decode_input` or `xd3_encode_input` in a loop; the
return value says what the stream wants: `XD3_INPUT` (a buffer), `XD3_OUTPUT` (take
`next_out`, then `xd3_consume_output`), `XD3_GETSRCBLK` (put block `getblkno` of the
source into `curblk`), or a notification (`XD3_GOTHEADER`, `XD3_WINSTART`,
`XD3_WINFINISH`). The library runs on one thread. What is hard there is that each call may
return in the middle of anything (a byte of an integer, a section, a half-instruction, a
match or a copy across two blocks) and has to be resumed from the fields of the stream;
that the stream keeps pointers into buffers it does not own; that the same unsigned
arithmetic is done in 64 and 32 bits; that matches are found, trimmed and thrown away
again in one pass; and that encoder and decoder rely on caches and trees which they never
exchange. The command line tool is concurrent: it reads compressed files through a copier
and a decompressor and writes through a recompressor, children joined by pipes, each of
which may block or fail. `PROJECT.json` lists each of these at its line under `hazards`.

What makes each part correct:

* Decoder: what comes out is what the file means, whatever the buffers and blocks; an
  error is reported exactly at the invalid window; nothing is read from a replaced
  buffer or written beyond the output buffer; it comes to an end.
* Source blocks: a copy reads the bytes of the block it names; no request repeats for ever.
* Addresses and opcodes: the decoder reads what the encoder meant, in the shortest form.
* Encoder, IOPT, matching: the instructions of a window cover it once, in order; source
  copies lie in the declared source window; input and output are in order across calls;
  the delta means the input; no page is lost or freed twice, whatever allocation fails.
* Secondary compressors: a section comes back; the two trees never differ.
* Block cache: the block returned is the block asked for; sequential use never goes back.
* Tool: success means that all input is encoded and all output written; it always ends.
* Merging: the merged delta makes what the deltas make one after the other.
* Swift driver: all output is written once, an incomplete delta is an error.

## 2. The modules

```
XD3Int  <- XD3AddrCache <- XD3Addresses <- XD3Wire -- INSTANCE --> XD3InstCode <- XD3CodeTable
        <- XD3Source                XD3Wire <- MCWire
XD3AddrCache, XD3Source <- XD3Decode  <- MCDecode -- INSTANCE --> VcdiffFile, VcdiffDecode
XD3AddrCache, XD3Source, XD3CodeTable <- XD3Encode <- MCEncode -- INSTANCE --> VcdiffFile
XD3CodeTable <- XD3Iopt <- MCIopt
                XD3Iopt <- XD3Match <- MCMatch
XD3Second <- XD3Fgk, XD3Djw <- MCSecond
XD3Merge <- MCMerge       MCWire, MCMerge <- MCInstructions
XD3BlkCache <- MCBlkCache        XD3ExtComp <- XD3Main <- MCMain
XD3Int, XD3AddrCache, XD3Source <- XD3DataProofs
XD3Decode, XD3DataProofs <- XD3DecodeProofs
XD3Wire, XD3DataProofs <- XD3WireProofs
XD3Encode, XD3DataProofs <- XD3EncodeProofs     XD3BlkCache <- XD3BlkCacheProofs
XD3Iopt <- XD3IoptProofs; XD3Match, XD3IoptProofs <- XD3MatchProofs      XD3Main <- XD3MainProofs
```
(`A <- B`: B extends A.)

**XD3Int** the variable-length integers and the overflow macros. The radix (128) and the
widths of `usize_t` and `xoff_t` are constants, so that a small instance meets every
overflow; `DECODE_INTEGER_TYPE` keeps a part between calls (`Shift`, `PartFull`),
`READ_INTEGER_TYPE` reads from a complete section (`ReadInt`).

**XD3AddrCache** `xd3_init_cache`, `xd3_update_cache`, `xd3_encode_address` (the order of
the candidates, the early exit, the preference for SAME) and `xd3_decode_address`, with
the unsigned wrap of its sums.

**XD3Source** the source as the library sees it; `Request` and `Account` are the two
halves of `xd3_getblk`, `Provide` is the client's answer.

**XD3Decode** the decoder and its client. `ret` is `"run"` (or `"emit"`, inside
`xd3_decode_emit`) while a call is in progress, else the value last returned, so that one
behaviour shows both what happens inside a call and what the client does between calls.
One action is one case of the switch, one byte of an integer, one step of a section, one
opcode (`DecodeInstruction`, both halves, as `xd3_decode_instruction`) or one turn of
`xd3_decode_output_halfinst`. The client's actions are those of the loop of
`XDelta.code`: `AvailInput` with a buffer of any size in `FeedSizes`, `ConsumeOutput`,
`ProvideBlock`, `Continue`, `Close`, and `Abort` for the tool that prints headers.
How variables correspond:

| Model | Code |
|---|---|
| `file`, `fed`, `buflen` | the client's file; what was handed over; the length of the last buffer. `next_in` is the position `fed - avail_in` of the file |
| `part` | `dec_64part` ("size"), `dec_32part` ("offset") |
| `hdr`, `win` | the fields read from the file header and the window header |
| `sect[s].size, pos` | `xd3_desect` size, pos |
| `sect[s].zerocopy`, `at` | the section points into `next_in`, at this file position |
| `sect[s].copied1` | the bytes in the section's own buffer (it may be longer than the section, from a window before) |
| `sect[s].buf` | how far `buf` has advanced when reading instructions |
| `cur[1]`, `cur[2]` | `dec_current1`, `dec_current2` |
| `out`, `space_out` | `next_out[0 .. avail_out)` and its capacity |
| `src` | the fields of `xd3_source` the decoder uses |

**VcdiffFile, VcdiffDecode** the abstract specification. `VcdiffFile!Decoded` reads a
whole file in one go, a list of fields at a time, without buffers, calls or blocks, and
defines a copy byte by byte: this is what the file *means*, by the format and by the
limits the library sets (no secondary compressor, no code table, no `VCD_TARGET`, the
greatest window). `VcdiffDecode` is a three-action specification of what the client is
promised: windows delivered whole, in order; `Reject` only at the invalid window; a good
close only at the end of a window. These two modules are references to compare with, so
their definitions are not mapped to lines.

**XD3Addresses** encoder and decoder side by side; only mode and bytes pass from one to
the other. **XD3CodeTable** is `xd3_build_code_table` and `xd3_choose_instruction` with
the real numbers, **XD3InstCode** the pairing of instructions around `iout`. **XD3Wire** puts the two
things written of an instruction, the address and the opcode, together.

**XD3Iopt** the encoder between a window of input and its instructions. One action is one
turn of the loop of `xd3_string_match` (`RunFound`, `SourceFound`, `TargetFound`,
`NothingFound`), the match that goes on from the window before (`Search`), the final flush
(`Instr`), or the reset between two windows (`NextWindow`). Each calls what the code calls:
`FoundMatch` takes a slot, which may grow the buffer or flush half of it (`Flush`, with the
optimiser's pass `Optimize` before it), which may decide the source window
(`SrcwinSetup`), and `HandleLazy` says where the loop goes on and with which `min_match`.
What the hash tables hold is left open: at each position any true match may be found, or
none, so that the model has every history of insertions, evictions and chains of the
tables, for the default matchers and for `XD3_NOCOMPRESS`. How variables correspond:

| Model | Code |
|---|---|
| `total_in`, `avail_in`, `input_position`, `min_match` | the fields of the stream; the window is `avail_in` bytes of the target from `total_in` on |
| `run` | `run_l` and `run_c` of the loop |
| `match` | `match_state`, `match_srcpos`, `match_last_srcpos` |
| `iopt.used`, `.free`, `.size`, `.iout` | the list `iopt_used`, the length of `iopt_free`, `iopt_size`, `iout` |
| `iopt.srcwin` | `srcwin_decided`, `srcbase`, `srclen` (and `taroff`), `match_minaddr`, `match_maxaddr` |
| `iopt.out` | the instructions of the window that went through `xd3_iopt_finish_encoding`, an ADD or RUN with its bytes |

`Rebuilt`, which belongs to the property and not to the model, is what a decoder makes of
`iopt.out` and the source window.

**XD3Encode** `xd3_encode_input` and its clients. One action is one state of the switch
or one step of it (`EncInit`, `BufferInput`, `UseBuffer`, `Search`, `EncodeMatch`,
`AddFinalize`, `Flush`, `NextPage`, `EncodeReset`, `PostWin`, ...). The
client's buffer is memory that its next read overwrites, and `next_in`, `buf_leftover` are
pointers (`Null` or a place in a buffer); output pages are numbered memory that is linked
into the chains of the sections, spliced into one at the end of a window, output page by
page and freed or used again. Every allocation may fail. What was *found* in a window is
any set of true matches; how it is written (opcodes, addresses, data, headers, checksum)
is the code's. `DeltaMeansInput` reads the bytes the client has been given back with
`VcdiffFile`, the abstract specification of the decoder. The clients are the loop of
`XDelta.code` and `main_input` ("feed"), `xd3_process_stream` ("memory"), and one that
never sets `XD3_FLUSH` and may go on without taking the output ("careless").

**XD3Match** refines the choice that `XD3Iopt` leaves open: the two hash tables with their
chains, the index of the source that runs ahead of the input
(`xd3_srcwin_move_point`), matches extended backward and forward over blocks that may each
have to be asked for (`xd3_source_extend_match`, re-entered from `ENC_SEARCH`), and the
source read either block by block on demand or through the tool's FIFO, which refuses to go
back (`XD3_TOOFARBACK`). It uses the buffer, the optimiser and the loop of `XD3Iopt`.

**XD3Second**, **XD3Fgk**, **XD3Djw** the bit coding and `xd3_encode_secondary`; FGK symbol
by symbol, with encoder, decoder and a stream of damaged bits; DJW in the stages of the
encoder (`HowMany`, `SingleGroup`, `DivideGroups`, `Iterate`, `EmitGroups`) and `Decode`.

**XD3BlkCache** `main_set_source` with its first read, `main_getblk_func` with the two
policies, sources that seek, do not, or stop seeking, and `xd3_getblk` above it. One read of
the file is one step, and may fail.

**XD3ExtComp**, **XD3Main** the tool. `XD3ExtComp` has the pipes (bounded, with the sets of
processes that hold each end) and the children: the copier, the decompressors, the
recompressor; a fork passes on what the tool holds at that moment. `XD3Main` is the control
of `main_input` from its first read, one action per read, call of the library, write, fork,
close or wait. The library is seen by its return values only, since the modules above say
what it does. Reads, writes, forks, opens, the closing of the output, children and the library
may fail whenever they happen.

**XD3Merge** a delta is a sequence of windows of instructions. `ReadWindow` appends one to
the whole state, `MergeInst` merges one instruction, `SourceCopy` being the recursion of
`xd3_merge_source_copy`, `OutputInst` and `OutputWindow` are the two levels of
`main_merge_output`. `OutputBegin` refuses a window that does not begin where the one of the
input did ("offset mismatch"); no job comes there. A first window without a checksum has the
initial value of `dec_adler32` (`Zero`).

## 3. The runs

| Run | Question | Bounds |
|---|---|---|
| `decode` | Does the decoder compute what the file means whatever the buffers, refuse every invalid file where it is invalid, keep all bounds, stop at window ends when it skips, and end? `DecodesFile`, `Terminates`, `TypeOK`, `InputConserved`, `SectionsLive`, `PositionExact`, `EndsAtWindow`, `OutputBounded`, `CopyInside` | two valid files of 2 and 3 windows (application header, checksums, an empty window, copies over block ends in both halves of an opcode, overlapping copy, near/same/here addresses, sizes in two bytes) with all flag settings; a file with every field, each byte changed to each other value, cut at each place, each byte dropped; files with sizes that wrap, oversized numbers, a code table, a compressor id, `VCD_TARGET`, the longest application header; buffers of 1 or 20 bytes, chosen anew for every buffer; source of 10 bytes in blocks of 4 |
| `instructions` | Do the two address caches stay equal, and is the address shortest unless its own distance is taken for one byte? Do the opcodes written decode to the instructions meant, and is none missed? Does a merged delta make what the deltas make one after the other? `Lockstep`, `ShortestUnlessMasked`, `DecodesAsMeant`, `NoMissedOpcode`, `MergedMeansAll` | radix 2, 2 near slots, 4 same slots, positions up to 11, an `unsigned int` of 8 values; the real code table, all sequences of 3 instructions over all 9 modes and the sizes on both sides of each limit; merging: every pair of two-instruction deltas over a source of 4 bytes; first deltas whose copies chain and overlap; two and three deltas of up to three windows, with checksums or without, with parts of the version before as copy windows; deltas that do not follow on each other |
| `iopt` | Do the instructions rebuild each window, whatever was found, dropped, trimmed, or flushed in the middle? `EncodesWindow`, `BufferSound`, `MatchGoesOn`, `SourceWindowCovers` | every target of 12 letters of two kinds and targets of 20 in windows of 12 and 8, with a buffer that grows by 3 slots; and 6 slots, the source's end known or not, with targets of 14 to 45 letters in most of which lazy matching finds a match at each position, and sentences of 5 words; with `XD3_BEGREEDY` and no lazy matching, the longer ones of these in both buffers |
| `encode` | Is the input encoded once and in order, in a delta that means it, with every page freed once? `InputInOrder`, `DeltaMeansInput`, `FreesEachPageOnce`, `ClosedComplete`, `TypeOK`, `Terminates` | files of 0 to 14 bytes in windows of 4, 5 and 10, pieces of 1 to 4 bytes in every order; pages of 6 bytes, so that a header and each section take several; allocations that fail after the first 0 to 8 pages; three clients; the real code table and radix |
| `match` | Are the matches true, as long as they can be, never asked of a block that is gone, and does the search end? `EncodesWindow`, `NeverInternal`, `SourceMatchMaximal`, `IndexTrue`, `MatchTerminates` | sentences of 4 and 5 words against three sources of 1 to 4 blocks; a source of six blocks that is copied twice; blocks of 8, a source window of 2 or 4 blocks, by request and by FIFO; chains of 2 and 3, `sprevsz` 8 |
| `second` | Do both trees stay equal and well formed, on good and damaged bits? Does a section come back? `SameSymbols`, `TreesSound`, `SectionComesBack` | FGK: 4 symbols, all sequences of 6; DJW: 7 letters, codes of at most 4 bits, sections of 3 to 72 letters, 1 to 4 tables, sectors of 2 to 8 |
| `blkcache` | Is each block what it says, is what the library points to left alone, and what has to be kept kept? `LabelsTrue`, `CurrentBlockHolds`, `WindowKept`, `KeepsRecent`, `EofTrue` | 3 slots of 2 bytes; sources of 0 to 15 bytes: regular, device, pipe, compressed; seeking always, never or until it fails; blocks up to number 7 in every order; reads that fail |
| `tool` | Does success mean that everything was done, and does the tool end? `CompleteOnSuccess`, `AllEnd` | inputs of 0, 1, 3, 4 and 5 units for a first read of 2 and windows of 3, sources of none or 3, each compressed or not; encode, decode, print the header; pipes that hold one unit; every kind of failure at any time |
| `iopt_overlap` (violation) | `Contiguous` with fewer slots than `max_lazy` | |
| `wire_wide` (violation) | `Shortest`, where a distance is wider than an `unsigned int` | as `instructions` |
| `second_zeros` (violation) | `SectionDecoded` without the restriction that the tables leave out the same letters | |
| `tool_read` (violation) | `CompleteOnSuccess` when a second read of the first block fails | |

`instructions` holds two models side by side, addresses and opcodes (`MCWire`) and merging
(`MCMerge`); they share no state, so that a behaviour is about one while the other rests.

Why the bounds are enough. In the decoder instances a byte has 16 values and a digit 3
bits, `usize_t` has 512 values: a number takes one to three bytes, so it is cut by a
buffer at every place and overflows in the same three ways as in the code (in its last
digit, in the first sum, in the second). The code table has the shape of the RFC table
(RUN, ADD with and without size, copies of every mode with and without size, ADD-COPY and
COPY-ADD pairs) in 16 opcodes. Four-byte blocks make a copy of eight bytes cross one or
two block ends, from either half of an opcode. Buffers of 1 byte cut everything, buffers
of 20 hold whole sections, which are then left where they are, and both occur in one
window. Three instructions are enough for the pairing because `iout` never holds more than
one. `expected`, a constant of the behaviour that `MCInit` sets, only saves computing
`Decoded` in each state.

In the `iopt` instances `MIN_MATCH`, `MIN_RUN` and the look-ahead of four bytes are the
code's; `MAX_MATCH_SPLIT` is 5 for 18 and `large_look` 4 for 9, the least values for which
each branch of the optimiser is taken by matches of 4 to 9 bytes, so that twelve bytes hold
two or three overlapping matches. With six slots the source window is decided while
matches are still being found, candidates outside it occur on either side, and the buffer
fills several times in a behaviour. In `match` a word is shorter than a block, so that
words begin, end and differ on either side of a block end; a match is extended over up to
three blocks; the FIFO holds fewer blocks than the source has.

In `encode` a page is shorter than the shortest window header, so that every window uses
and frees several, and an allocation fails in the header, in each section and between them. In `second` the
constants of DJW are scaled down together: a code of 4 bits overflows on weights like the
Fibonacci numbers, as one of 20 bits does, and sections take several sectors with a short
last one. Three slots are the least for which the oldest, the newest and one between
differ. In `tool` a pipe of one unit blocks each writer and each reader; inputs end before,
at and after the end of the first read and of a window. In merging a piece of three bytes
begins and ends inside those of two that it is made of.

The main runs take `xoff_t` as wide as `usize_t`, as in the command line tool's build with
`XD3_USE_LARGEFILE64`.

Deadlock is checked in `decode`, `encode` and `blkcache`, which always go on (the decoder's
`Stopped` is enabled only after an error or a close). In the others an input ends; that
it does is `MatchTerminates` and `AllEnd` in the two that could hang.

Every property is also run against a mutant of the model, a plausible bug (`PROJECT.json`,
`mutants`): for instance `ZeroAlone` decides zero-copy for each section by itself,
`LeftSameAddr` forgets to advance the address when a copy is split, `OpenEndsOutput` waits
for the children before the output is closed. TLC finds the property violated in each.

### What the violations show

* `iopt_overlap`. `xd3_iopt_finish_encoding` asserts `unencoded_offset == inst->pos`. A
  partial flush leaves the last two matches uncompared, but takes one before it looks how
  many there are; if the optimiser has dropped all but two that overlap, the overlap is
  encoded twice. That needs a chain of overlapping matches that fills the whole buffer: of
  lazy matches, with no more slots than `max_lazy` (with 6 slots and `max_lazy` 5 there is
  none, `iopt`), or of matches that each reach back over almost all of the one before, for
  any number of slots; to fill the tool's default of 2^15 slots so is far from any real
  file. The buffer that grows, which `iopt_size` 0 asks for, never does it
  (`AlwaysContiguous`, section 4).
* `wire_wide`. `SMALLEST_INT(x)` is `((x) & ~127U) == 0`. The mask is an `unsigned int`; with
  `usize_t` of 64 bits the upper half of a distance is not looked at, so that one of 2^32
  "fits one byte", the search stops, and five bytes are written where a later mode takes
  one. It needs a source window of more than 2^32 bytes, which the `-B` option accepts up to
  2^61 (`XD3_MAXSRCWINSZ`). The comment promises the smallest value, "thereby minimizing the
  encoded size of the address". It costs bytes only: the address is read as it was meant
  (`Lockstep`), and nothing else costs any (`ShortestUnlessMasked`, proved for all widths).
* `second_zeros`. DJW leaves absent symbols out of the second and later tables, since "we
  already know the zero frequencies" from the first. When a code overflows, the
  frequencies are scaled with one added to each, also to the absent symbols, in this table
  only. The tables then disagree on what is absent, and the section cannot be read. It
  needs a code longer than 20 bits. `SectionComesBack` is the same property for the
  sections whose tables agree.
* `tool_read`. The first block of an input is read in two parts, to look for a magic
  number in the first. The result of the second read is stored and never looked at, though
  the function "behaves exactly like main_file_read, otherwise"; after an error the short
  block counts as the end of the input, and the tool reports success.

### What else was met

Disagreements or oddities that no run is about:

* `XOFF_T_OVERFLOW` casts to `xoff_t`; in the Swift package `usize_t` has 64 bits and
  `xoff_t` 32, so a `dec_cpylen` of 2^32 + n is checked as n (`xdelta3-decode.h:1030`).
  `VcdiffFile` describes the check as it is.
* `dec_position + size > dec_maxpos` (`xdelta3-decode.h:351`) wraps for sizes near 2^64;
  `xd3_decode_output_halfinst` refuses them before it writes (`OutputBounded`).
* `XD3_BEGREEDY` (`.greedy` in the Swift package) lets a source match reach back to the end of
  the last match, but does not turn lazy matching off. The next position may then be inside
  that match, ahead of the limit, against the assertion `input_position >= greedy_or_not` of
  `xd3_source_match_setup` (`xdelta3.c:3755`). Without `XD3_DEBUG` the unsigned difference
  wraps and is no limit (`BackRoom`, which takes what lies before the window to differ). The
  assertion is not among the properties: the runs have `XD3_BEGREEDY` without lazy matching.
* The exception for position 0 in the test against trying a position again
  (`xdelta3.c:3706`) cannot be reached with the built-in matchers.
* `xd3_close_stream` checks the state and `avail_in`, not `buf_avail`
  (`xdelta3.c:2010`), so an encoder closed without a flush can report success with
  buffered input, contrary to the comment above; `ClosedComplete` is about clients that
  flush. The decoder may be closed after one to three bytes of the magic.
* The FGK encoder's tree learns a section that `xd3_encode_secondary` then discards, while
  the decoder's does not. `SameSymbols` holds as long as nothing is discarded (`lost`).
* The order of weights described in `xdelta3-fgk.h:42-48` can break once all symbols have
  been seen; the coder does not depend on it.
* A read error of the copier goes unnoticed: `xdelta3-main.h:2257` tests for a negative
  result, while errors are positive. The copier then never ends. It is in the action
  `CopierReadFails` of `UnnoticedSpec`.
* Decoding a compressed delta with a compressed source into a recompressed output starts
  five children, and there is room for four (`MAX_SUBPROCS`); `MCJobs` leaves this out.
* `main_external_compression_finish` leaves a failed child in `ext_subprocs`, so the
  cleanup kills a process that has been waited for.
* `XD3_ASSERT (is_new)` in `main_read_seek_source` (`xdelta3-blkcache.h:420`) can fail. When
  the length of a pipe is a multiple of the block size and the block beyond its end has been
  read (size 0), asking for the next one skips over a block that is held already. The
  assertion is compiled out in normal builds, and nothing wrong follows.
* `xdelta3.h:1347` says that a piece of input longer than the window size is consumed all
  the same. If bytes are in the stream's buffer already it would leave a leftover of a window
  or more, which `xdelta3.c:2867` asserts against. The comment advises pieces of a window, and
  that is what the clients give (`EncodeAssumption`).
* Merging takes a window over the target (`VCD_TARGET`) in the *first* delta for one over
  the source (`xdelta3-merge.h:204`, `505`), which xdelta3's own decoder would refuse; the
  indicator of the last window read decides about the checksums of all
  (`xdelta3-main.h:1921`); a copy that begins inside and ends behind the version before
  is stopped by an assertion only; and the depth of the recursion is not bounded (the TODO
  in `xd3_merge_source_copy`). `MCMerge` has deltas without these.

### Fairness

`Terminates` of the decoder needs weak fairness of `Stream` and of `Client`. `Stream` is
single-threaded code which, once called, runs to its next return. `Client` is the loop of
`XDelta.code` (and `main_input`, and `xd3_process_stream`), which after each return either
calls again or stops; nothing is assumed about which buffer size it picks. `Terminates` of
the encoder and `MatchTerminates` assume the same, stated as `[]<>` (ended) or `[]<>` (a
step): one of them always can go on until the end, and does. In `XD3Main` each process,
the tool and each child, is weakly fair, since the operating system schedules them all;
no failure is, so none has to happen. A child that blocks on a pipe is not enabled.

## 4. What is proved

Eight modules hold theorems, each about every value of the constants that satisfies the named
assumptions.

| Module | Theorem | Says |
|---|---|---|
| `XD3DataProofs` | `PartFullExact` | the test `part & OFLOW` made *before* a digit is added refuses exactly the numbers that do not fit |
| | `WrittenIsRead` | `READ_INTEGER_TYPE` reads back what `EMIT_INTEGER_TYPE` wrote, and stops after it |
| | `SizeIsLength` | `xd3_sizeof_size` is the number of bytes written |
| | `EncodedIsDecoded` | what `xd3_encode_address` writes, `xd3_decode_address` reads, whatever follows |
| `XD3DecodeProofs` | `InductiveInvariant` | `Spec => []IInv` |
| | `TypeCorrect` | `[]TypeOK`: no unsigned counter wraps below zero |
| | `InputIsConserved` | `[]InputConserved` |
| | `SectionsAreLive` | `[]SectionsLive`: no read from a replaced buffer |
| | `OutputIsBounded` | `[]OutputBounded`: no write beyond the output buffer |
| | `CopiesInside` | `[]CopyInside`: copies read only what exists |
| | `PositionIsExact` | `[]PositionExact`: HERE, the window's offset and `total_out` are what they count |
| `XD3WireProofs` | `CachesInLockstep` | `[]Lockstep` |
| | `NoShorterMode` | `[]ShortestUnlessMasked`: only a distance that `SMALLEST_INT` takes for one byte keeps an address from being shortest |
| | `ReadAsMeant` | `[]DecodesAsMeant`: the opcodes written are read as the instructions meant, each once and in order, for every type and size |
| | `NoOpcodeMissed` | `[]NoMissedOpcode`: no size and no second opcode is written where the table has one |
| `XD3BlkCacheProofs` | `CacheInvariant` | `Spec => []CacheInv` |
| | `LabelsAreTrue`, `CurrentBlockIsHeld`, `WindowIsKept`, `RecentBlocksAreKept`, `EndIsTrue` | the five invariants of the block cache |
| `XD3EncodeProofs` | `WindowsAreTheInput` | `[]InputInOrder`: each byte is encoded once and in order |
| | `EachPageIsFreedOnce` | `[]FreesEachPageOnce`: no page is lost or in two chains, whichever allocation fails |
| | `EncoderTypes` | `[]TypeOK`: links, sizes and addresses stay in range, and all that is written is bytes |
| `XD3IoptProofs` | `Growing` | `Spec => []GrowingInv`: true matches in order are held, and nothing else is done to a window before its end |
| | `AlwaysEncodesWindow` | `[]EncodesWindow` for a buffer that grows: a decoder rebuilds the window, byte for byte |
| | `AlwaysContiguous`, `AlwaysBufferSound`, `AlwaysGoesOn` | for a buffer that grows, the assertion on `unencoded_offset`, the buffer and the source match |
| | `AlwaysCovered` | `[]SourceWindowCovers` for a buffer of *any* size and any flags: the source window decided in the middle of a window covers every copy still held |
| `XD3MatchProofs` | `Finding` | `MatchSpec => []FoundInv`: source, index, tables, FIFO and the match that is followed are sound |
| | `AlwaysIndexTrue` | `[]IndexTrue` for a buffer that grows: the tables hold true positions, the source is not indexed beyond its end |
| | `AlwaysMaximal` | `[]SourceMatchMaximal`, unless `XD3_BEGREEDY` is set: a match found in pieces is true, and as long as it can be |
| | `AlwaysHeld` | `[]NeverInternal`, if the FIFO is not too short: the index needs no block that was given up |
| | `FoundEncodesWindow` | `[]EncodesWindow` for the matches that the tables find |
| `XD3MainProofs` | `SuccessIsComplete` | `[]CompleteOnSuccess`: success means that all input is in the output |

### The decoder

None of the five invariants of `XD3DecodeProofs` is inductive alone. `IInv` adds what each
case of the switch silently relies on:

* `Returned`: from which cases a call can have returned with which value (a source block
  is asked for only in `DEC_EMIT`, input never).
* `Progress`: `dec_winbytes` is what has been taken of the three sections, so that
  `Need - dec_winbytes` does not wrap.
* `SectInv`, with `Held` (a complete section is where it says it is) and `Ahead`: *if one
  section was left in the buffer, the rest of all three is in the buffer too*. This is why
  no input can be asked for while a pointer into the buffer is in use, and why zero-copy is
  decided on the sum of the sections and not on each.
* `Quiet`: between windows no output and no instruction is pending.
* `EmitInv`: a copy's address is below what will have been written when its turn comes.
  It holds for the second half only by counting the first half's size.
* `OutInv`: the capacity, and the announced length, are bounded. It carries
  `OutputBounded` itself and keeps `avail_out + size` from wrapping after the check.
* `SrcInv`: `onblk` is the length of block `curblkno`.

Each action has a lemma `<Action>Step == IInv /\ <Action> => IInv'`, with frame lemmas for
the groups of actions that leave most conjuncts alone (`HeaderFrame`, `WindowFrame`,
`EmitFrame`, ...); `NextStep` puts them together.

`PositionExact` speaks modulo the widths. What carries it is `Exact`, the same equation
without the modulus and with the number of times `dec_position` has wrapped, and `Counts`,
which says for each case of the switch whether the window just finished is already in
`dec_winstart`, in `total_out`, and with the client. `PInv` is these with `IInv`.

### Integers, addresses and opcodes

`WrittenIsRead` needs induction over the digits. The induction theorems of the library take
an operator as a parameter, which the provers cannot instantiate; `NatSets` is induction for a
*set* of numbers, from the least element of a set (`WFMin`), and with it facts about the
recursive *functions* of `XD3Int` are proved: `EmitIntFacts` (a written integer is the digits
of a number, each but the last with the high bit), `DigitsToAgree` and `SizeIs` (a number has
n digits if it is below Radix^n), `SizeFacts`.

`Lockstep` is inductive with the types and with `SlotsTrue`: a slot of the SAME cache is
empty or holds an address of its own residue. That is what makes the decoder's
`same[m * SameBlock + byte]` the encoder's `same[addr % n]`, and it is the one place where
`SSame * SameBlock` being the modulus of both matters. `ShortestUnlessMasked`
follows from the order in which the candidates are tried and `SizeFacts`: the first distance
that `SMALLEST_INT` accepts takes one byte, or is `Masked`; without one the smallest is
taken. Nothing is assumed of the widths of `usize_t` and `unsigned int`.

`ReadAsMeant` and `NoOpcodeMissed` are about any number of instructions of every type and every
positive size (`WireAssumption`: `xd3_iopt_add` and the optimiser hand over no empty
instruction). They rest on the layout
of the code table. `TableAt` says that what the loops of `xd3_build_code_table` make has each
opcode where `IsTable` puts it (RUN at 1, the ADDs from 2, the 16 opcodes of COPY mode m from
20 + 16m, and so on, counted from 1 as sequences are), and `OpcodesAre` that there are no
others. `SingleFound`, `PairFound` and `PairMissed` then say that the constants of
`xd3_choose_instruction` point at the row meant, or that the table has no such row. The table
is a concatenation of concatenations made by `FlattenSeq`, which the community modules define
by a recursive function; `FlattenAppend` and `FlattenAt` are what the proof needs of it, by
the same induction over a set.

The invariant `CInv` has in it what the code relies on when it holds one instruction back:
what is in `iout` carries the opcode it has alone (`Kept`); what a decoder reads in the section,
followed by what is held back, is all that arrived (`Read`, `Pending`); neighbours in the
section that are not pairs could not have been one (`Section`, `Apart`), nor could the last of
them and the one held back, and *after a pair nothing is held back* until another arrives
(`LastApart`), without which `NoMissedOpcode` is not inductive.

### The block cache

`CacheInv` is `TypeOK` with

* `Linked`: the list has each slot once;
* `Opening`: nothing has been cached or learnt before `main_set_source`;
* `Descriptor`: the file stands at a multiple of the block size or at its end, where
  `source_position` says it does, and a read begins at the block that was asked for;
* `Labels`, `Placed`: a slot with a number holds that block, whole, no other slot holds it,
  nor the block that is about to be read; with FIFO replacement it is the slot of that number
  modulo the number of slots;
* `Current`: between two calls, what `curblk` points to is the block `curblkno`;
* `Window`, `Order`: a FIFO that never seeks holds all numbers from some n back, apart from
  the slot that was taken, and the file stands behind n; an LRU list is in the order in which
  blocks were asked for;
* `End`: `EofTrue` with the size of the last block.

`BlkCacheAssumption`: `main_set_source` makes the source window a multiple of the number of
slots; the size of a file that is not compressed, if `fstat` gives one, is its length; a
compressed source is a pipe.

### The encoder

`EncInv` has the bookkeeping of `xd3_encode_buffer_leftover` and the entry of
`xd3_encode_input`:

* `ClientBuffer`: what the client's buffer holds is the last piece it handed over;
* `Accounted`: what was handed over is what went into windows, what the stream holds, and
  `Pending`, which depends on the case of the switch;
* `NextIn`, `Collected`, `LeftoverHeld`: what `next_in`, `buf_in` and `buf_leftover` point to
  is the piece of the input that follows what is before it, *while it is still there*:
  `next_in` and `buf_leftover` may point into memory that the client overwrites on the next
  call, and may be used only until then;
* `Control`: in which cases each pointer may be null, and which call comes next;
* `WindowTrue`: the window is the input from `total_in` on.

The pages need more. Five chains of links, the free list and the four sections, are read as
sequences of pages (`PageLists`) that have no page in common and together have all pages.
Each operation on links is shown to be one on the sequences: `xd3_alloc_output` takes the
first of the free list or appends a new page (`AllocatedLists`), the sections are joined
(`JoinedLists`), a page is put in front of the free list (`FreedLists`), and the chain is
taken apart again so that one page is left to each section (`UnsplicedLists`). Loops are recursive functions in the model, and their
invariants follow by induction over a set of numbers (`NatSets`). Then

* `PageInv` says which lists there are in which state: each section has a page to write to
  while a window is encoded (`Writing`), after `ENC_FLUSH` the list of the header has all
  pages of the window and at least the four with which the next one begins (`Outputting`),
  and at any time, also after an allocation has failed, each page is in one list (`Paged`);
* `CodeInv` says that the matches that are left lie inside the window and inside what they
  copy from (`Encodable`). An address is therefore below HERE when it is encoded, the cache
  stays a cache, and what is written to a section are bytes (`EncodedIsDecoded`). It is also
  what keeps a section's page in its list while the section is written.

`EncodeInv` is `EncInv`, `CodeInv` and `PageInv`; with `HeldInv`, the types of what only the
client sees, it implies `TypeOK`.

`EncodeAssumption`: files, the application header and the magic are sequences of bytes, and a
checksum is one; the radix is 128 and the modes are those of the code table, as the build
fixes them; a window with the whole source fits into `usize_t`; and the client hands over at
most `winsize` bytes at a time, as all clients in the repository do (see "What else was met").

### Matches and instructions

Most of `XD3IoptProofs`, all but its last section, is about `Unlimited`: `iopt_size` is 0, as
a client leaves it that only sets the flags, so that the buffer grows when it is full;
and `XD3_BEGREEDY`, if set, goes with `max_lazy` 0. Files, windows, what the hash tables find, `max_lazy`, the address modes and
`MAX_MATCH_SPLIT` are arbitrary. Nothing is then encoded before the end of a window, and
`IoptInv` says:

* `Gathering`: what is held are *true* matches (`Matches`: the bytes are those of the source,
  of the window itself or of a run; a source match is inside `match_minaddr` and
  `match_maxaddr`), in the order of their beginnings and of their ends, none shorter than
  `MIN_MATCH`, and every slot is held or free;
* `Looking`, in the loop of `xd3_string_match`: a match that is long enough ends after all
  that are held (this is what `min_match` is for), `run` counts equal bytes before the
  position, and with `XD3_BEGREEDY` no match reaches beyond the position;
* `Written`, at the end of a window: some source window w has been chosen, each instruction
  says what it stands for under it, and each begins where the one before it ended
  (`Encoded`);
* `MatchInv`: a match that is to go on has its last byte right before both positions.

The steps: `EraseKeeps`, since a source match that reaches back erases what begins after
it and so still ends last; `FoundKeeps`, `WidenKeeps`; `OptimizeFacts`, the pass of the
optimiser as a loop whose every step drops or trims a match and leaves true matches that do
not overlap up to where it stands, none empty; `FlushKeeps` with `InstrEncodes`, which
writes them and the bytes between; and `RebuiltIs`, the decoder's side: by induction over
the instructions what has been rebuilt is the window up to there, where a copy that overlaps
itself (`CopiedIs`) needs induction over its bytes. `Repeated` gives the values of the
recursive functions that stand for the loops.

For a buffer of a fixed number of slots `AlwaysContiguous` would be false: that is
`iopt_overlap`. What else `iopt` shows of such buffers is model-checked only, but for the
source window. That is the last section of `XD3IoptProofs`, without `Unlimited`: a small
buffer has to decide the window when it is emptied in the middle, from the copies that it
holds and a guess at what may come, and the copies found later must be cut to it. Its
invariant is smaller. `CoverInv` asks of a held source copy neither that it is true nor that
it is in order, only that it lies within `match_minaddr` and `match_maxaddr`, these inside the
source, and, once the window is decided, the copy inside `srcbase` and `srclen` (`Covers`).
`OptimizeFits`: to drop a match or to cut it at an end keeps it inside; `SetupCovers`: the
window that `xd3_srcwin_setup` chooses holds all between the two addresses; `FlushCovers`:
whatever a flush lets out, the rest fits; `SourceTakenCovers`, `WiderCovers`: a source match
taken after the decision lies in the window, and one taken before it widens the addresses
first; with `XD3_BEGREEDY` this does not depend on the limit of matching backward, which may
wrap.
`IoptAssumption`: files are sequences of numbers, windows are not empty, and the large
matches are not shorter than `MIN_MATCH`.

### Finding matches

`XD3MatchProofs` goes on from there, for `MatchSpec`: with the tables, and with a source that
comes block by block, from a FIFO or by returning to the client in the middle of the search.
Checksums, the steps of the matchers, the length of chains and `SprevSize` are arbitrary, a
block has any size and the source window is 2 to 32 blocks. `Unlimited` is assumed as before.
`BufferInv` is the part of `IoptInv` that does not speak of `match`; the lemmas of
`XD3IoptProofs` about it are used for each step that enters a match. `FindInv` adds:

* `SourceInv`: what is known of the source is true, the last block seen, its size and
  whether it is the end. A source shorter than a block whose size is not known is found to
  end only by asking for block 1, which is empty; then `source_eof` is the end of block 0 and
  not the length of the source (`SrcEnd`), but only after block 0 was indexed (`SmallOk`);
* `IndexInv`: the large table holds positions that lie below `srcwin_cksum_pos` and are true;
  the position itself may pass the end of the source only inside `xd3_srcwin_move_point`;
* `SmallInv`: the small table is empty, about to be reset, or holds positions before the
  input. `SmatchFacts` is the walk along a chain: each candidate lies before the one before
  it, and the match that comes out is true;
* `ControlInv`: where in the three functions the search is, and what `match_state` is there;
  a match of the window before is tried once;
* `ExtentInv`, `MaximalExtent`: what has been followed of the match is true, and a direction
  that is finished has ended at a limit or at bytes that differ, whatever block lies between
  (`BackwardStep`, `ForwardStep`); `MaximalUsed`: so are the copies in the buffer;
* `FifoInv`: no block held begins beyond `Reach`, which is what is indexed or matched
  (`Frontier`) and, from there, the shortest match that will be looked for (`Slack`), or the
  end of the match that is being followed. `MatchPosStep` and `ReachStep` carry it: a match
  begins at a position from the table, and a part followed in vain was shorter than
  `min_match`, which the lazy search keeps up to `max_lazy`.

`NeverInternal` then follows where a block is indexed: a block that shares its slot is
`lru_size` blocks further, too far to be held, *if* `max_winsize` is at least a block and
`Slack` (`LongFifo`). The tool's FIFO has 32 blocks of at least 16 KB and `max_lazy` is at
most 90 in the predefined configurations, so this is no restriction there;
the code does not check it for a `max_lazy` given by hand.

For `SourceMatchMaximal` the hypothesis `~ input.greedy` is needed for its last line only: a
greedy search does not go back over what has been matched, so that a copy may begin after the
first equal byte. `MatchAssumption` has the types of the constants, and that where the source
window is guessed (`iopt_size` not 0) the size of the source is known.

### The tool and its children

`MainInv` follows a unit of the input from the file to the library, and a window from the
library to the file. Each sequence on the way is `After` a number, the units that are ahead
of it:

* `Input`, with `Decompressed`: the pipe to the tool holds what follows the tool's position,
  the decompressor what follows that, and it ends well only at the end of the file. It is
  the pipe's only writer while it runs, so that an empty pipe without a writer means it has
  ended; and it is not killed by SIGPIPE before the tool has closed its end, which is why
  taking such a child for a good one (`main_waitpid_check`) loses nothing;
* `Fed`: what the library was given and has yet to take is what was read; a block that was
  not full is the last (`InputOver`), *if the decompressor was right*, which is not known
  until it is waited for;
* `Output`: the file, the recompressor and its pipe hold the windows in order; the
  recompressor does not end well before the tool has closed its pipe;
* `Waiting`: a child that was started is in `ext_subprocs` until it has been waited for, and
  the entries before `waited` are of children that have done well.

At the end, `NothingLeft` puts together what only then is known: each child has ended and
none badly, so that no unit is with a child or in a pipe. `MainAssumption` gives the jobs
their type (`JobType`), and block sizes are not zero. The theorem is about `Spec`; the two
reads whose result the code does not look at (`UnnoticedSpec`) break the property (section 3).

### What stays with TLC

Assumptions are named `ASSUME`s that TLC evaluates on the instances: besides those above
`IntAssumption` (the widths are multiples of the radix, `xoff_t` is not wider than
`usize_t`), `CacheAssumption`, `SourceAssumption` (the source's length is an `xoff_t`),
`DecodeAssumption` (the file's length is an `xoff_t`, a code table entry has a type that
exists, the hard limit of a window is far below the width of `usize_t`), `SizesAssumption`
(a source is shorter than the address space by more than a window).

Only model-checked: `DecodesFile` (the refinement) and `EndsAtWindow` of the decoder,
`DeltaMeansInput` and `ClosedComplete` of the encoder, `XD3Iopt` and `XD3Match` with a bounded
buffer, and the properties of `XD3Merge` and of the secondary compressors. Liveness (`Terminates`, `MatchTerminates`, `AllEnd`) stays with TLC since
fairness and ENABLED are beyond this prover. So does what a recursive *operator* or a
community-module fold with an operator parameter computes (FGK, DJW, merging, `Decoded`): the
provers cannot unfold them.

## 5. Where the model is an abstraction

* An error ends the stream: every client gives up. Fields half updated on the way to an
  error return are not tracked further.
* Allocation fails only in `XD3Encode`. In the other modules it does not; in the decoder
  `ENOMEM` appears only where the code returns it for a code table that is too short.
* The checksum of a window is a parameter: any function to four bytes.
* `stream->getblk` is null in the decoder, as the driver leaves it: a missing block is
  `XD3_GETSRCBLK`. `XD3BlkCache` has the callback.
* The buffer swap of a `VCD_TARGET` window is dead code: `xd3_decode_setup_buffers` refuses
  such windows first.
* In `XD3Iopt` the whole source is in memory, different bytes have different checksums, the
  limit `max_winsize` on how far back a source match may reach is not met, and the mode in
  which an address is written (it decides which opcodes pair, and so what is held in `iout`)
  is some function of the instruction; `instructions` has the modes. In `XD3Match` a
  checksum is a function of the letters it is computed from, with collisions, and the
  unrolled variants of the checksum code are not distinguished.
* Of the encoder's flags `XD3_BEGREEDY`, `XD3_ADLER32` and `XD3_FLUSH` are
  modelled. The decoder is modelled as the package compiles it, without secondary
  compression; the compressors are modelled by themselves.
* In `XD3ExtComp` compression keeps units; the commands (gzip and the like) are external.
* In `XD3Merge` the delta that is read and the one that is written are instructions, not
  bytes, and the instructions of a window do not overlap, so that the optimiser passes
  them on as they are.

## 6. Not modelled

`xdelta3-lzma.h` (a layer over liblzma); `xdelta3-test.h`, `testing/`, `examples/` (read for
what they say of the library); `cpp-btree/` and `rcs_junk.cc` (vendored, or not part of the
build); parsing of arguments, printing of deltas (`main_print_func`), `recode` and the
progress messages of the tool; opening and closing of files in the Swift driver, a dozen
lines around the loop that is modelled.

## 7. Plan

What is left.

1. The Swift loop with its file operations (short reads, the result of `xd3_close_stream`)
   above abstract streams, and secondary compression composed with the decoder's sections.
